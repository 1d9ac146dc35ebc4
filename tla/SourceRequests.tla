-------------------------- MODULE SourceRequests --------------------------
(***************************************************************************)
(* What the connectors have in common: an operation is a script of HTTP    *)
(* requests, sent one after the other.  A script is the sequence of the    *)
(* names of its requests:                                                  *)
(*   get, put, post, upload, rename, remove   one object of the source     *)
(*   export                                   an object's text             *)
(*   blocks, drop, append                     the blocks of a Notion page  *)
(*   lookup                                   a container                  *)
(*   page                                     one page of a listing        *)
(*   refuse                                   nothing is sent: an error    *)
(* A source answers a request "ok" (with a body), "empty" (204), "missing" *)
(* (404 or its equivalent) or "refused" (any other status, or no answer    *)
(* before the deadline); a transport says what the connector makes of it.  *)
(* An id is a sequence of tokens, so that a name may itself hold a         *)
(* separator.                                                              *)
(***************************************************************************)
EXTENDS Naturals, Sequences

Field == {"title", "body", "other"}  \* other: what a source alone has, in metadata

Invalid == [kind |-> "invalid"]      \* what an id that does not parse refers to
Nowhere == <<>>                      \* null, for a parent or a cursor

When(condition, script) == IF condition THEN script ELSE <<>>

Refused == <<"refuse">>

Only(condition, script) == IF condition THEN script ELSE Refused

-----------------------------------------------------------------------------
(* Ids. *)
Starts(id, token) == id # <<>> /\ Head(id) = token

Places(s, token) == {i \in 1..Len(s) : s[i] = token}

FirstOf(s, token) == CHOOSE i \in Places(s, token) : \A j \in Places(s, token) : i <= j
LastOf(s, token) == CHOOSE i \in Places(s, token) : \A j \in Places(s, token) : i >= j

Upto(s, i) == SubSeq(s, 1, i - 1)
From(s, i) == SubSeq(s, i + 1, Len(s))

(* Something stands on both sides of place i. *)
Inside(s, i) == 1 < i /\ i < Len(s)

-----------------------------------------------------------------------------
(* Pages.  A page of a listing, as the source gives it: the items, is there *)
(* more, its own token for what follows, how many there are in all.         *)

(* page-cursor.ts: a number at least minimum, or the first when absent. *)
Numeric(cursor, minimum) == IF cursor = Nowhere THEN minimum ELSE cursor[1]

PageNumber(cursor) == Numeric(cursor, 1)
StartOffset(cursor) == Numeric(cursor, 0)

Cursor(n) == <<n>>
Empty == Cursor(0)     \* a token that is the empty string

=============================================================================
