----------------------- MODULE ConnectorAnswersProofs -----------------------
(***************************************************************************)
(* Proofs that a call nobody came between is answered in truth, for every  *)
(* source, any number of callers, any names the source gives, and any      *)
(* order of its listings.                                                  *)
(*                                                                         *)
(* Part one: what is kept of every call, and that it holds of a call that  *)
(* starts.  Part two: what one answer makes of it, operation by operation. *)
(* Part three: what a refusal may say, and every step together.            *)
(***************************************************************************)
EXTENDS ConnectionsProofs

-----------------------------------------------------------------------------
(***************************************************************************)
(* The inductive invariant says where a call that nobody came between      *)
(* stands: what of its resource it has written, what it has read of it,    *)
(* which pages of a listing it has seen.                                   *)
(***************************************************************************)

Has(todo, q) == \E k \in 1..Len(todo) : todo[k] = q

(* What is left of a reading, and of an update of a Notion page. *)
Readings == {<<"get">>, <<"get", "export">>, <<"export">>, <<"get", "blocks">>, <<"blocks">>}

Rewrites == {<<"blocks", "drop", "append", "get", "blocks">>, <<"drop", "append", "get", "blocks">>,
             <<"append", "get", "blocks">>, <<"get", "blocks">>, <<"blocks">>}

Renames == {<<"get", "rename", "blocks", "drop", "append", "get", "blocks">>,
            <<"rename", "blocks", "drop", "append", "get", "blocks">>,
            <<"get", "rename", "get", "blocks">>, <<"rename", "get", "blocks">>}

NotionUpdates == {<<"put">>} \cup Rewrites \cup Renames

(* A thing of the source, whole. *)
Full(t) == /\ DOMAIN t = {"state", "title", "body", "other", "version"}
           /\ t["title"] \in Value /\ t["other"] \in Value /\ t["body"] \in Seq(Value)

(* The blocks of a page a call has read: they are to be dropped, or pages  *)
(* of them are being read.                                                 *)
Counted(r) ==
    /\ r["pages"] < BlockPages
    /\ Head(r["todo"]) = "drop" => r["pages"] = 0 /\ r["blocks"] # <<>>
    /\ Head(r["todo"]) # "drop" => Len(r["blocks"]) <= r["pages"]

TypedCall(s, r) ==
    /\ r["pc"] \in {"idle", "running", "over"} \cup Ended
    /\ r["calm"] \in BOOLEAN /\ r["faulted"] \in BOOLEAN
    /\ r["item"] \in Item \cup {"none"} /\ r["patch"] \subseteq Field
    /\ r["seen"] \subseteq Item /\ r["limit"] \in 1..2
    /\ Full(r["held"])
    /\ r["blocks"] \in Seq(Value) /\ r["pages"] \in 0..BlockPages /\ Len(r["blocks"]) <= BlockPages
    /\ r["pc"] = "running" =>
         /\ r["op"] = "read" => r["todo"] \in Readings
         /\ r["op"] = "update" /\ s = "notion" => r["todo"] \in NotionUpdates
         /\ Counted(r)

Alone(r) == r["calm"] /\ ~ r["faulted"]

(* The resource is there as it was when the call began. *)
StateKept(rem, r) ==
    r["before"]["state"] = IF r["item"] \in Item THEN rem[r["item"]]["state"] ELSE "absent"

(* The first pages of a body, and it is not at its end. *)
Leaf(body, r) ==
    /\ r["pages"] = Len(r["blocks"]) /\ r["blocks"] = SubSeq(body, 1, r["pages"])
    /\ r["pages"] = 0 \/ r["pages"] < Len(body)

Reads(s, rem, r) ==
    LET t == rem[r["item"]]
        todo == r["todo"]
    IN  /\ Head(todo) = "get" =>
             /\ Len(todo) = 1 /\ s = "drive" /\ r["item"] \in Item => KindOf[r["item"]] # "text"
             /\ r["pages"] = 0 /\ r["blocks"] = <<>>
        /\ Head(todo) # "get" => r["item"] \in Item /\ r["held"]["title"] = t["title"]
        /\ Head(todo) = "blocks" => Leaf(t["body"], r)

(* The fields still to be written. *)
Left(s, r) ==
    {f \in r["patch"] \cap Takes(s) :
       \/ Has(r["todo"], "put") \/ Has(r["todo"], "putNext")
       \/ f = "title" /\ Has(r["todo"], "rename")
       \/ f = "body" /\ (Has(r["todo"], "upload") \/ Has(r["todo"], "append"))}

Long(r) == Len(r["before"]["body"]) > BlockPages

Due(s, c, r, f) == IF f \in r["patch"] \cap Takes(s) THEN New(c, f) ELSE r["before"][f]

(* A Notion page is rewritten: its blocks are read, dropped, and replaced. *)
Rewriting(t, r) ==
    LET todo == r["todo"]
    IN  /\ Has(todo, "drop") /\ Head(todo) # "drop" => t["body"] = r["before"]["body"]
        /\ Has(todo, "drop") /\ Head(todo) \in {"get", "rename"} => r["pages"] = 0 /\ r["blocks"] = <<>>
        /\ Has(todo, "drop") /\ Head(todo) = "blocks" => Leaf(t["body"], r)
        /\ Head(todo) = "drop" =>
             /\ Len(r["blocks"]) <= Len(t["body"])
             /\ r["blocks"] = SubSeq(t["body"], 1, Len(r["blocks"]))
             /\ Long(r) \/ Len(r["blocks"]) = Len(t["body"])
        /\ Head(todo) = "append" => Long(r) \/ t["body"] = <<>>

(* What an update has written is written, and the rest is as it was. *)
Written(s, t, c, r) ==
    \A f \in Field \ Left(s, r) : t[f] = Due(s, c, r, f) \/ (f = "body" /\ Long(r))

Updates(s, rem, c, r) ==
    /\ s \notin {"teams", "calendly", "code"}
    /\ s = "discussion" => r["todo"] \in {<<"get", "put">>, <<"put">>}
    /\ r["item"] \in Item => Written(s, rem[r["item"]], c, r)
    /\ s \in {"confluence", "discussion"} /\ r["item"] \in Item /\ Head(r["todo"]) \in {"put", "putNext"} =>
         \A f \in {"title", "body", "version"} : r["held"][f] = rem[r["item"]][f]
    /\ s = "notion" /\ r["item"] \in Item => Rewriting(rem[r["item"]], r)

Creates(rem, c, r) ==
    LET todo == r["todo"]
        t == rem[c]
    IN  /\ \A k \in 1..(Len(todo) - 1) : todo[k] \notin {"get", "upload"}
        /\ Has(todo, "post") => ~ Has(todo, "upload")
        /\ Has(todo, "postTitle") => (Has(todo, "upload") <=> r["body"])
        /\ ~ Has(todo, "post") /\ ~ Has(todo, "postTitle") =>
             /\ r["item"] = c /\ t["state"] = "live" /\ t["title"] = c
             /\ IF Has(todo, "upload") THEN r["body"] ELSE t["body"] = IF r["body"] THEN <<c>> ELSE <<>>

(* The listing of a call, in a source as it is. *)
ScopeIn(s, r) ==
    IF r["op"] = "list" /\ ~ r["inside"]
    THEN IF s \in Containers THEN {"top"} ELSE IF s \in Unlisted THEN Item \ {"top"} ELSE Item
    ELSE Item \ {"top"}

ListedIn(s, rem, r) == {i \in ScopeIn(s, r) : i \in Item /\ rem[i]["state"] = "live"}

Place(S, i) == Cardinality({j \in S : Order[j] < Order[i]})

ResourcesIn(s, rem, r) == {i \in ListedIn(s, rem, r) : s = "issue" /\ r["op"] = "list" => i # "b"}

ByNumber(s, r) == s = "issue" \/ (s = "slack" /\ r["op"] = "search")

SkipIn(s, r) == IF ByNumber(s, r) THEN (PageNumber(r["cursor"]) - 1) * r["limit"]
                ELSE StartOffset(r["cursor"])

(* What comes before the next page of a listing has been seen. *)
Lists(s, rem, r) ==
    LET all == ListedIn(s, rem, r)
        skip == SkipIn(s, r)
    IN  /\ r["todo"][Len(r["todo"])] = "page" /\ r["script"][Len(r["script"])] = "page"
        /\ \/ r["cursor"] = Nowhere
           \/ \E n \in Nat : r["cursor"] = Cursor(n) /\ (ByNumber(s, r) => n > 0)
        /\ skip \in Nat /\ skip <= Cardinality(all)
        /\ r["seen"] = {i \in ResourcesIn(s, rem, r) : Place(all, i) < skip}

OnItsWay(s, rem, c, r) ==
    CASE r["op"] = "read" -> StateKept(rem, r) /\ Reads(s, rem, r)
      [] r["op"] = "update" -> StateKept(rem, r) /\ Updates(s, rem, c, r)
      [] r["op"] = "delete" -> StateKept(rem, r) /\ Len(r["todo"]) = 1
      [] r["op"] = "create" -> Creates(rem, c, r)
      [] OTHER -> Lists(s, rem, r)

(* What an answer says is so. *)
Correct(s, rem, c, r) ==
    LET t == rem[r["item"]]
    IN  CASE r["op"] = "read" ->
               /\ r["held"]["title"] = t["title"]
               /\ \/ r["held"]["body"] = t["body"]
                  \/ s = "drive" /\ KindOf[r["item"]] # "text"
                  \/ Len(t["body"]) > BlockPages
          [] r["op"] = "update" ->
               \A f \in Field : t[f] = Due(s, c, r, f) \/ (f = "body" /\ Long(r))
          [] r["op"] = "create" -> /\ rem[c]["title"] = c
                                   /\ rem[c]["body"] = IF r["body"] THEN <<c>> ELSE <<>>
          [] r["op"] = "delete" -> ~ (r["item"] \in Item /\ t["state"] = "live")
          [] OTHER -> r["seen"] = ResourcesIn(s, rem, r)

TopLive(rem) == "top" \in Item /\ rem["top"]["state"] = "live"

Honest(s, rem, c, r) ==
    /\ r["pc"] = "done" => Correct(s, rem, c, r)
    /\ r["pc"] = "failed" => ~ r["sent"] \/ (r["op"] \in OnOne /\ r["before"]["state"] # "live")
    /\ r["pc"] = "missing" => IF r["op"] \in OnOne THEN r["before"]["state"] # "live"
                              ELSE r["inside"] /\ ~ TopLive(rem)

EachTrue(s, rem, c, r) ==
    /\ TypedCall(s, r)
    /\ Alone(r) => Honest(s, rem, c, r) /\ (r["pc"] = "running" => OnItsWay(s, rem, c, r))

AllTrue(s, rem, calls) ==
    /\ \A i \in Item : Full(rem[i])
    /\ \A c \in Caller : EachTrue(s, rem, c, calls[c])

Truth == /\ AllTrue(source, remote, call)
         /\ troubles \in 0..MaxTroubles /\ site \in BOOLEAN

-----------------------------------------------------------------------------
(* What is left of an update of a Notion page, request by request. *)
LEMMA NotionSteps ==
  ASSUME NEW todo \in NotionUpdates
  PROVE  /\ Len(todo) # 1 => Tail(todo) \in NotionUpdates
         /\ Head(todo) \in {"put", "get", "rename", "blocks", "drop", "append"}
         /\ Head(todo) = "put" => Len(todo) = 1
         /\ Head(todo) = "blocks" /\ Len(todo) # 1 =>
              /\ Len(todo) > 1 /\ todo[2] = "drop" /\ Has(todo, "drop") /\ Head(Tail(todo)) = "drop"
              /\ Tail(Tail(todo)) = <<"append", "get", "blocks">> /\ Len(Tail(todo)) # 1
         /\ Head(todo) = "drop" => Len(todo) # 1 /\ Tail(todo) = <<"append", "get", "blocks">>
         /\ Head(todo) = "append" => /\ Len(todo) # 1 /\ Tail(todo) = <<"get", "blocks">>
                                     /\ ~ Has(todo, "drop")
         /\ Head(todo) \in {"get", "rename"} =>
              Len(todo) # 1 /\ Head(Tail(todo)) \in {"get", "rename", "blocks"}
<1> DEFINE Fine == /\ Len(todo) # 1 => Tail(todo) \in NotionUpdates
                   /\ Head(todo) \in {"put", "get", "rename", "blocks", "drop", "append"}
                   /\ Head(todo) = "put" => Len(todo) = 1
                   /\ Head(todo) = "blocks" /\ Len(todo) # 1 =>
                        /\ Len(todo) > 1 /\ todo[2] = "drop" /\ Has(todo, "drop") /\ Head(Tail(todo)) = "drop"
                        /\ Tail(Tail(todo)) = <<"append", "get", "blocks">> /\ Len(Tail(todo)) # 1
                   /\ Head(todo) = "drop" => Len(todo) # 1 /\ Tail(todo) = <<"append", "get", "blocks">>
                   /\ Head(todo) = "append" => /\ Len(todo) # 1 /\ Tail(todo) = <<"get", "blocks">>
                                               /\ ~ Has(todo, "drop")
                   /\ Head(todo) \in {"get", "rename"} =>
                        Len(todo) # 1 /\ Head(Tail(todo)) \in {"get", "rename", "blocks"}
<1> SUFFICES Fine
  OBVIOUS
<1> HIDE DEF Fine
<1>1. CASE todo = <<"put">>
  <2>1. Len(todo) = 1 /\ Head(todo) = "put"
    BY <1>1
  <2>2. QED
    BY <2>1 DEF Fine
<1>2. CASE todo = <<"blocks", "drop", "append", "get", "blocks">>
  <2>1. Len(todo) = 5 /\ Head(todo) = "blocks" /\ todo[2] = "drop"
    BY <1>2
  <2> DEFINE rest == Tail(todo)
  <2>2. rest = <<"drop", "append", "get", "blocks">>
    BY <1>2
  <2> HIDE DEF rest, Fine
  <2>3. rest \in NotionUpdates
    BY <2>2, Zenon DEF NotionUpdates, Rewrites, Renames
  <2>4. Tail(rest) = <<"append", "get", "blocks">> /\ Len(rest) = 4 /\ Head(rest) = "drop"
    BY <2>2
  <2>5. Has(todo, "drop")
    BY <2>1 DEF Has
  <2>6. QED
    BY <2>1, <2>3, <2>4, <2>5 DEF rest, Fine
<1>3. CASE todo = <<"drop", "append", "get", "blocks">>
  <2>1. Len(todo) = 4 /\ Head(todo) = "drop" /\ todo[2] = "append"
    BY <1>3
  <2> DEFINE rest == Tail(todo)
  <2>2. rest = <<"append", "get", "blocks">>
    BY <1>3
  <2> HIDE DEF rest, Fine
  <2>3. rest \in NotionUpdates
    BY <2>2, Zenon DEF NotionUpdates, Rewrites, Renames
  <2>4. QED
    BY <2>1, <2>2, <2>3 DEF rest, Fine
<1>4. CASE todo = <<"append", "get", "blocks">>
  <2>1. Len(todo) = 3 /\ Head(todo) = "append" /\ todo[2] = "get"
    BY <1>4
  <2> DEFINE rest == Tail(todo)
  <2>2. rest = <<"get", "blocks">>
    BY <1>4
  <2> HIDE DEF rest, Fine
  <2>3. rest \in NotionUpdates
    BY <2>2, Zenon DEF NotionUpdates, Rewrites, Renames
  <2>4. ~ Has(todo, "drop")
    BY <1>4 DEF Has
  <2>5. QED
    BY <2>1, <2>2, <2>3, <2>4 DEF rest, Fine
<1>5. CASE todo = <<"get", "blocks">>
  <2>1. Len(todo) = 2 /\ Len(todo) # 1 /\ Head(todo) = "get" /\ todo[2] = "blocks"
    BY <1>5
  <2> DEFINE rest == Tail(todo)
  <2>2. rest = <<"blocks">>
    BY <1>5
  <2> HIDE DEF rest, Fine
  <2>3. rest \in NotionUpdates
    BY <2>2, Zenon DEF NotionUpdates, Rewrites, Renames
  <2>4. Head(rest) = "blocks"
    BY <2>2
  <2>5. /\ Head(todo) # "put" /\ Head(todo) # "blocks" /\ Head(todo) # "drop" /\ Head(todo) # "append"
        /\ Head(rest) \in {"get", "rename", "blocks"} /\ Len(todo) # 1
        /\ Head(todo) \in {"put", "get", "rename", "blocks", "drop", "append"}
    BY <2>1, <2>4
  <2>6. QED
    BY <2>3, <2>5, Zenon DEF rest, Fine
<1>6. CASE todo = <<"blocks">>
  <2>1. Len(todo) = 1 /\ Head(todo) = "blocks"
    BY <1>6
  <2>2. QED
    BY <2>1 DEF Fine
<1>7. CASE todo = <<"get", "rename", "blocks", "drop", "append", "get", "blocks">>
  <2>1. Len(todo) = 7 /\ Head(todo) = "get" /\ todo[2] = "rename"
    BY <1>7
  <2> DEFINE rest == Tail(todo)
  <2>2. rest = <<"rename", "blocks", "drop", "append", "get", "blocks">>
    BY <1>7
  <2> HIDE DEF rest, Fine
  <2>3. rest \in NotionUpdates
    BY <2>2, Zenon DEF NotionUpdates, Rewrites, Renames
  <2>4. Head(rest) = "rename"
    BY <2>2
  <2>5. QED
    BY <2>1, <2>3, <2>4 DEF rest, Fine
<1>8. CASE todo = <<"rename", "blocks", "drop", "append", "get", "blocks">>
  <2>1. Len(todo) = 6 /\ Head(todo) = "rename" /\ todo[2] = "blocks"
    BY <1>8
  <2> DEFINE rest == Tail(todo)
  <2>2. rest = <<"blocks", "drop", "append", "get", "blocks">>
    BY <1>8
  <2> HIDE DEF rest, Fine
  <2>3. rest \in NotionUpdates
    BY <2>2, Zenon DEF NotionUpdates, Rewrites, Renames
  <2>4. Head(rest) = "blocks"
    BY <2>2
  <2>5. QED
    BY <2>1, <2>3, <2>4, SMTT(60) DEF rest, Fine
<1>9. CASE todo = <<"get", "rename", "get", "blocks">>
  <2>1. Len(todo) = 4 /\ Head(todo) = "get" /\ todo[2] = "rename"
    BY <1>9
  <2> DEFINE rest == Tail(todo)
  <2>2. rest = <<"rename", "get", "blocks">>
    BY <1>9
  <2> HIDE DEF rest, Fine
  <2>3. rest \in NotionUpdates
    BY <2>2, Zenon DEF NotionUpdates, Rewrites, Renames
  <2>4. Head(rest) = "rename"
    BY <2>2
  <2>5. QED
    BY <2>1, <2>3, <2>4, SMTT(60) DEF rest, Fine
<1>10. CASE todo = <<"rename", "get", "blocks">>
  <2>1. Len(todo) = 3 /\ Head(todo) = "rename" /\ todo[2] = "get"
    BY <1>10
  <2> DEFINE rest == Tail(todo)
  <2>2. rest = <<"get", "blocks">>
    BY <1>10
  <2> HIDE DEF rest, Fine
  <2>3. rest \in NotionUpdates
    BY <2>2, Zenon DEF NotionUpdates, Rewrites, Renames
  <2>4. Head(rest) = "get"
    BY <2>2
  <2>5. QED
    BY <2>1, <2>3, <2>4 DEF rest, Fine
<1>11. \/ todo = <<"put">>
       \/ todo = <<"blocks", "drop", "append", "get", "blocks">>
       \/ todo = <<"drop", "append", "get", "blocks">>
       \/ todo = <<"append", "get", "blocks">>
       \/ todo = <<"get", "blocks">>
       \/ todo = <<"blocks">>
       \/ todo = <<"get", "rename", "blocks", "drop", "append", "get", "blocks">>
       \/ todo = <<"rename", "blocks", "drop", "append", "get", "blocks">>
       \/ todo = <<"get", "rename", "get", "blocks">>
       \/ todo = <<"rename", "get", "blocks">>
  BY DEF NotionUpdates, Rewrites, Renames
<1>12. QED
  BY <1>1, <1>2, <1>3, <1>4, <1>5, <1>6, <1>7, <1>8, <1>9, <1>10, <1>11

(* What is left of a reading. *)
LEMMA ReadingSteps ==
  ASSUME NEW todo \in Readings
  PROVE  /\ Head(todo) \in {"get", "export", "blocks"}
         /\ Head(todo) # "get" => Len(todo) = 1
         /\ Len(todo) # 1 => /\ Head(todo) = "get" /\ Tail(todo) \in {<<"export">>, <<"blocks">>}
                             /\ Tail(todo) \in Readings /\ Head(Tail(todo)) # "get"
<1>1. CASE todo \in {<<"get">>, <<"export">>, <<"blocks">>}
  BY <1>1
<1>2. CASE todo = <<"get", "export">>
  <2> DEFINE rest == Tail(todo)
  <2>1. Head(todo) = "get" /\ rest = <<"export">> /\ Len(todo) = 2
    BY <1>2
  <2> HIDE DEF rest
  <2>2. Head(rest) = "export"
    BY <2>1
  <2>3. QED
    BY <2>1, <2>2 DEF Readings, rest
<1>3. CASE todo = <<"get", "blocks">>
  <2> DEFINE rest == Tail(todo)
  <2>1. Head(todo) = "get" /\ rest = <<"blocks">> /\ Len(todo) = 2
    BY <1>3
  <2> HIDE DEF rest
  <2>2. Head(rest) = "blocks"
    BY <2>1
  <2>3. QED
    BY <2>1, <2>2 DEF Readings, rest
<1>4. QED
  BY <1>1, <1>2, <1>3 DEF Readings

(* The first request of what is left, and the others. *)
LEMMA HasFirst ==
  ASSUME NEW S, NEW todo \in Seq(S), todo # <<>>, NEW q
  PROVE  Has(todo, q) <=> Head(todo) = q \/ Has(Tail(todo), q)
<1>1. /\ Len(todo) \in Nat /\ Len(todo) >= 1 /\ Head(todo) = todo[1] /\ Tail(todo) \in Seq(S)
      /\ Len(Tail(todo)) = Len(todo) - 1 /\ \A k \in 1..(Len(todo) - 1) : Tail(todo)[k] = todo[k + 1]
  BY HeadTailProperties
<1> DEFINE n == Len(todo)
           rest == Tail(todo)
<1>2. /\ n \in Nat /\ n >= 1 /\ Head(todo) = todo[1] /\ Len(rest) = n - 1
      /\ \A k \in 1..(n - 1) : rest[k] = todo[k + 1]
  BY <1>1
<1> HIDE DEF n, rest
<1>3. ASSUME NEW k \in 1..n, todo[k] = q
      PROVE  Head(todo) = q \/ \E j \in 1..(n - 1) : rest[j] = q
  <2>1. CASE k = 1
    BY <1>2, <1>3, <2>1
  <2>2. CASE k # 1
    <3>1. k - 1 \in 1..(n - 1) /\ (k - 1) + 1 = k
      BY <1>2, <2>2
    <3>2. rest[k - 1] = todo[k]
      BY <1>2, <3>1
    <3>3. QED
      BY <1>3, <3>1, <3>2
  <2>3. QED
    BY <2>1, <2>2
<1>4. ASSUME NEW k \in 1..(n - 1), rest[k] = q
      PROVE  \E j \in 1..n : todo[j] = q
  <2>1. k + 1 \in 1..n
    BY <1>2
  <2>2. QED
    BY <1>2, <1>4, <2>1
<1>5. 1 \in 1..n
  BY <1>2
<1>6. QED
  BY <1>2, <1>3, <1>4, <1>5 DEF Has, n, rest

LEMMA HasNothing == ASSUME NEW q PROVE ~ Has(<<>>, q)
BY DEF Has

(* Short scripts, one after the other. *)
LEMMA Joined ==
  ASSUME NEW a, NEW b, NEW c
  PROVE  /\ <<a>> \o <<b>> = <<a, b>> /\ <<a, b>> \o <<c>> = <<a, b, c>>
         /\ <<>> \o <<a>> = <<a>> /\ <<a>> \o <<>> = <<a>> /\ <<a, b>> \o <<>> = <<a, b>>
         /\ <<>> \o <<a, b>> = <<a, b>> /\ <<>> \o <<a, b, c>> = <<a, b, c>>
<1> DEFINE S == {a, b, c}
<1>1. /\ <<a>> \in Seq(S) /\ <<b>> \in Seq(S) /\ <<c>> \in Seq(S) /\ <<a, b>> \in Seq(S)
      /\ <<a, b, c>> \in Seq(S)
  OBVIOUS
<1>2. <<a>> \o <<b>> = <<a, b>>
  <2> DEFINE u == <<a>> \o <<b>>
  <2>1. u \in Seq(S) /\ Len(u) = 2 /\ u[1] = a /\ u[2] = b
    BY <1>1
  <2>2. <<a, b>> \in Seq(S) /\ Len(<<a, b>>) = 2
    BY <1>1
  <2> HIDE DEF u, S
  <2>3. u = <<a, b>>
    BY <2>1, <2>2, SeqEqual
  <2>4. QED
    BY <2>3 DEF u
<1>3. <<a, b>> \o <<c>> = <<a, b, c>>
  <2> DEFINE u == <<a, b>> \o <<c>>
  <2>1. u \in Seq(S) /\ Len(u) = 3 /\ u[1] = a /\ u[2] = b /\ u[3] = c
    BY <1>1
  <2>2. <<a, b, c>> \in Seq(S) /\ Len(<<a, b, c>>) = 3
    BY <1>1
  <2> HIDE DEF u, S
  <2>3. u = <<a, b, c>>
    BY <2>1, <2>2, SeqEqual
  <2>4. QED
    BY <2>3 DEF u
<1>4. \A s \in Seq(S) : <<>> \o s = s /\ s \o <<>> = s
  BY ConcatEmptySeq
<1>5. QED
  BY <1>1, <1>2, <1>3, <1>4

(* The script of an update of a Notion page. *)
LEMMA PageScript ==
  ASSUME NEW c, c.op = "update", c.ref.kind # "database"
  PROVE  /\ NotionScript(c) \in NotionUpdates /\ Head(NotionScript(c)) \in {"get", "blocks"}
         /\ "title" \in c.patch => Has(NotionScript(c), "rename")
         /\ "body" \in c.patch => Has(NotionScript(c), "append")
<1> DEFINE S == {"get", "rename", "blocks", "drop", "append"}
           first == When("title" \in c.patch, <<"get", "rename">>)
           second == When("body" \in c.patch, <<"blocks", "drop", "append">>)
           third == <<"get", "blocks">>
           script == (first \o second) \o third
<1>1. NotionScript(c) = script
  BY DEF NotionScript, NotionUpdate, NotionUpdatePage, NotionReplaceContent, NotionReadPage
<1>2. third \in Seq(S) /\ <<"get", "rename">> \in Seq(S) /\ <<"blocks", "drop", "append">> \in Seq(S)
  OBVIOUS
<1>3. CASE "title" \notin c.patch /\ "body" \notin c.patch
  <2>1. script = (<<>> \o <<>>) \o third
    BY <1>3 DEF When
  <2>2. (<<>> \o <<>>) \o third = third
    BY <1>2, ConcatEmptySeq
  <2>3. third \in NotionUpdates
    BY Zenon DEF NotionUpdates, Rewrites
  <2>4. Head(third) = "get"
    OBVIOUS
  <2>5. NotionScript(c) = third
    BY <1>1, <2>1, <2>2, Zenon
  <2> HIDE DEF third
  <2>6. QED
    BY <1>3, <2>3, <2>4, <2>5
<1>4. CASE "title" \in c.patch /\ "body" \notin c.patch
  <2>1. script = (<<"get", "rename">> \o <<>>) \o third
    BY <1>4 DEF When
  <2>2. <<"get", "rename">> \o <<>> = <<"get", "rename">>
    BY <1>2, ConcatEmptySeq
  <2> DEFINE u == <<"get", "rename">> \o third
             v == <<"get", "rename", "get", "blocks">>
  <2>3. /\ u \in Seq(S) /\ Len(u) = 4 /\ u[1] = "get" /\ u[2] = "rename" /\ u[3] = "get"
        /\ u[4] = "blocks"
    BY <1>2
  <2>4. v \in Seq(S) /\ Len(v) = 4
    OBVIOUS
  <2>5. u = v
    <3>1. \A k \in 1..4 : u[k] = v[k]
      BY <2>3
    <3> HIDE DEF u, v, S
    <3>2. QED
      BY <2>3, <2>4, <3>1, SeqEqual
  <2>6. Head(v) = "get" /\ Has(v, "rename")
    BY DEF Has
  <2>7. NotionScript(c) = v
    BY <1>1, <2>1, <2>2, <2>5, Zenon
  <2>8. v \in NotionUpdates
    BY Zenon DEF NotionUpdates, Renames
  <2>9. QED
    <3> HIDE DEF v
    <3>1. QED
      BY <1>4, <2>6, <2>7, <2>8
<1>5. CASE "title" \notin c.patch /\ "body" \in c.patch
  <2>1. script = (<<>> \o <<"blocks", "drop", "append">>) \o third
    BY <1>5 DEF When
  <2>2. <<>> \o <<"blocks", "drop", "append">> = <<"blocks", "drop", "append">>
    BY <1>2, ConcatEmptySeq
  <2> DEFINE u == <<"blocks", "drop", "append">> \o third
             v == <<"blocks", "drop", "append", "get", "blocks">>
  <2>3. /\ u \in Seq(S) /\ Len(u) = 5 /\ u[1] = "blocks" /\ u[2] = "drop" /\ u[3] = "append"
        /\ u[4] = "get" /\ u[5] = "blocks"
    BY <1>2
  <2>4. v \in Seq(S) /\ Len(v) = 5
    OBVIOUS
  <2>5. u = v
    <3>1. \A k \in 1..5 : u[k] = v[k]
      BY <2>3
    <3> HIDE DEF u, v, S
    <3>2. QED
      BY <2>3, <2>4, <3>1, SeqEqual
  <2>6. Head(v) = "blocks" /\ Has(v, "append")
    BY DEF Has
  <2>7. NotionScript(c) = v
    BY <1>1, <2>1, <2>2, <2>5, Zenon
  <2>8. v \in NotionUpdates
    BY Zenon DEF NotionUpdates, Rewrites
  <2>9. QED
    <3> HIDE DEF v
    <3>1. QED
      BY <1>5, <2>6, <2>7, <2>8
<1>6. CASE "title" \in c.patch /\ "body" \in c.patch
  <2>1. script = (<<"get", "rename">> \o <<"blocks", "drop", "append">>) \o third
    BY <1>6 DEF When
  <2> DEFINE w == <<"get", "rename">> \o <<"blocks", "drop", "append">>
             u == w \o third
             v == <<"get", "rename", "blocks", "drop", "append", "get", "blocks">>
  <2>2. /\ w \in Seq(S) /\ Len(w) = 5 /\ w[1] = "get" /\ w[2] = "rename" /\ w[3] = "blocks"
        /\ w[4] = "drop" /\ w[5] = "append"
    BY <1>2
  <2> HIDE DEF w
  <2>3. /\ u \in Seq(S) /\ Len(u) = 7 /\ u[1] = "get" /\ u[2] = "rename" /\ u[3] = "blocks"
        /\ u[4] = "drop" /\ u[5] = "append" /\ u[6] = "get" /\ u[7] = "blocks"
    <3>1. Len(third) = 2 /\ third[1] = "get" /\ third[2] = "blocks"
      OBVIOUS
    <3> HIDE DEF third
    <3>2. /\ u \in Seq(S) /\ Len(u) = 7
          /\ \A i \in 1..7 : u[i] = IF i <= 5 THEN w[i] ELSE third[i - 5]
      <4>1. w \in Seq(S) /\ third \in Seq(S) /\ Len(w) = 5
        BY <1>2, <2>2
      <4> HIDE DEF S
      <4>2. /\ w \o third \in Seq(S) /\ Len(w \o third) = Len(w) + Len(third)
            /\ \A i \in 1..Len(w) + Len(third) :
                 (w \o third)[i] = IF i <= Len(w) THEN w[i] ELSE third[i - Len(w)]
        BY <4>1, ConcatProperties
      <4>3. Len(w) + Len(third) = 7
        BY <3>1, <4>1
      <4>4. QED
        BY <4>1, <4>2, <4>3
    <3> HIDE DEF u
    <3>3. QED
      BY <2>2, <3>1, <3>2
  <2>4. v \in Seq(S) /\ Len(v) = 7
    OBVIOUS
  <2>5. u = v
    <3>1. \A k \in 1..7 : u[k] = v[k]
      BY <2>3
    <3> HIDE DEF u, v, S
    <3>2. QED
      BY <2>3, <2>4, <3>1, SeqEqual
  <2>6. Head(v) = "get" /\ Has(v, "rename") /\ Has(v, "append")
    BY DEF Has
  <2>7. NotionScript(c) = v
    BY <1>1, <2>1, <2>5, Zenon DEF w
  <2>8. v \in NotionUpdates
    BY Zenon DEF NotionUpdates, Renames
  <2>9. QED
    <3> HIDE DEF v
    <3>1. QED
      BY <2>6, <2>7, <2>8
<1>7. QED
  BY <1>3, <1>4, <1>5, <1>6

-----------------------------------------------------------------------------
(* Which connector a script is of. *)
LEMMA ScriptOf ==
  ASSUME NEW c
  PROVE  /\ Script("memory", c) = MemoryScript(c) /\ Script("notion", c) = NotionScript(c)
         /\ Script("drive", c) = DriveScript(c) /\ Script("confluence", c) = ConfluenceScript(c)
         /\ Script("slack", c) = SlackScript(c) /\ Script("teams", c) = TeamsScript(c)
         /\ Script("calendar", c) = CalendarScript(c) /\ Script("calcom", c) = CalcomScript(c)
         /\ Script("calendly", c) = CalendlyScript(c) /\ Script("jira", c) = JiraScript(c)
BY DEF Script, GitHub

LEMMA KindOfScript ==
  ASSUME NEW s \in {"issue", "discussion", "project", "code"}, NEW c
  PROVE  LET k == IF c.op \in {"list", "search", "create"} THEN s ELSE Addressed(c.id)
         IN  /\ k \in {"issue", "discussion", "project", "code"}
             /\ \/ Script(s, c) = Refused
                \/ c.op \in KindCan[k] /\ Script(s, c) = KindScript(k, c)
<1> DEFINE k == IF c.op \in {"list", "search", "create"} THEN s ELSE Addressed(c.id)
<1>1. Addressed(c.id) \in {"issue", "discussion", "project", "code"}
  BY DEF Addressed, Prefix
<1>2. Script(s, c) = GitHubScript(k, c)
  BY DEF Script, GitHub
<1>3. QED
  BY <1>1, <1>2 DEF GitHubScript, Only

(* A listing ends with a page. *)
LEMMA WalkScripts ==
  ASSUME NEW s \in Sources, NEW c, c.op \in {"list", "search"}, Script(s, c) # Refused
  PROVE  Script(s, c)[Len(Script(s, c))] = "page"
<1> DEFINE script == Script(s, c)
<1>1. script = <<"page">> \/ script = <<"lookup">> \o <<"page">>
  <2> DEFINE Fine(t) == t = Refused \/ t = <<"page">> \/ t = <<"lookup">> \o <<"page">>
  <2>1. Fine(MemoryScript(c)) /\ Fine(NotionScript(c)) /\ Fine(DriveScript(c)) /\ Fine(ConfluenceScript(c))
    BY DEF MemoryScript, NotionScript, NotionList, Only, DriveScript, DriveList, DriveSearch,
           ConfluenceScript, ConfluenceList, ConfluenceSearch
  <2>2. Fine(SlackScript(c)) /\ Fine(TeamsScript(c))
    BY DEF SlackScript, SlackList, SlackListMessages, Only, TeamsScript, TeamsList
  <2>3. Fine(CalendarScript(c)) /\ Fine(CalcomScript(c)) /\ Fine(CalendlyScript(c))
    BY DEF CalendarScript, CalendarList, CalendarListEvents, Only, CalcomScript, CalcomListBookings,
           CalcomListEventTypes, CalendlyScript, CalendlyList, CalendlyScopedParams
  <2>4. Fine(JiraScript(c))
    BY DEF JiraScript, JiraList, JiraSearch
  <2>5. CASE s \in {"issue", "discussion", "project", "code"}
    <3>1. \/ script = Refused
          \/ c.op \in KindCan[s] /\ script = KindScript(s, c)
      BY <2>5, KindOfScript
    <3>2. c.op \in KindCan[s] => s = "issue" \/ c.op = "list"
      BY <2>5 DEF KindCan
    <3>3. s = "issue" => Fine(IssueScript(c))
      BY DEF IssueScript, IssueList, IssueSearch, Only
    <3>4. c.op = "list" => Fine(DiscussionScript(c)) /\ Fine(ProjectScript(c)) /\ Fine(CodeList(c))
      BY DEF DiscussionScript, DiscussionList, ProjectScript, ProjectList, CodeList, Only
    <3>5. /\ KindScript("issue", c) = IssueScript(c) /\ KindScript("discussion", c) = DiscussionScript(c)
          /\ KindScript("project", c) = ProjectScript(c)
          /\ c.op = "list" => KindScript("code", c) = CodeList(c)
      BY DEF KindScript
    <3> HIDE DEF Fine
    <3>6. c.op \in KindCan[s] => Fine(KindScript(s, c))
      BY <2>5, <3>2, <3>3, <3>4, <3>5
    <3>7. Fine(script)
      BY <3>1, <3>6 DEF Fine
    <3>8. QED
      BY <3>7 DEF Fine
  <2> HIDE DEF Fine
  <2>6. Fine(script)
    BY <2>1, <2>2, <2>3, <2>4, <2>5, ScriptOf DEF Sources, Fine
  <2>7. QED
    BY <2>6 DEF Fine
<1> HIDE DEF script
<1>2. <<"lookup">> \o <<"page">> = <<"lookup", "page">>
  BY Joined
<1>3. script = <<"page">> \/ script = <<"lookup", "page">>
  BY <1>1, <1>2
<1>4. script[Len(script)] = "page"
  <2>1. CASE script = <<"page">>
    BY <2>1
  <2>2. CASE script = <<"lookup", "page">>
    BY <2>2
  <2>3. QED
    BY <1>3, <2>1, <2>2
<1>5. QED
  BY <1>4 DEF script

(* A reading. *)
LEMMA ReadScripts ==
  ASSUME NEW s \in Sources, NEW c, c.op = "read", Script(s, c) # Refused
  PROVE  /\ Script(s, c) \in Readings /\ Head(Script(s, c)) = "get"
         /\ s = "drive" /\ Len(Script(s, c)) = 1 => c.kind # "text"
<1> DEFINE script == Script(s, c)
           Fine(t) == t \in {<<"get">>, <<"get", "blocks">>}
<1>1. \/ s # "drive" /\ Fine(script)
      \/ s = "drive" /\ c.kind = "text" /\ script = <<"get", "export">>
      \/ s = "drive" /\ c.kind # "text" /\ script = <<"get">>
  <2>1. Fine(MemoryScript(c)) /\ Fine(NotionScript(c)) /\ Fine(ConfluenceScript(c)) /\ Fine(SlackScript(c))
    BY DEF MemoryScript, NotionScript, NotionRead, NotionReadPage, ConfluenceScript, ConfluenceRead,
           SlackScript, SlackReadChannel, SlackReadMessage
  <2>2. Fine(TeamsScript(c)) /\ Fine(CalendarScript(c)) /\ Fine(CalcomScript(c)) /\ Fine(CalendlyScript(c))
    BY DEF TeamsScript, CalendarScript, CalcomScript, CalendlyScript
  <2>3. Fine(JiraScript(c))
    BY DEF JiraScript, JiraRead
  <2>4. DriveScript(c) = IF c.kind = "text" THEN <<"get", "export">> ELSE <<"get">>
    <3>1. DriveScript(c) = <<"get">> \o (IF c.kind = "text" THEN <<"export">> ELSE <<>>)
      BY DEF DriveScript, DriveRead, DriveContent, When
    <3>2. <<"get">> \o <<"export">> = <<"get", "export">> /\ <<"get">> \o <<>> = <<"get">>
      BY Joined
    <3>3. QED
      BY <3>1, <3>2, Zenon
  <2>5. CASE s \in {"issue", "discussion", "project", "code"}
    <3> DEFINE k == Addressed(c.id)
    <3>1. k \in {"issue", "discussion", "project", "code"} /\ script = KindScript(k, c)
      BY <2>5, KindOfScript
    <3>2. /\ IssueScript(c) = <<"get">> /\ DiscussionScript(c) = <<"get">> /\ ProjectScript(c) = <<"get">>
      BY DEF IssueScript, IssueRead, DiscussionScript, DiscussionFind, ProjectScript, ProjectFind
    <3> HIDE DEF k
    <3>3. KindScript(k, c) = <<"get">>
      BY <3>1, <3>2 DEF KindScript, CodeRead
    <3>4. QED
      BY <2>5, <3>1, <3>3
  <2> HIDE DEF Fine
  <2>6. QED
    BY <2>1, <2>2, <2>3, <2>4, <2>5, ScriptOf DEF Sources
<1> HIDE DEF script
<1>2. Len(<<"get", "export">>) = 2 /\ Head(<<"get", "export">>) = "get" /\ Head(<<"get", "blocks">>) = "get"
  OBVIOUS
<1>3. script \in Readings /\ Head(script) = "get"
  <2>1. CASE script = <<"get">>
    BY <2>1 DEF Readings
  <2>2. CASE script = <<"get", "blocks">> \/ script = <<"get", "export">>
    BY <1>2, <2>2, Zenon DEF Readings
  <2>3. QED
    BY <1>1, <2>1, <2>2
<1>4. s = "drive" /\ Len(script) = 1 => c.kind # "text"
  BY <1>1, <1>2
<1>5. QED
  BY <1>3, <1>4 DEF script

(* A deletion is one request. *)
LEMMA DeleteScripts ==
  ASSUME NEW s \in Sources, NEW c, c.op = "delete", Script(s, c) # Refused
  PROVE  Len(Script(s, c)) = 1
<1> DEFINE script == Script(s, c)
           Fine(t) == t = Refused \/ Len(t) = 1
<1>1. /\ Fine(MemoryScript(c)) /\ Fine(NotionScript(c)) /\ Fine(DriveScript(c))
      /\ Fine(ConfluenceScript(c)) /\ Fine(SlackScript(c))
  BY DEF MemoryScript, NotionScript, NotionDelete, DriveScript, DriveDelete, ConfluenceScript,
         ConfluenceDelete, SlackScript, SlackDelete, Only
<1>2. /\ Fine(TeamsScript(c)) /\ Fine(CalendarScript(c)) /\ Fine(CalcomScript(c))
      /\ Fine(CalendlyScript(c)) /\ Fine(JiraScript(c))
  BY DEF TeamsScript, CalendarScript, CalendarDelete, CalcomScript, CalcomDelete, CalendlyScript,
         CalendlyDelete, JiraScript, JiraDelete, Only
<1>3. CASE s \in {"issue", "discussion", "project", "code"}
  <2> DEFINE k == Addressed(c.id)
  <2>1. /\ k \in {"issue", "discussion", "project", "code"}
        /\ script = Refused \/ c.op \in KindCan[k]
    BY <1>3, KindOfScript
  <2>2. c.op \notin KindCan[k]
    BY <2>1 DEF KindCan
  <2>3. QED
    BY <2>1, <2>2
<1> HIDE DEF Fine
<1>4. Fine(script)
  BY <1>1, <1>2, <1>3, ScriptOf DEF Sources, Fine
<1>5. QED
  BY <1>4 DEF Fine

(* A creation: one request makes the thing; a reading of it, or an upload  *)
(* of a body that it did not bring, comes last.                            *)
Making(script, body) ==
    /\ \A k \in 1..(Len(script) - 1) : script[k] \notin {"get", "upload"}
    /\ Has(script, "post") \/ Has(script, "postTitle")
    /\ Has(script, "post") => ~ Has(script, "upload")
    /\ Has(script, "postTitle") => (Has(script, "upload") <=> body)

LEMMA MakingIs ==
  ASSUME NEW body
  PROVE  /\ Making(<<"post">>, body) /\ Making(<<"lookup", "post">>, body) /\ Making(<<"post", "get">>, body)
         /\ ~ body => Making(<<"postTitle">>, body) /\ Making(<<"lookup", "postTitle">>, body)
         /\ body => /\ Making(<<"postTitle", "upload">>, body)
                    /\ Making(<<"lookup", "postTitle", "upload">>, body)
<1>1. Making(<<"post">>, body) /\ Making(<<"lookup", "post">>, body) /\ Making(<<"post", "get">>, body)
  BY DEF Making, Has
<1>2. ~ body => Making(<<"postTitle">>, body) /\ Making(<<"lookup", "postTitle">>, body)
  BY DEF Making, Has
<1>3. body => Making(<<"postTitle", "upload">>, body) /\ Making(<<"lookup", "postTitle", "upload">>, body)
  BY DEF Making, Has
<1>4. QED
  BY <1>1, <1>2, <1>3

LEMMA CreateScripts ==
  ASSUME NEW s \in Sources, NEW c, c.op = "create", Script(s, c) # Refused
  PROVE  Making(Script(s, c), c.body /\ ~ (s = "drive" /\ c.meta))
<1> DEFINE script == Script(s, c)
           body == c.body /\ ~ (s = "drive" /\ c.meta)
           Fine(t) == t \in {Refused, <<"post">>, <<"lookup", "post">>, <<"post", "get">>}
<1>1. \/ Fine(script)
      \/ s = "drive" /\ script = <<"postTitle">> \o When(body, <<"upload">>)
      \/ s = "project" /\ script = <<"lookup", "postTitle">> \o When(body, <<"upload">>)
  <2>1. Fine(MemoryScript(c)) /\ Fine(ConfluenceScript(c)) /\ Fine(SlackScript(c)) /\ Fine(TeamsScript(c))
    BY DEF MemoryScript, ConfluenceScript, ConfluenceCreate, SlackScript, SlackPost, TeamsScript,
           TeamsPost, Only
  <2>2. Fine(CalendarScript(c)) /\ Fine(CalcomScript(c)) /\ Fine(CalendlyScript(c))
    BY DEF CalendarScript, CalendarCreate, CalcomScript, CalcomCreate, CalendlyScript, Only
  <2>3. Fine(JiraScript(c))
    <3>1. JiraScript(c) = Refused \/ JiraScript(c) = <<"post">> \o <<"get">>
      BY DEF JiraScript, JiraCreate, JiraRead, Only
    <3>2. <<"post">> \o <<"get">> = <<"post", "get">>
      BY Joined
    <3>3. QED
      BY <3>1, <3>2, Zenon
  <2>4. Fine(NotionScript(c))
    <3>1. \/ NotionScript(c) = Refused
          \/ NotionScript(c) = <<"lookup">> \o <<"post">>
          \/ NotionScript(c) = <<>> \o <<"post">>
      BY DEF NotionScript, NotionCreate, NotionCreatePage, Only, When
    <3>2. <<"lookup">> \o <<"post">> = <<"lookup", "post">> /\ <<>> \o <<"post">> = <<"post">>
      BY Joined
    <3>3. QED
      BY <3>1, <3>2, Zenon
  <2>5. DriveScript(c) = <<"postTitle">> \o When(c.body /\ ~ c.meta, <<"upload">>)
    BY DEF DriveScript, DriveCreate
  <2>6. CASE s \in {"issue", "discussion", "project", "code"}
    <3>1. script = Refused \/ (c.op \in KindCan[s] /\ script = KindScript(s, c))
      BY <2>6, KindOfScript
    <3>2. s = "code" => c.op \notin KindCan[s]
      BY DEF KindCan
    <3>3. Fine(IssueScript(c)) /\ Fine(DiscussionScript(c))
      BY DEF IssueScript, IssueCreate, DiscussionScript, DiscussionCreate, Only
    <3>4. ProjectScript(c) = Refused \/ ProjectScript(c) = <<"lookup", "postTitle">> \o When(c.body, <<"upload">>)
      BY DEF ProjectScript, ProjectCreate, Only
    <3>5. /\ KindScript("issue", c) = IssueScript(c) /\ KindScript("discussion", c) = DiscussionScript(c)
          /\ KindScript("project", c) = ProjectScript(c)
      BY DEF KindScript
    <3>6. Fine(Refused)
      OBVIOUS
    <3>7. s = "project" => When(c.body, <<"upload">>) = When(body, <<"upload">>)
      BY DEF When
    <3> HIDE DEF Fine, body
    <3>8. QED
      BY <2>6, <3>1, <3>2, <3>3, <3>4, <3>5, <3>6, <3>7
  <2>7. s = "drive" => When(c.body /\ ~ c.meta, <<"upload">>) = When(body, <<"upload">>)
    BY DEF When
  <2> HIDE DEF Fine, body
  <2>8. QED
    BY <2>1, <2>2, <2>3, <2>4, <2>5, <2>6, <2>7, ScriptOf DEF Sources
<1>2. Fine(script) => script \in {<<"post">>, <<"lookup", "post">>, <<"post", "get">>}
  OBVIOUS
<1> HIDE DEF script, body, Fine
<1>3. CASE Fine(script)
  BY <1>2, <1>3, MakingIs, Zenon DEF body, script
<1>4. CASE script = <<"postTitle">> \o When(body, <<"upload">>)
  <2>1. <<"postTitle">> \o <<"upload">> = <<"postTitle", "upload">> /\ <<"postTitle">> \o <<>> = <<"postTitle">>
    BY Joined
  <2>2. script = IF body THEN <<"postTitle", "upload">> ELSE <<"postTitle">>
    BY <1>4, <2>1, Zenon DEF When
  <2>3. Making(script, body)
    BY <2>2, MakingIs, Zenon
  <2>4. QED
    BY <2>3 DEF body, script
<1>5. CASE script = <<"lookup", "postTitle">> \o When(body, <<"upload">>)
  <2>1. /\ <<"lookup", "postTitle">> \o <<"upload">> = <<"lookup", "postTitle", "upload">>
        /\ <<"lookup", "postTitle">> \o <<>> = <<"lookup", "postTitle">>
    BY Joined
  <2>2. script = IF body THEN <<"lookup", "postTitle", "upload">> ELSE <<"lookup", "postTitle">>
    BY <1>5, <2>1, Zenon DEF When
  <2>3. Making(script, body)
    BY <2>2, MakingIs, Zenon
  <2>4. QED
    BY <2>3 DEF body, script
<1>6. QED
  BY <1>1, <1>3, <1>4, <1>5

(* An update: which requests write what the patch names and the source has. *)
Writing(s, patch, script) ==
    \A f \in patch \cap Takes(s) :
       \/ Has(script, "put") \/ Has(script, "putNext")
       \/ f = "title" /\ Has(script, "rename")
       \/ f = "body" /\ (Has(script, "upload") \/ Has(script, "append"))

LEMMA UpdateScripts ==
  ASSUME NEW s \in Sources, NEW c, c.op = "update", Script(s, c) # Refused,
         s = "discussion" => Addressed(c.id) = "discussion",
         s = "code" => Addressed(c.id) = "code"
  PROVE  /\ Writing(s, c.patch, Script(s, c)) /\ s \notin {"teams", "calendly", "code"}
         /\ s = "notion" => /\ Script(s, c) \in NotionUpdates
                            /\ Head(Script(s, c)) \in {"put", "get", "blocks"}
         /\ s = "discussion" => Script(s, c) = <<"get", "put">>
<1> DEFINE script == Script(s, c)
           Puts(t) == t = Refused \/ Has(t, "put") \/ Has(t, "putNext")
<1>0. /\ Has(<<"put">>, "put") /\ Has(<<"get", "put">>, "put") /\ Has(<<"put", "get">>, "put")
      /\ Has(<<"get", "putNext">>, "putNext")
  BY DEF Has
<1>1. CASE s = "notion"
  <2>1. script = NotionScript(c)
    BY <1>1, ScriptOf
  <2>2. CASE c.ref.kind = "database"
    <3>1. script = <<"put">>
      BY <2>1, <2>2 DEF NotionScript, NotionUpdate, NotionUpdateDatabase
    <3>2. <<"put">> \in NotionUpdates /\ Head(<<"put">>) = "put"
      BY DEF NotionUpdates
    <3>3. QED
      BY <1>0, <1>1, <3>1, <3>2 DEF Writing
  <2>3. CASE c.ref.kind # "database"
    <3>1. /\ script \in NotionUpdates /\ Head(script) \in {"get", "blocks"}
          /\ "title" \in c.patch => Has(script, "rename")
          /\ "body" \in c.patch => Has(script, "append")
      BY <2>1, <2>3, PageScript
    <3>2. Takes(s) = {"title", "body"}
      BY <1>1 DEF Takes
    <3> HIDE DEF script
    <3>3. Writing(s, c.patch, script)
      BY <3>1, <3>2 DEF Writing
    <3>4. QED
      BY <1>1, <3>1, <3>3 DEF script
  <2>4. QED
    BY <2>2, <2>3
<1>2. CASE s = "drive"
  <2> DEFINE first == IF "title" \in c.patch THEN <<"rename">> ELSE <<"get">>
  <2>1. script = first \o (IF "body" \in c.patch THEN <<"upload">> ELSE <<>>)
    BY <1>2, ScriptOf DEF DriveScript, DriveUpdate, When
  <2>2. /\ <<"rename">> \o <<"upload">> = <<"rename", "upload">> /\ <<"rename">> \o <<>> = <<"rename">>
        /\ <<"get">> \o <<"upload">> = <<"get", "upload">>
    BY Joined
  <2>3. /\ Has(<<"rename", "upload">>, "rename") /\ Has(<<"rename", "upload">>, "upload")
        /\ Has(<<"rename">>, "rename") /\ Has(<<"get", "upload">>, "upload")
    BY DEF Has
  <2>4. /\ "title" \in c.patch => Has(script, "rename")
        /\ "body" \in c.patch => Has(script, "upload")
    BY <2>1, <2>2, <2>3, Zenon
  <2>5. Takes(s) = {"title", "body"}
    BY <1>2 DEF Takes
  <2> HIDE DEF script
  <2>6. Writing(s, c.patch, script)
    BY <2>4, <2>5 DEF Writing
  <2>7. QED
    BY <1>2, <2>6 DEF script
<1>3. CASE s \in {"memory", "confluence", "slack", "calendar", "calcom", "jira"}
  <2>1. JiraScript(c) = <<"put">> \o <<"get">> /\ <<"put">> \o <<"get">> = <<"put", "get">>
    BY Joined DEF JiraScript, JiraUpdate, JiraRead
  <2>2. /\ MemoryScript(c) = <<"put">> /\ ConfluenceScript(c) = <<"get", "putNext">>
        /\ SlackScript(c) \in {Refused, <<"put">>} /\ CalendarScript(c) \in {Refused, <<"put">>}
        /\ CalcomScript(c) \in {Refused, <<"put">>}
    BY DEF MemoryScript, ConfluenceScript, ConfluenceUpdate, SlackScript, SlackUpdate, CalendarScript,
           CalendarUpdate, CalcomScript, CalcomUpdate, Only
  <2>3. /\ Puts(MemoryScript(c)) /\ Puts(ConfluenceScript(c)) /\ Puts(SlackScript(c))
        /\ Puts(CalendarScript(c)) /\ Puts(CalcomScript(c)) /\ Puts(JiraScript(c))
    BY <1>0, <2>1, <2>2, Zenon
  <2> HIDE DEF Puts
  <2>4. Puts(script)
    BY <1>3, <2>3, ScriptOf
  <2>5. Has(script, "put") \/ Has(script, "putNext")
    BY <2>4 DEF Puts
  <2> HIDE DEF script
  <2>6. QED
    BY <1>3, <2>5 DEF Writing, script
<1>4. CASE s \in {"teams", "calendly"}
  <2>1. TeamsScript(c) = Refused /\ CalendlyScript(c) = Refused
    BY DEF TeamsScript, CalendlyScript
  <2>2. QED
    BY <1>4, <2>1, ScriptOf
<1>5. CASE s \in {"issue", "discussion", "project", "code"}
  <2> DEFINE k == Addressed(c.id)
  <2>1. /\ k \in {"issue", "discussion", "project", "code"} /\ c.op \in KindCan[k]
        /\ script = KindScript(k, c)
    BY <1>5, KindOfScript
  <2>2. k # "code"
    BY <2>1 DEF KindCan
  <2>3. <<"get">> \o <<"put">> = <<"get", "put">>
    BY Joined
  <2>4. /\ KindScript("issue", c) = <<"put">> /\ KindScript("discussion", c) = <<"get">> \o <<"put">>
        /\ KindScript("project", c) = <<"get">> \o <<"put">>
    BY DEF KindScript, IssueScript, IssueUpdate, DiscussionScript, DiscussionUpdate, DiscussionFind,
           ProjectScript, ProjectUpdate, ProjectFind
  <2>5. s # "code" /\ (s = "discussion" => script = <<"get", "put">>)
    BY <2>1, <2>2, <2>3, <2>4
  <2>6. Has(script, "put")
    <3> HIDE DEF script, k
    <3>1. script \in {<<"put">>, <<"get", "put">>}
      BY <2>1, <2>2, <2>3, <2>4
    <3>2. QED
      BY <1>0, <3>1, Zenon
  <2> HIDE DEF script
  <2>7. Writing(s, c.patch, script)
    BY <2>6 DEF Writing
  <2>8. QED
    BY <1>5, <2>5, <2>7 DEF script
<1>6. QED
  BY <1>1, <1>2, <1>3, <1>4, <1>5 DEF Sources

-----------------------------------------------------------------------------
(* The first token of an id. *)
LEMMA FirstStays ==
  ASSUME NEW S, NEW w \in Seq(S), w # <<>>, NEW u \in Seq(S)
  PROVE  w \o u \in Seq(S) /\ w \o u # <<>> /\ (w \o u)[1] = w[1]
<1>1. /\ w \o u \in Seq(S) /\ Len(w \o u) = Len(w) + Len(u) /\ Len(w) \in Nat /\ Len(u) \in Nat
      /\ \A k \in 1..Len(w) + Len(u) : (w \o u)[k] = IF k <= Len(w) THEN w[k] ELSE u[k - Len(w)]
  BY ConcatProperties
<1>2. Len(w) # 0
  OBVIOUS
<1>3. 1 \in 1..Len(w) + Len(u) /\ 1 <= Len(w)
  BY <1>1, <1>2
<1>4. (w \o u)[1] = w[1]
  BY <1>1, <1>3
<1> DEFINE v == w \o u
<1>5. v \in Seq(S) /\ Len(v) # 0
  BY <1>1, <1>2
<1> HIDE DEF v
<1>6. v # <<>>
  BY <1>5
<1>7. QED
  BY <1>1, <1>4, <1>6 DEF v

LEMMA FirstIs ==
  ASSUME NEW S, NEW w \in Seq(S), w # <<>>
  PROVE  SubSeq(w, 1, 1) = <<w[1]>>
<1>1. Len(w) \in Nat /\ Len(w) # 0
  OBVIOUS
<1> DEFINE u == SubSeq(w, 1, 1)
           v == <<w[1]>>
<1>2. u \in Seq(S) /\ Len(u) = 1 /\ u[1] = w[1]
  BY <1>1
<1>3. v \in Seq(S) /\ Len(v) = 1 /\ v[1] = w[1]
  BY <1>1
<1> HIDE DEF u, v
<1>4. u = v
  BY <1>2, <1>3, SeqEqual
<1>5. QED
  BY <1>4 DEF u, v

(* Which of GitHub's connectors an id is for. *)
LEMMA AddressedIs ==
  ASSUME NEW S, NEW id \in Seq(S), id # <<>>
  PROVE  /\ id[1] = "discussion:" => Addressed(id) = "discussion"
         /\ id[1] = "code:" => Addressed(id) = "code"
<1>1. SubSeq(id, 1, 1) = <<id[1]>>
  BY FirstIs
<1>2. DOMAIN Prefix = {"issue", "discussion", "project", "code"}
  BY DEF Prefix
<1>3. /\ Prefix["issue"] = <<>> /\ Prefix["discussion"] = <<"discussion:">>
      /\ Prefix["project"] = <<"project:">> /\ Prefix["code"] = <<"code:">>
  BY DEF Prefix
<1>4. <<"discussion:">> # <<>> /\ <<"discussion:">> # <<"project:">> /\ <<"discussion:">> # <<"code:">>
      /\ <<"code:">> # <<>> /\ <<"code:">> # <<"project:">>
  OBVIOUS
<1> DEFINE first == SubSeq(id, 1, 1)
<1>5. first = <<id[1]>>
  BY <1>1
<1> HIDE DEF first
<1>6. first = <<"discussion:">> => Addressed(id) = "discussion"
  <2> SUFFICES ASSUME first = <<"discussion:">> PROVE Addressed(id) = "discussion"
    OBVIOUS
  <2>1. \A k \in DOMAIN Prefix : Prefix[k] = first <=> k = "discussion"
    BY <1>2, <1>3, <1>4
  <2>2. Addressed(id) = CHOOSE k \in DOMAIN Prefix : Prefix[k] = first
    BY <1>2, <2>1 DEF Addressed, first
  <2>3. "discussion" \in DOMAIN Prefix
    BY <1>2
  <2>4. QED
    BY <2>1, <2>2, <2>3
<1>7. first = <<"code:">> => Addressed(id) = "code"
  <2> SUFFICES ASSUME first = <<"code:">> PROVE Addressed(id) = "code"
    OBVIOUS
  <2>1. \A k \in DOMAIN Prefix : Prefix[k] = first <=> k = "code"
    BY <1>2, <1>3, <1>4
  <2>2. Addressed(id) = CHOOSE k \in DOMAIN Prefix : Prefix[k] = first
    BY <1>2, <2>1 DEF Addressed, first
  <2>3. "code" \in DOMAIN Prefix
    BY <1>2
  <2>4. QED
    BY <2>1, <2>2, <2>3
<1>8. QED
  BY <1>5, <1>6, <1>7

(* What is not an id is not sent to GitHub. *)
LEMMA StrayIsRefused == Addressed(<<"stray">>) = "issue" /\ IssueRef(<<"stray">>) = Invalid
<1>1. Addressed(<<"stray">>) = "issue"
  <2>1. SubSeq(<<"stray">>, 1, 1) = <<"stray">>
    <3>1. <<"stray">> \in Seq({"stray"}) /\ <<"stray">> # <<>> /\ <<"stray">>[1] = "stray"
      OBVIOUS
    <3>2. QED
      BY <3>1, FirstIs
  <2>2. <<"stray">> # <<"discussion:">> /\ <<"stray">> # <<"project:">> /\ <<"stray">> # <<"code:">>
    OBVIOUS
  <2>3. QED
    BY <2>1, <2>2 DEF Addressed, Prefix
<1>2. IssueRef(<<"stray">>) = Invalid
  <2>1. Len(<<"stray">>) = 1
    OBVIOUS
  <2>2. QED
    BY <2>1 DEF IssueRef, RepoNumber
<1>3. QED
  BY <1>1, <1>2

(* The directory of a path. *)
LEMMA DirectoryIs ==
  ASSUME NEW S, NEW path \in Seq(S), Places(path, "/") # {}
  PROVE  Upto(path, LastOf(path, "/")) \in Seq(S)
<1> DEFINE slash == Places(path, "/")
<1>1. slash \subseteq 1..Len(path) /\ Len(path) \in Nat /\ slash # {}
  BY DEF Places
<1>2. \E i \in slash : \A j \in slash : i >= j
  <2> HIDE DEF slash
  <2>1. QED
    BY <1>1, LastNumber
<1>3. LastOf(path, "/") \in slash
  BY <1>2 DEF LastOf
<1>4. QED
  BY <1>1, <1>3 DEF Upto

(* An id a listing gave is for the connector it was listed by. *)
LEMMA OwnId ==
  ASSUME source \in Source
  PROVE  /\ source = "discussion" => \A i \in Item : Addressed(IdOf(i)) = "discussion"
         /\ source = "code" => \A i \in {"top", "a"} : Addressed(IdOf(i)) = "code"
<1>1. ASSUME source = "discussion", NEW i \in Item
      PROVE  Addressed(IdOf(i)) = "discussion"
  <2> DEFINE n == NameOf[source][i]
             first == <<"discussion:">>
             second == RepoNumberId(n)
             id == first \o second
  <2>1. n.repo \in Seq(Range(n.repo))
    BY <1>1, NamesAssumption DEF IsName
  <2>2. i # "stray"
    BY SourceAssumption DEF Item
  <2>3. IdOf(i) = id
    BY <1>1, <2>2 DEF IdOf, Resource, DiscussionResource
  <2> DEFINE S == Range(n.repo) \cup {"#", n.number, "discussion:"}
  <2>4. n.repo \in Seq(S) /\ <<"#", n.number>> \in Seq(S) /\ first \in Seq(S) /\ first # <<>>
        /\ first[1] = "discussion:"
    BY <2>1
  <2>5. second \in Seq(S)
    BY <2>4 DEF RepoNumberId
  <2> HIDE DEF S, first, second, n
  <2>6. id \in Seq(S) /\ id # <<>> /\ id[1] = "discussion:"
    BY <2>4, <2>5, FirstStays
  <2> HIDE DEF id
  <2>7. QED
    BY <2>3, <2>6, AddressedIs
<1>2. ASSUME source = "code", NEW i \in {"top", "a"}
      PROVE  \E S : NameOf[source][i].repo \in Seq(S) /\ NameOf[source][i].path \in Seq(S)
  <2> DEFINE top == NameOf[source]["top"]
             thing == NameOf[source]["a"]
             slash == Places(thing.path, "/")
             dir == Upto(thing.path, LastOf(thing.path, "/"))
             path == IF slash = {} THEN <<>> ELSE dir
             S == Range(thing.repo) \cup Range(thing.path)
  <2>1. Encloses("code", top, thing)
    BY <1>2, NamesAssumption
  <2>2. /\ thing.repo \in Seq(Range(thing.repo)) /\ thing.path \in Seq(Range(thing.path))
        /\ top = [repo |-> thing.repo, path |-> path]
    BY <2>1 DEF Encloses, IsName
  <2>3. thing.repo \in Seq(S) /\ thing.path \in Seq(S)
    BY <2>2
  <2>4. path \in Seq(S)
    <3>1. slash # {} => dir \in Seq(S)
      <4> HIDE DEF S
      <4>1. QED
        BY <2>3, DirectoryIs
    <3> HIDE DEF S, dir, slash
    <3>2. QED
      BY <3>1
  <2> HIDE DEF S, path
  <2>5. QED
    BY <1>2, <2>2, <2>3, <2>4
<1>3. ASSUME source = "code", NEW i \in {"top", "a"}
      PROVE  Addressed(IdOf(i)) = "code"
  <2> DEFINE n == NameOf[source][i]
             first == <<"code:">>
             id == ((first \o n.repo) \o <<":">>) \o n.path
  <2>1. PICK T : n.repo \in Seq(T) /\ n.path \in Seq(T)
    BY <1>2, <1>3
  <2>2. i # "stray"
    OBVIOUS
  <2>3. IdOf(i) = id
    BY <1>3, <2>2 DEF IdOf, Resource, CodeResource
  <2> DEFINE S == T \cup {":", "code:"}
             mark == <<":">>
  <2>4. n.repo \in Seq(S) /\ n.path \in Seq(S) /\ first \in Seq(S) /\ first # <<>>
        /\ mark \in Seq(S) /\ first[1] = "code:"
    BY <2>1
  <2> DEFINE u == first \o n.repo
             v == u \o mark
             w == v \o n.path
  <2> HIDE DEF S, first, n, mark
  <2>5. u \in Seq(S) /\ u # <<>> /\ u[1] = "code:"
    BY <2>4, FirstStays
  <2> HIDE DEF u
  <2>6. v \in Seq(S) /\ v # <<>> /\ v[1] = "code:"
    BY <2>4, <2>5, FirstStays
  <2> HIDE DEF v
  <2>7. w \in Seq(S) /\ w # <<>> /\ w[1] = "code:"
    BY <2>4, <2>6, FirstStays
  <2>8. IdOf(i) = w
    BY <2>3, Zenon DEF w, v, u, mark
  <2> HIDE DEF w
  <2>9. QED
    BY <2>7, <2>8, AddressedIs
<1>4. QED
  BY <1>1, <1>3

-----------------------------------------------------------------------------
(* What is removed from a sequence: where it comes first, it is the head. *)
LEMMA RemoveFirstIs ==
  ASSUME NEW S, NEW s \in Seq(S), NEW e
  PROVE  /\ RemoveFirst(s, e) \in Seq(S)
         /\ s # <<>> /\ Head(s) = e => RemoveFirst(s, e) = Tail(s)
<1> DEFINE I == {i \in 1..Len(s) : s[i] = e}
           k == Min(I)
<1>1. Len(s) \in Nat
  OBVIOUS
<1>2. RemoveFirst(s, e) = IF \E i \in 1..Len(s) : s[i] = e THEN RemoveAt(s, IF I # {} THEN k ELSE 0) ELSE s
  BY DEF RemoveFirst, SelectInSeq
<1>3. (\E i \in 1..Len(s) : s[i] = e) <=> I # {}
  OBVIOUS
<1>4. RemoveFirst(s, e) = IF I # {} THEN RemoveAt(s, k) ELSE s
  BY <1>2, <1>3
<1>5. I \subseteq 1..Len(s)
  OBVIOUS
<1>6. ASSUME I # {} PROVE k \in I /\ \A j \in I : k <= j
  <2> HIDE DEF I
  <2>1. I \in SUBSET Nat
    BY <1>1, <1>5
  <2>2. \E x \in I : \A y \in I : x <= y
    BY <1>6, <2>1, FirstNumber
  <2>3. QED
    BY <2>2 DEF Min
<1> HIDE DEF k
<1>7. CASE I = {}
  <2>1. ~ (s # <<>> /\ Head(s) = e)
    <3> SUFFICES ASSUME s # <<>>, Head(s) = e PROVE FALSE
      OBVIOUS
    <3>1. 1 \in 1..Len(s) /\ s[1] = e
      OBVIOUS
    <3>2. QED
      BY <1>7, <3>1
  <2>2. QED
    BY <1>4, <1>7, <2>1
<1>8. CASE I # {}
  <2>1. k \in 1..Len(s)
    BY <1>5, <1>6, <1>8
  <2>2. SubSeq(s, 1, k - 1) \in Seq(S) /\ SubSeq(s, k + 1, Len(s)) \in Seq(S)
    BY <1>1, <2>1
  <2>3. RemoveFirst(s, e) = SubSeq(s, 1, k - 1) \o SubSeq(s, k + 1, Len(s))
    BY <1>4, <1>8 DEF RemoveAt
  <2>4. ASSUME s # <<>>, Head(s) = e PROVE RemoveFirst(s, e) = Tail(s)
    <3>1. 1 \in I
      BY <2>4
    <3>2. k = 1
      BY <1>6, <1>8, <2>1, <3>1
    <3>3. SubSeq(s, 1, k - 1) = <<>>
      BY <3>2
    <3> DEFINE rest == SubSeq(s, 2, Len(s))
    <3>4. rest = Tail(s)
      BY <1>1, <2>4
    <3>5. rest \in Seq(S) /\ SubSeq(s, k + 1, Len(s)) = rest
      BY <2>2, <3>2
    <3> HIDE DEF rest
    <3>6. <<>> \o rest = rest
      BY <3>5, ConcatEmptySeq
    <3>7. QED
      BY <2>3, <3>3, <3>4, <3>5, <3>6
  <2>5. SubSeq(s, 1, k - 1) \o SubSeq(s, k + 1, Len(s)) \in Seq(S)
    BY <2>2
  <2>6. QED
    BY <2>3, <2>4, <2>5
<1>9. QED
  BY <1>7, <1>8

-----------------------------------------------------------------------------
(* Things stay whole. *)
LEMMA CallerIsValue == Caller \subseteq Value /\ {"first", "person"} \subseteq Value
BY DEF Value

LEMMA FullThings ==
  /\ Full(Absent)
  /\ \A title \in Value : \A body \in Seq(Value) : Full(Thing(title, body))
<1>1. ASSUME NEW title \in Value, NEW body \in Seq(Value)
      PROVE  Full(Thing(title, body)) /\ Full([Thing(title, body) EXCEPT !.state = "absent"])
  BY <1>1 DEF Full, Thing
<1>2. "first" \in Value /\ <<>> \in Seq(Value)
  BY CallerIsValue
<1>3. QED
  BY <1>1, <1>2 DEF Absent

LEMMA FullSet ==
  ASSUME NEW t, Full(t), NEW f \in ThingFields, NEW v,
         f \in {"title", "other"} => v \in Value,
         f = "body" => v \in Seq(Value)
  PROVE  Full([t EXCEPT ![f] = v])
<1> DEFINE u == [t EXCEPT ![f] = v]
<1>1. DOMAIN u = DOMAIN t /\ \A g \in DOMAIN t : u[g] = IF g = f THEN v ELSE t[g]
  OBVIOUS
<1> HIDE DEF u
<1>2. QED
  BY <1>1 DEF Full, ThingFields, u

LEMMA FullPatched ==
  ASSUME NEW t, Full(t), NEW c \in Caller, NEW ask, Full(ask.held)
  PROVE  Full(Patched(t, c, ask))
<1> DEFINE sets == Writes(source, ask.patch)
           value(f) == IF f \in ask.patch THEN New(c, f) ELSE ask.held[f]
           title == IF "title" \in sets THEN value("title") ELSE t.title
           body == IF "body" \in sets THEN value("body") ELSE t.body
           other == IF "other" \in sets THEN value("other") ELSE t.other
           version == t.version + 1
           u == [t EXCEPT !.title = title, !.body = body, !.other = other, !.version = version]
<1>1. Patched(t, c, ask) = u
  BY DEF Patched
<1>2. c \in Value /\ <<c>> \in Seq(Value)
  BY CallerIsValue
<1>3. /\ ask.held["title"] \in Value /\ ask.held["other"] \in Value /\ ask.held["body"] \in Seq(Value)
      /\ t["title"] \in Value /\ t["other"] \in Value /\ t["body"] \in Seq(Value)
  BY DEF Full
<1>4. title \in Value /\ body \in Seq(Value) /\ other \in Value
  <2>1. value("title") \in Value /\ value("other") \in Value /\ value("body") \in Seq(Value)
    BY <1>2, <1>3 DEF New
  <2> HIDE DEF value, sets
  <2>2. QED
    BY <1>3, <2>1
<1> HIDE DEF title, body, other, version, sets
<1> DEFINE u1 == [t EXCEPT !["title"] = title]
           u2 == [u1 EXCEPT !["body"] = body]
           u3 == [u2 EXCEPT !["other"] = other]
           u4 == [u3 EXCEPT !["version"] = version]
<1>5. u = u4
  OBVIOUS
<1> HIDE DEF u, u1, u2, u3, u4
<1>6. Full(u1)
  BY <1>4, FullSet DEF u1, ThingFields
<1>7. Full(u2)
  BY <1>4, <1>6, FullSet DEF u2, ThingFields
<1>8. Full(u3)
  BY <1>4, <1>7, FullSet DEF u3, ThingFields
<1>9. Full(u4)
  BY <1>8, FullSet DEF u4, ThingFields
<1>10. QED
  BY <1>1, <1>5, <1>9

(* One thing is set, in a source whose things are whole. *)
LEMMA FullOne ==
  ASSUME NEW rem, Stocked(rem), \A j \in Item : Full(rem[j]), NEW i, NEW t, i \in Item => Full(t)
  PROVE  \A j \in Item : Full([rem EXCEPT ![i] = t][j])
<1> DEFINE now == [rem EXCEPT ![i] = t]
<1>1. now = [j \in Item |-> IF j = i THEN t ELSE rem[j]]
  BY DEF Stocked
<1> HIDE DEF now
<1>2. QED
  BY <1>1 DEF now

LEMMA EffectFull ==
  ASSUME Stocked(remote), \A j \in Item : Full(remote[j]), NEW c \in Caller, NEW ask, Full(ask.held),
         NEW request
  PROVE  \A j \in Item : Full(Effect(c, ask, request)[j])
<1> DEFINE i == ask.item
           t == remote[i]
           Fine(now) == \A j \in Item : Full(now[j])
<1>1. c \in Item /\ c \in Value /\ <<c>> \in Seq(Value)
  BY CallerIsValue DEF Item
<1>2. i \in Item => Full(t) /\ t["body"] \in Seq(Value)
  BY DEF Full
<1>3. Fine(remote)
  OBVIOUS
<1>4. ASSUME NEW v, i \in Item => Full(v) PROVE Fine([remote EXCEPT ![i] = v])
  <2> HIDE DEF i
  <2>1. QED
    BY <1>4, FullOne
<1> DEFINE text == IF request = "post" /\ ask.body THEN <<c>> ELSE <<>>
           made == Thing(c, text)
<1>5. Fine([remote EXCEPT ![c] = made])
  <2>0. text \in Seq(Value)
    BY <1>1
  <2> HIDE DEF text
  <2>1. Full(made)
    BY <1>1, <2>0, FullThings
  <2> HIDE DEF made
  <2>2. QED
    BY <2>1, FullOne
<1>6. Fine([remote EXCEPT ![i] = Patched(t, c, ask)])
  <2>1. i \in Item => Full(Patched(t, c, ask))
    BY <1>2, FullPatched
  <2>2. QED
    BY <1>4, <2>1
<1>7. /\ Fine([remote EXCEPT ![i].title = c])
      /\ Fine([remote EXCEPT ![i].body = <<c>>])
      /\ Fine([remote EXCEPT ![i].body = Append(t.body, c)])
      /\ Fine([remote EXCEPT ![i].body = RemoveFirst(t.body, Head(ask.blocks))])
      /\ Fine([remote EXCEPT ![i].state = "archived"])
  <2> DEFINE cut == RemoveFirst(t["body"], Head(ask.blocks))
             more == Append(t["body"], c)
  <2>1. i \in Item => cut \in Seq(Value) /\ more \in Seq(Value)
    BY <1>1, <1>2, RemoveFirstIs
  <2> HIDE DEF t, cut, more
  <2>2. i \in Item => /\ Full([t EXCEPT !["title"] = c]) /\ Full([t EXCEPT !["body"] = <<c>>])
                      /\ Full([t EXCEPT !["body"] = more]) /\ Full([t EXCEPT !["body"] = cut])
                      /\ Full([t EXCEPT !["state"] = "archived"])
    BY <1>1, <1>2, <2>1, FullSet DEF ThingFields
  <2> HIDE DEF Fine, i
  <2>3. /\ Fine([remote EXCEPT ![i] = [t EXCEPT !["title"] = c]])
        /\ Fine([remote EXCEPT ![i] = [t EXCEPT !["body"] = <<c>>]])
        /\ Fine([remote EXCEPT ![i] = [t EXCEPT !["body"] = more]])
        /\ Fine([remote EXCEPT ![i] = [t EXCEPT !["body"] = cut]])
        /\ Fine([remote EXCEPT ![i] = [t EXCEPT !["state"] = "archived"]])
    BY <1>4, <2>2
  <2>4. QED
    BY <2>3 DEF t, cut, more
<1>8. Fine([remote EXCEPT ![i] = Absent])
  BY <1>4, FullThings
<1>9. \/ Effect(c, ask, request) = [remote EXCEPT ![c] = made]
      \/ Effect(c, ask, request) = [remote EXCEPT ![i] = Patched(t, c, ask)]
      \/ Effect(c, ask, request) = [remote EXCEPT ![i].title = c]
      \/ Effect(c, ask, request) = [remote EXCEPT ![i].body = <<c>>]
      \/ Effect(c, ask, request) = [remote EXCEPT ![i].body = Append(t.body, c)]
      \/ Effect(c, ask, request) = [remote EXCEPT ![i].body = RemoveFirst(t.body, Head(ask.blocks))]
      \/ Effect(c, ask, request) = [remote EXCEPT ![i] = Absent]
      \/ Effect(c, ask, request) = [remote EXCEPT ![i].state = "archived"]
      \/ Effect(c, ask, request) = remote
  <2> HIDE DEF made
  <2>1. CASE request \in {"post", "postTitle"}
    BY <2>1 DEF Effect, made
  <2>2. CASE request \in {"put", "putNext", "rename", "upload", "append", "drop"}
    BY <2>2 DEF Effect
  <2>3. CASE request \in {"remove", "cancel", "archive"}
    BY <2>3 DEF Effect
  <2>4. CASE request \notin {"post", "postTitle", "put", "putNext", "rename", "upload", "append",
                             "drop", "remove", "cancel", "archive"}
    BY <2>4 DEF Effect
  <2>5. QED
    BY <2>1, <2>2, <2>3, <2>4
<1> HIDE DEF Fine, i, t, made
<1>10. Fine(Effect(c, ask, request))
  BY <1>3, <1>5, <1>6, <1>7, <1>8, <1>9, Zenon
<1>11. QED
  BY <1>10 DEF Fine

-----------------------------------------------------------------------------
(* A call of which only what it has met differs. *)
LEMMA TypedSame ==
  ASSUME NEW s, NEW r, TypedCall(s, r), NEW q, q["calm"] \in BOOLEAN, q["faulted"] \in BOOLEAN,
         \A f \in CallFields \ {"calm", "sent", "faulted"} : q[f] = r[f]
  PROVE  TypedCall(s, q)
<1>1. /\ q["pc"] = r["pc"] /\ q["op"] = r["op"] /\ q["item"] = r["item"] /\ q["patch"] = r["patch"]
      /\ q["seen"] = r["seen"] /\ q["limit"] = r["limit"] /\ q["held"] = r["held"]
      /\ q["blocks"] = r["blocks"] /\ q["pages"] = r["pages"] /\ q["todo"] = r["todo"]
  BY DEF CallFields
<1>2. Counted(q) <=> Counted(r)
  BY <1>1 DEF Counted
<1>3. QED
  BY <1>1, <1>2 DEF TypedCall

LEMMA WaySame ==
  ASSUME NEW s, NEW rem, NEW c, NEW r, OnItsWay(s, rem, c, r), NEW q, Asking(r, q)
  PROVE  OnItsWay(s, rem, c, q)
<1>1. /\ q["op"] = r["op"] /\ q["item"] = r["item"] /\ q["patch"] = r["patch"]
      /\ q["seen"] = r["seen"] /\ q["limit"] = r["limit"] /\ q["held"] = r["held"]
      /\ q["blocks"] = r["blocks"] /\ q["pages"] = r["pages"] /\ q["todo"] = r["todo"]
      /\ q["before"] = r["before"] /\ q["cursor"] = r["cursor"] /\ q["script"] = r["script"]
      /\ q["body"] = r["body"] /\ q["inside"] = r["inside"]
  BY DEF Asking, CallFields
<1>2. StateKept(rem, q) <=> StateKept(rem, r)
  BY <1>1 DEF StateKept
<1>3. \A body : Leaf(body, q) <=> Leaf(body, r)
  BY <1>1 DEF Leaf
<1>4. Reads(s, rem, q) <=> Reads(s, rem, r)
  BY <1>1, <1>3 DEF Reads
<1>5. Left(s, q) = Left(s, r) /\ (Long(q) <=> Long(r)) /\ \A f : Due(s, c, q, f) = Due(s, c, r, f)
  BY <1>1 DEF Left, Long, Due
<1>6. \A t : (Rewriting(t, q) <=> Rewriting(t, r)) /\ (Written(s, t, c, q) <=> Written(s, t, c, r))
  BY <1>1, <1>3, <1>5 DEF Rewriting, Written
<1>7. Updates(s, rem, c, q) <=> Updates(s, rem, c, r)
  BY <1>1, <1>6 DEF Updates
<1>8. Creates(rem, c, q) <=> Creates(rem, c, r)
  BY <1>1 DEF Creates
<1>9. ListedIn(s, rem, q) = ListedIn(s, rem, r) /\ ResourcesIn(s, rem, q) = ResourcesIn(s, rem, r)
  BY <1>1 DEF ResourcesIn, ListedIn, ScopeIn
<1>10. (ByNumber(s, q) <=> ByNumber(s, r)) /\ SkipIn(s, q) = SkipIn(s, r)
  BY <1>1 DEF ByNumber, SkipIn
<1>11. Lists(s, rem, q) <=> Lists(s, rem, r)
  BY <1>1, <1>9, <1>10 DEF Lists
<1>12. QED
  BY <1>1, <1>2, <1>4, <1>7, <1>8, <1>11 DEF OnItsWay

LEMMA NothingTyped ==
  /\ \A s : TypedCall(s, Nothing) /\ TypedCall(s, [Nothing EXCEPT !.pc = "over"])
  /\ \A s, rem, c : EachTrue(s, rem, c, Nothing) /\ EachTrue(s, rem, c, [Nothing EXCEPT !.pc = "over"])
<1> DEFINE Fine(r) ==
      /\ r["pc"] \in {"idle", "over"} /\ r["calm"] /\ ~ r["faulted"] /\ r["item"] = "none"
      /\ r["patch"] = {} /\ r["seen"] = {} /\ r["limit"] = 1 /\ r["held"] = Absent
      /\ r["blocks"] = <<>> /\ r["pages"] = 0 /\ r["calm"] \in BOOLEAN /\ r["faulted"] \in BOOLEAN
<1>1. Fine(Nothing) /\ Fine([Nothing EXCEPT !.pc = "over"])
  BY DEF Nothing
<1>2. ASSUME NEW r, Fine(r)
      PROVE  (\A s : TypedCall(s, r)) /\ \A s, rem, c : EachTrue(s, rem, c, r)
  <2>1. <<>> \in Seq(Value) /\ Len(<<>>) = 0 /\ BlockPages \in Nat /\ 0 \in 0..BlockPages
    BY SourceAssumption
  <2>2. \A s : TypedCall(s, r)
    BY <1>2, <2>1, FullThings DEF TypedCall, Ended
  <2>3. QED
    BY <1>2, <2>2 DEF EachTrue, Honest
<1> HIDE DEF Fine
<1>3. QED
  BY <1>1, <1>2

(* What others do leaves a call true. *)
LEMMA OthersTrue ==
  ASSUME NEW c, NEW d \in Caller, d # c, CallFine(source, d, call[d]),
         EachTrue(source, remote, d, call[d])
  PROVE  EachTrue(source, remote', d, Meanwhile(c)[d])
<1> DEFINE r == call[d]
           q == Meanwhile(c)[d]
           now == remote'
<1>1. IsCall(r) /\ TypedCall(source, r)
  BY DEF CallFine, EachTrue
<1>2. q = IF r.pc \in {"idle", "over"} THEN r
          ELSE IF r.pc \in Ended THEN [Nothing EXCEPT !.pc = "over"]
          ELSE [r EXCEPT !.calm = r.calm /\ now = remote]
  BY DEF Meanwhile
<1> HIDE DEF q, now
<1>3. CASE r.pc \in {"idle", "over"}
  <2>1. q = r
    BY <1>2, <1>3
  <2>2. EachTrue(source, now, d, r)
    BY <1>1, <1>3 DEF EachTrue, Honest
  <2>3. QED
    BY <2>1, <2>2 DEF q, now
<1>4. CASE r.pc \in Ended
  <2>1. q = [Nothing EXCEPT !.pc = "over"]
    BY <1>2, <1>4 DEF Ended
  <2>2. QED
    BY <2>1, NothingTyped DEF q, now
<1>5. CASE r.pc \notin {"idle", "over"} \cup Ended
  <2> DEFINE calm == r.calm /\ now = remote
  <2>1. q = [r EXCEPT !.calm = calm]
    BY <1>2, <1>5
  <2>2. calm \in BOOLEAN /\ r["calm"] \in BOOLEAN /\ r["faulted"] \in BOOLEAN
    BY <1>1 DEF TypedCall
  <2>3. /\ q["calm"] = calm /\ q["faulted"] = r["faulted"]
        /\ \A f \in CallFields \ {"calm", "sent", "faulted"} : q[f] = r[f]
    <3> HIDE DEF calm, r
    <3>1. QED
      BY <1>1, <2>1 DEF IsCall, CallFields
  <2>4. TypedCall(source, q)
    <3> HIDE DEF calm, r
    <3>1. q["calm"] \in BOOLEAN /\ q["faulted"] \in BOOLEAN
      BY <2>2, <2>3, Zenon
    <3>2. QED
      BY <1>1, <2>3, <3>1, TypedSame
  <2>5. ASSUME calm
        PROVE  q = r /\ now = remote
    <3>1. r["calm"] = TRUE /\ calm = TRUE
      BY <2>2, <2>5
    <3> HIDE DEF calm, r
    <3>2. q = r
      BY <1>1, <2>1, <3>1 DEF IsCall, CallFields
    <3>3. now = remote
      BY <2>5 DEF calm
    <3>4. QED
      BY <3>2, <3>3
  <2>6. Alone(q) => EachTrue(source, now, d, q)
    <3> SUFFICES ASSUME Alone(q) PROVE EachTrue(source, now, d, q)
      OBVIOUS
    <3>1. calm
      BY <2>3 DEF Alone
    <3>2. q = r /\ now = remote
      BY <2>5, <3>1
    <3>3. EachTrue(source, remote, d, r)
      OBVIOUS
    <3> HIDE DEF r
    <3>4. QED
      BY <3>2, <3>3
  <2>7. EachTrue(source, now, d, q)
    BY <2>4, <2>6 DEF EachTrue
  <2>8. QED
    BY <2>7 DEF q, now
<1>6. QED
  BY <1>3, <1>4, <1>5

(* A step of a caller that leaves its own call true. *)
LEMMA StepTrue ==
  ASSUME ConnectorsInv, AllTrue(source, remote, call), NEW c \in Caller, NEW next, Stepped(c, next),
         source' = source, EachTrue(source, remote', c, next), \A i \in Item : Full(remote'[i])
  PROVE  AllTrue(source', remote', call')
<1>1. AllFine(source, remote, call) /\ \A d \in Caller : CallFine(source, d, call[d])
  BY DEF ConnectorsInv, AllFine
<1>2. call'[c] = next /\ \A d \in Caller : d # c => call'[d] = Meanwhile(c)[d]
  BY DEF Stepped, Meanwhile
<1>3. ASSUME NEW d \in Caller
      PROVE  EachTrue(source', remote', d, call'[d])
  <2>1. CASE d = c
    BY <1>2, <2>1
  <2>2. CASE d # c
    <3>1. EachTrue(source, remote, d, call[d])
      BY DEF AllTrue
    <3>2. EachTrue(source, remote', d, Meanwhile(c)[d])
      BY <1>1, <2>2, <3>1, OthersTrue
    <3>3. QED
      BY <1>2, <2>2, <3>2
  <2>3. QED
    BY <2>1, <2>2
<1>4. QED
  BY <1>3 DEF AllTrue

(* People at work in the source. *)
LEMMA EditTrue ==
  ASSUME ConnectorsInv, AllTrue(source, remote, call), NEW f, Edit(f)
  PROVE  AllTrue(source', remote', call')
<1> DEFINE t == remote["a"]
           u == Edited(t, f)
           w == IF f = "gone" THEN Absent ELSE u
<1>1. /\ Stocked(remote) /\ \A d \in Caller : CallFine(source, d, call[d])
  BY DEF ConnectorsInv, AllFine
<1>2. "a" \in Item /\ "person" \notin Caller /\ Full(t)
  BY SourceAssumption DEF Item, AllTrue
<1>3. source' = source /\ call' = Meanwhile("person") /\ remote' = [remote EXCEPT !["a"] = w]
  BY DEF Edit
<1>4. Full(w)
  <2> DEFINE title == IF f = "title" THEN "person" ELSE t.title
             body == IF f # "body" THEN t.body
                     ELSE IF source = "notion" THEN Append(t.body, "person") ELSE <<"person">>
             version == t.version + 1
             u1 == [t EXCEPT !["title"] = title]
             u2 == [u1 EXCEPT !["body"] = body]
             u3 == [u2 EXCEPT !["version"] = version]
  <2>1. u = u3
    BY DEF Edited
  <2>2. title \in Value /\ body \in Seq(Value)
    BY <1>2, CallerIsValue DEF Full
  <2> HIDE DEF title, body, version, u, u1, u2, u3
  <2>3. Full(u1)
    BY <1>2, <2>2, FullSet DEF u1, ThingFields
  <2>4. Full(u2)
    BY <2>2, <2>3, FullSet DEF u2, ThingFields
  <2>5. Full(u3)
    BY <2>4, FullSet DEF u3, ThingFields
  <2>6. QED
    BY <2>1, <2>5, FullThings
<1>5. \A i \in Item : Full(remote'[i])
  <2> HIDE DEF w
  <2>1. \A j \in Item : Full(remote[j])
    BY DEF AllTrue
  <2>2. QED
    BY <1>1, <1>3, <1>4, <2>1, FullOne
<1>6. ASSUME NEW d \in Caller
      PROVE  EachTrue(source', remote', d, call'[d])
  <2>1. EachTrue(source, remote, d, call[d]) /\ d # "person"
    BY <1>2 DEF AllTrue
  <2>2. EachTrue(source, remote', d, Meanwhile("person")[d])
    BY <1>1, <2>1, OthersTrue
  <2>3. call'[d] = Meanwhile("person")[d]
    BY <1>3
  <2>4. QED
    BY <1>3, <2>2, <2>3
<1>7. QED
  BY <1>5, <1>6 DEF AllTrue

-----------------------------------------------------------------------------
(* A call as it starts. *)
Fresh(r) ==
    /\ IsCall(r) /\ r["held"] = Absent /\ r["blocks"] = <<>> /\ r["pages"] = 0
    /\ r["cursor"] = Nowhere /\ r["seen"] = {}
    /\ r["calm"] = TRUE /\ r["faulted"] = FALSE /\ r["sent"] = FALSE

LEMMA StartingIsFresh ==
  ASSUME NEW c, NEW op, NEW script
  PROVE  LET r == Starting(c, op, script)
         IN  /\ Fresh(r) /\ r["body"] = FALSE /\ r["limit"] = 1 /\ r["before"] = Absent
BY ZenonT(60) DEF Starting, Nothing, IsCall, CallFields, Fresh

LEMMA FreshIsTyped ==
  ASSUME source \in Source, NEW c, NEW r, Fresh(r), CallFine(source, c, r),
         r["pc"] \in {"running", "failed"}, r["item"] \in Item \cup {"none"}, r["patch"] \subseteq Field,
         r["limit"] \in 1..2,
         r["pc"] = "running" /\ r["op"] = "read" => r["todo"] \in Readings,
         r["pc"] = "running" /\ r["op"] = "update" /\ source = "notion" =>
           r["todo"] \in NotionUpdates /\ Head(r["todo"]) # "drop"
  PROVE  TypedCall(source, r)
<1>1. ASSUME r["pc"] = "running"
      PROVE  Head(r["todo"]) # "drop"
  <2>1. Busy(Sent(source, r["op"], r["patch"]), r) /\ r["op"] \in Operation
    BY <1>1 DEF CallFine
  <2>2. Head(r["todo"]) \in Sent(source, r["op"], r["patch"])
    BY <2>1, HeadTailProperties DEF Busy
  <2>3. MaySend(source, r["op"], r["patch"], Head(r["todo"]))
    BY <2>2 DEF Sent
  <2> DEFINE q == Head(r["todo"])
             op == r["op"]
  <2>4. q = "drop" => op = "update" /\ source = "notion"
    <3> HIDE DEF q, op
    <3>1. op \in Operation /\ MaySend(source, op, r["patch"], q)
      BY <2>1, <2>3 DEF q, op
    <3>2. QED
      BY <3>1 DEF MaySend, Operation
  <2>5. QED
    BY <1>1, <2>4
<1>2. /\ 0 < BlockPages /\ BlockPages \in Nat /\ 0 \in 0..BlockPages
      /\ <<>> \in Seq(Value) /\ Len(<<>>) = 0
  BY SourceAssumption
<1>3. /\ r["held"] = Absent /\ r["blocks"] = <<>> /\ r["pages"] = 0 /\ r["seen"] = {}
      /\ r["calm"] \in BOOLEAN /\ r["faulted"] \in BOOLEAN
  BY DEF Fresh
<1>4. r["pc"] = "running" => Counted(r)
  BY <1>1, <1>2, <1>3 DEF Counted
<1>5. QED
  BY <1>2, <1>3, <1>4, FullThings DEF TypedCall, Ended

(* A start that is refused, or is on its way, is true. *)
LEMMA FreshIsTrue ==
  ASSUME NEW c, NEW r, Fresh(r), TypedCall(source, r), r["pc"] \in {"running", "failed"},
         r["pc"] = "running" => OnItsWay(source, remote, c, r)
  PROVE  EachTrue(source, remote, c, r)
BY DEF EachTrue, Honest, Fresh

(* Read, update, delete. *)
LEMMA AddressTrue ==
  ASSUME ConnectorsInv, AllTrue(source, remote, call), NEW c \in Caller,
         NEW op \in {"read", "delete", "update"}, NEW i \in {"top", "a", "b", "stray"},
         NEW patch \in SUBSET Field,
         op = "update" => i # "b",
         Address(c, op, i, patch)
  PROVE  AllTrue(source', remote', call')
<1> DEFINE id == IdOf(i)
           kind == IF Named(id) = "none" THEN "text" ELSE KindOf[Named(id)]
           about == [op |-> op, id |-> id, ref |-> Ref(source, id), patch |-> patch, kind |-> kind]
           script == IF Refers(id) THEN Script(source, about) ELSE Refused
           item == IF Refers(id) THEN Named(id) ELSE "none"
           before == IF Refers(id) /\ Named(id) # "none" THEN remote[Named(id)] ELSE Absent
           next == [Starting(c, op, script) EXCEPT !.item = item, !.patch = patch, !.before = before]
<1>1. /\ UNCHANGED <<source, remote>> /\ Stepped(c, next)
  BY DEF Address, Stepped
<1>2. source \in Source /\ source \in Sources
  BY SourcesAre DEF ConnectorsInv, AllFine
<1>3. about.op = op /\ about.patch = patch /\ about.id = id /\ about.kind = kind
  OBVIOUS
<1>4. /\ source = "discussion" /\ Refers(id) => Addressed(id) = "discussion"
      /\ source = "code" /\ Refers(id) /\ op = "update" => Addressed(id) = "code"
  <2>1. i = "stray" /\ source \in GitHub => ~ Refers(id)
    <3> SUFFICES ASSUME i = "stray", source \in GitHub PROVE ~ Refers(id)
      OBVIOUS
    <3>1. id = <<"stray">>
      BY DEF IdOf
    <3>2. Ref(source, <<"stray">>) = IssueRef(<<"stray">>)
      BY StrayIsRefused DEF Ref, GitHub
    <3>3. Ref(source, id) = Invalid
      BY <3>1, <3>2, StrayIsRefused
    <3>4. QED
      BY <3>3 DEF Refers, RawIds, GitHub
  <2>2. i # "stray" => i \in Item
    BY DEF Item
  <2>3. QED
    BY <1>2, <2>1, <2>2, OwnId DEF GitHub
<1>5. item \in Item \cup {"none"} /\ (item \in Item => before = remote[item])
      /\ (item \notin Item => before = Absent) /\ "none" \notin Item
  <2>1. Named(id) \in Item \cup {"none"} /\ "none" \notin Item
    BY SourceAssumption DEF Named, Item
  <2>2. QED
    BY <2>1
<1>6. script # Refused => Refers(id) /\ script = Script(source, about)
  OBVIOUS
<1>7. Refers(id) => (item \in Item => kind = KindOf[item])
  BY <1>5
<1>20. script # Refused => Refers(id)
  BY <1>6
<1> HIDE DEF about, id, item, before, kind
<1>8. script # Refused /\ op = "read" =>
        /\ script \in Readings /\ Head(script) = "get"
        /\ source = "drive" /\ Len(script) = 1 => kind # "text"
  BY <1>2, <1>3, <1>6, ReadScripts
<1>9. script # Refused /\ op = "delete" => Len(script) = 1
  BY <1>2, <1>3, <1>6, DeleteScripts
<1>10. script # Refused /\ op = "update" =>
        /\ Writing(source, patch, script) /\ source \notin {"teams", "calendly", "code"}
        /\ source = "notion" => script \in NotionUpdates /\ Head(script) \in {"put", "get", "blocks"}
        /\ source = "discussion" => script = <<"get", "put">>
        /\ source = "confluence" => script = <<"get", "putNext">>
  BY <1>2, <1>3, <1>4, <1>6, UpdateScripts, ConfluenceReadsFirst
<1> HIDE DEF script
<1>11. /\ Fresh(next) /\ next["op"] = op /\ next["script"] = script /\ next["todo"] = script
       /\ next["pc"] = IF script = Refused THEN "failed" ELSE "running"
       /\ next["patch"] = patch /\ next["item"] = item /\ next["before"] = before
       /\ next["limit"] = 1
  <2> DEFINE r == Starting(c, op, script)
  <2>1. /\ Fresh(r) /\ r["op"] = op /\ r["script"] = script /\ r["todo"] = script
        /\ r["pc"] = IF script = Refused THEN "failed" ELSE "running"
        /\ r["limit"] = 1
    <3>1. /\ r["op"] = op /\ r["script"] = script /\ r["todo"] = script
          /\ r["pc"] = IF script = Refused THEN "failed" ELSE "running"
      BY StartingIs
    <3>2. Fresh(r) /\ r["limit"] = 1
      BY StartingIsFresh
    <3> HIDE DEF r
    <3>3. QED
      BY <3>1, <3>2
  <2> HIDE DEF r
  <2>2. next = [r EXCEPT !.item = item, !.patch = patch, !.before = before]
    BY DEF r
  <2> HIDE DEF next
  <2>7. IsCall(r)
    BY <2>1 DEF Fresh
  <2>8. next = [f \in CallFields |-> IF f = "item" THEN item ELSE IF f = "patch" THEN patch
                                      ELSE IF f = "before" THEN before ELSE r[f]]
    BY <2>2, <2>7 DEF IsCall, CallFields
  <2>3. /\ IsCall(next) /\ next["item"] = item /\ next["patch"] = patch /\ next["before"] = before
        /\ \A f \in CallFields \ {"item", "patch", "before"} : next[f] = r[f]
    BY <2>8 DEF IsCall, CallFields
  <2>4. Fresh(next)
    BY <2>1, <2>3 DEF Fresh, CallFields
  <2>5. /\ next["op"] = r["op"] /\ next["script"] = r["script"] /\ next["todo"] = r["todo"]
        /\ next["pc"] = r["pc"] /\ next["limit"] = r["limit"]
    BY <2>3 DEF CallFields
  <2>6. QED
    BY <2>1, <2>3, <2>4, <2>5
<1> HIDE DEF next
<1>12. CallFine(source, c, next)
  <2>1. ConnectorsInv'
    BY AddressKeeps
  <2>2. CallFine(source', c, call'[c])
    BY <2>1 DEF ConnectorsInv, AllFine
  <2>3. call'[c] = next
    BY <1>1, StepIs DEF ConnectorsInv
  <2>4. QED
    BY <1>1, <2>2, <2>3
<1>13. TypedCall(source, next)
  <2>1. next["pc"] \in {"running", "failed"} /\ next["limit"] \in 1..2
    BY <1>11
  <2>2. next["item"] \in Item \cup {"none"} /\ next["patch"] \subseteq Field
    BY <1>5, <1>11
  <2>3. next["pc"] = "running" /\ next["op"] = "read" => next["todo"] \in Readings
    BY <1>8, <1>11
  <2>4. next["pc"] = "running" /\ next["op"] = "update" /\ source = "notion" =>
           next["todo"] \in NotionUpdates /\ Head(next["todo"]) # "drop"
    BY <1>10, <1>11
  <2>5. QED
    BY <1>2, <1>11, <1>12, <2>1, <2>2, <2>3, <2>4, FreshIsTyped
<1>14. ASSUME script # Refused
       PROVE  OnItsWay(source, remote, c, next)
  <2>1. StateKept(remote, next)
    <3>1. Absent["state"] = "absent"
      BY ThingsAre
    <3>2. QED
      BY <1>5, <1>11, <3>1 DEF StateKept
  <2>2. /\ next["pages"] = 0 /\ next["blocks"] = <<>> /\ Len(<<>>) = 0
    BY <1>11 DEF Fresh
  <2>3. CASE op = "read"
    <3>1. Reads(source, remote, next)
      BY <1>20, <1>7, <1>8, <1>11, <1>14, <2>2, <2>3 DEF Reads
    <3>2. QED
      BY <1>11, <2>1, <2>3, <3>1 DEF OnItsWay
  <2>4. CASE op = "delete"
    BY <1>9, <1>11, <1>14, <2>1, <2>4 DEF OnItsWay
  <2>5. CASE op = "update"
    <3>1. Left(source, next) = patch \cap Takes(source)
      BY <1>10, <1>11, <1>14, <2>5 DEF Writing, Left
    <3>2. item \in Item => Written(source, remote[item], c, next)
      BY <1>5, <1>11, <3>1 DEF Written, Due
    <3>3. source \in {"confluence", "discussion"} => Head(script) = "get"
      BY <1>10, <1>14, <2>5
    <3>4. source = "discussion" => script \in {<<"get", "put">>, <<"put">>}
      BY <1>10, <1>14, <2>5
    <3>5. source = "notion" /\ item \in Item => Rewriting(remote[item], next)
      <4> SUFFICES ASSUME source = "notion", item \in Item PROVE Rewriting(remote[item], next)
        OBVIOUS
      <4>1. Head(next["todo"]) \in {"put", "get", "blocks"} /\ next["before"] = remote[item]
        BY <1>5, <1>10, <1>11, <1>14, <2>5
      <4>2. remote[item]["body"] \in Seq(Value)
        BY DEF AllTrue, Full
      <4> DEFINE body == remote[item]["body"]
      <4>3. SubSeq(body, 1, 0) = <<>>
        BY <4>2
      <4> HIDE DEF body
      <4>4. Leaf(body, next)
        BY <2>2, <4>3 DEF Leaf
      <4>5. QED
        BY <2>2, <4>1, <4>4 DEF Rewriting, body
    <3>6. Updates(source, remote, c, next)
      BY <1>10, <1>11, <1>14, <2>5, <3>2, <3>3, <3>4, <3>5 DEF Updates
    <3>7. QED
      BY <1>11, <2>1, <2>5, <3>6 DEF OnItsWay
  <2>6. QED
    BY <2>3, <2>4, <2>5
<1>15. EachTrue(source, remote, c, next)
  BY <1>11, <1>13, <1>14, FreshIsTrue
<1>16. \A j \in Item : Full(remote[j])
  BY DEF AllTrue
<1>17. EachTrue(source, remote', c, next) /\ \A j \in Item : Full(remote'[j])
  BY <1>1, <1>15, <1>16
<1>18. QED
  BY <1>1, <1>17, StepTrue

LEMMA ItemsAreFinite == IsFiniteSet(Item) /\ Caller \subseteq Item
<1>1. IsFiniteSet({"top", "a", "b"})
  <2>1. IsFiniteSet({})
    BY FS_EmptySet
  <2>2. IsFiniteSet({} \cup {"top"})
    BY <2>1, FS_AddElement
  <2>3. IsFiniteSet(({} \cup {"top"}) \cup {"a"})
    BY <2>2, FS_AddElement
  <2>4. IsFiniteSet((({} \cup {"top"}) \cup {"a"}) \cup {"b"})
    BY <2>3, FS_AddElement
  <2>5. (({} \cup {"top"}) \cup {"a"}) \cup {"b"} = {"top", "a", "b"}
    OBVIOUS
  <2>6. QED
    BY <2>4, <2>5
<1>2. IsFiniteSet({"top", "a", "b"} \cup Caller)
  BY <1>1, FS_Union, SourceAssumption
<1>3. QED
  BY <1>2 DEF Item

LEMMA ListedIsFinite ==
  ASSUME NEW s, NEW rem, NEW r
  PROVE  /\ ListedIn(s, rem, r) \subseteq Item /\ IsFiniteSet(ListedIn(s, rem, r))
         /\ Cardinality(ListedIn(s, rem, r)) \in Nat
         /\ \A i : Place(ListedIn(s, rem, r), i) \in Nat
<1> DEFINE all == ListedIn(s, rem, r)
<1>1. all \subseteq Item
  BY DEF ListedIn
<1> HIDE DEF all
<1>2. IsFiniteSet(all)
  BY <1>1, ItemsAreFinite, FS_Subset
<1>3. Cardinality(all) \in Nat
  BY <1>2, FS_CardinalityType
<1>4. ASSUME NEW i PROVE Place(all, i) \in Nat
  <2> DEFINE before == {j \in all : Order[j] < Order[i]}
  <2>1. before \subseteq all
    OBVIOUS
  <2> HIDE DEF before
  <2>2. IsFiniteSet(before)
    BY <1>2, <2>1, FS_Subset
  <2>3. QED
    BY <2>2, FS_CardinalityType DEF Place, before
<1>5. QED
  BY <1>1, <1>2, <1>3, <1>4 DEF all

(* Before a call has asked for a page, it has seen nothing. *)
LEMMA NothingSeen ==
  ASSUME NEW s, NEW rem, NEW r, Fresh(r), r["limit"] \in 1..2
  PROVE  /\ SkipIn(s, r) = 0 /\ SkipIn(s, r) <= Cardinality(ListedIn(s, rem, r))
         /\ r["seen"] = {i \in ResourcesIn(s, rem, r) : Place(ListedIn(s, rem, r), i) < SkipIn(s, r)}
<1>1. r["cursor"] = Nowhere /\ r["seen"] = {}
  BY DEF Fresh
<1>2. PageNumber(Nowhere) = 1 /\ StartOffset(Nowhere) = 0
  BY DEF PageNumber, StartOffset, Numeric
<1>3. SkipIn(s, r) = 0
  <2> DEFINE n == r["limit"]
  <2>1. n \in 1..2 /\ (1 - 1) * n = 0
    OBVIOUS
  <2>2. QED
    BY <1>1, <1>2, <2>1 DEF SkipIn
<1> DEFINE all == ListedIn(s, rem, r)
<1>4. Cardinality(all) \in Nat /\ \A i : Place(all, i) \in Nat
  BY ListedIsFinite
<1> HIDE DEF all
<1>5. 0 <= Cardinality(all) /\ \A i : ~ (Place(all, i) < 0)
  BY <1>4
<1>6. QED
  BY <1>1, <1>3, <1>5 DEF all

(* List and search. *)
LEMMA WalkTrue ==
  ASSUME ConnectorsInv, AllTrue(source, remote, call), NEW c \in Caller, NEW op \in {"list", "search"},
         NEW inside, NEW there, NEW limit \in 1..2, Walk(c, op, inside, there, limit)
  PROVE  AllTrue(source', remote', call')
<1> DEFINE parent == Parent(there)
           about == [op |-> op, inside |-> inside, parent |-> parent]
           script == Script(source, about)
           within == inside /\ parent # Nowhere
           names == parent # Nowhere /\ NamesTop(source, parent)
           next == [Starting(c, op, script) EXCEPT !.inside = within, !.limit = limit, !.names = names]
<1>1. /\ UNCHANGED <<source, remote>> /\ Stepped(c, next)
  BY DEF Walk, Stepped
<1>2. source \in Source /\ source \in Sources
  BY SourcesAre DEF ConnectorsInv, AllFine
<1>3. about.op = op
  OBVIOUS
<1> HIDE DEF about, within, names
<1>4. script # Refused => script[Len(script)] = "page"
  BY <1>2, <1>3, WalkScripts
<1> HIDE DEF script
<1>5. /\ Fresh(next) /\ next["op"] = op /\ next["script"] = script /\ next["todo"] = script
      /\ next["pc"] = IF script = Refused THEN "failed" ELSE "running"
      /\ next["patch"] = {} /\ next["item"] = "none" /\ next["limit"] = limit
  <2> DEFINE r == Starting(c, op, script)
  <2>1. /\ r["op"] = op /\ r["script"] = script /\ r["todo"] = script
        /\ r["pc"] = IF script = Refused THEN "failed" ELSE "running"
        /\ r["patch"] = {} /\ r["item"] = "none"
    BY StartingIs
  <2>2. Fresh(r)
    BY StartingIsFresh
  <2> HIDE DEF r
  <2>3. next = [r EXCEPT !.inside = within, !.limit = limit, !.names = names]
    BY DEF r
  <2> HIDE DEF next
  <2>4. IsCall(r)
    BY <2>2 DEF Fresh
  <2>5. next = [f \in CallFields |-> IF f = "inside" THEN within ELSE IF f = "limit" THEN limit
                                     ELSE IF f = "names" THEN names ELSE r[f]]
    BY <2>3, <2>4 DEF IsCall, CallFields
  <2>6. /\ IsCall(next) /\ next["limit"] = limit
        /\ \A f \in CallFields \ {"inside", "limit", "names"} : next[f] = r[f]
    BY <2>5 DEF IsCall, CallFields
  <2>7. Fresh(next)
    BY <2>2, <2>6 DEF Fresh, CallFields
  <2>8. /\ next["op"] = r["op"] /\ next["script"] = r["script"] /\ next["todo"] = r["todo"]
        /\ next["pc"] = r["pc"] /\ next["patch"] = r["patch"] /\ next["item"] = r["item"]
    BY <2>6 DEF CallFields
  <2>9. QED
    BY <2>1, <2>6, <2>7, <2>8
<1> HIDE DEF next
<1>6. CallFine(source, c, next)
  <2>1. ConnectorsInv'
    BY WalkKeeps
  <2>2. CallFine(source', c, call'[c])
    BY <2>1 DEF ConnectorsInv, AllFine
  <2>3. call'[c] = next
    BY <1>1, StepIs DEF ConnectorsInv
  <2>4. QED
    BY <1>1, <2>2, <2>3
<1>7. TypedCall(source, next)
  <2>1. next["pc"] \in {"running", "failed"} /\ next["limit"] \in 1..2
    BY <1>5
  <2>2. next["item"] \in Item \cup {"none"} /\ next["patch"] \subseteq Field
    BY <1>5
  <2>3. next["op"] # "read" /\ next["op"] # "update"
    BY <1>5
  <2>4. QED
    BY <1>2, <1>5, <1>6, <2>1, <2>2, <2>3, FreshIsTyped
<1>8. ASSUME script # Refused
      PROVE  OnItsWay(source, remote, c, next)
  <2>1. /\ SkipIn(source, next) = 0 /\ SkipIn(source, next) <= Cardinality(ListedIn(source, remote, next))
        /\ next["seen"] = {i \in ResourcesIn(source, remote, next) :
                             Place(ListedIn(source, remote, next), i) < SkipIn(source, next)}
    BY <1>5, NothingSeen
  <2>2. next["cursor"] = Nowhere
    BY <1>5 DEF Fresh
  <2>3. Lists(source, remote, next)
    BY <1>4, <1>5, <1>8, <2>1, <2>2 DEF Lists
  <2>4. QED
    BY <1>5, <2>3 DEF OnItsWay
<1>9. EachTrue(source, remote, c, next)
  BY <1>5, <1>7, <1>8, FreshIsTrue
<1>10. \A j \in Item : Full(remote[j])
  BY DEF AllTrue
<1>11. EachTrue(source, remote', c, next) /\ \A j \in Item : Full(remote'[j])
  BY <1>1, <1>9, <1>10
<1>12. QED
  BY <1>1, <1>11, StepTrue

(* Create. *)
LEMMA CreateInTrue ==
  ASSUME ConnectorsInv, AllTrue(source, remote, call), NEW c \in Caller, NEW there,
         NEW body \in BOOLEAN, NEW meta \in BOOLEAN, CreateIn(c, there, body, meta)
  PROVE  AllTrue(source', remote', call')
<1> DEFINE parent == Parent(there)
           about == [op |-> "create", parent |-> parent, body |-> body, meta |-> meta]
           script == Script(source, about)
           within == parent # Nowhere
           whole == body /\ ~ (source = "drive" /\ meta)
           names == parent # Nowhere /\ NamesTop(source, parent)
           next == [Starting(c, "create", script) EXCEPT !.inside = within, !.body = whole, !.names = names]
<1>1. /\ UNCHANGED <<source, remote>> /\ Stepped(c, next)
  BY DEF CreateIn, Stepped
<1>2. source \in Source /\ source \in Sources
  BY SourcesAre DEF ConnectorsInv, AllFine
<1>3. about.op = "create" /\ about.body = body /\ about.meta = meta
  OBVIOUS
<1> HIDE DEF about, within, names
<1>4. script # Refused => Making(script, whole)
  BY <1>2, <1>3, CreateScripts
<1> HIDE DEF script, whole
<1>5. /\ Fresh(next) /\ next["op"] = "create" /\ next["todo"] = script
      /\ next["pc"] = IF script = Refused THEN "failed" ELSE "running"
      /\ next["patch"] = {} /\ next["item"] = "none" /\ next["limit"] = 1 /\ next["body"] = whole
  <2> DEFINE r == Starting(c, "create", script)
  <2>1. /\ r["op"] = "create" /\ r["todo"] = script
        /\ r["pc"] = IF script = Refused THEN "failed" ELSE "running"
        /\ r["patch"] = {} /\ r["item"] = "none"
    BY StartingIs
  <2>2. Fresh(r) /\ r["limit"] = 1
    BY StartingIsFresh
  <2> HIDE DEF r
  <2>3. next = [r EXCEPT !.inside = within, !.body = whole, !.names = names]
    BY DEF r
  <2> HIDE DEF next
  <2>4. IsCall(r)
    BY <2>2 DEF Fresh
  <2>5. next = [f \in CallFields |-> IF f = "inside" THEN within ELSE IF f = "body" THEN whole
                                     ELSE IF f = "names" THEN names ELSE r[f]]
    BY <2>3, <2>4 DEF IsCall, CallFields
  <2>6. /\ IsCall(next) /\ next["body"] = whole
        /\ \A f \in CallFields \ {"inside", "body", "names"} : next[f] = r[f]
    BY <2>5 DEF IsCall, CallFields
  <2>7. Fresh(next)
    BY <2>2, <2>6 DEF Fresh, CallFields
  <2>8. /\ next["op"] = r["op"] /\ next["todo"] = r["todo"] /\ next["limit"] = r["limit"]
        /\ next["pc"] = r["pc"] /\ next["patch"] = r["patch"] /\ next["item"] = r["item"]
    BY <2>6 DEF CallFields
  <2>9. QED
    BY <2>1, <2>2, <2>6, <2>7, <2>8
<1> HIDE DEF next
<1>6. CallFine(source, c, next)
  <2>1. ConnectorsInv'
    BY CreateInKeeps
  <2>2. CallFine(source', c, call'[c])
    BY <2>1 DEF ConnectorsInv, AllFine
  <2>3. call'[c] = next
    BY <1>1, StepIs DEF ConnectorsInv
  <2>4. QED
    BY <1>1, <2>2, <2>3
<1>7. TypedCall(source, next)
  <2>1. next["pc"] \in {"running", "failed"} /\ next["limit"] \in 1..2
    BY <1>5
  <2>2. next["item"] \in Item \cup {"none"} /\ next["patch"] \subseteq Field
    BY <1>5
  <2>3. next["op"] # "read" /\ next["op"] # "update"
    BY <1>5
  <2>4. QED
    BY <1>2, <1>5, <1>6, <2>1, <2>2, <2>3, FreshIsTyped
<1>8. ASSUME script # Refused
      PROVE  OnItsWay(source, remote, c, next)
  <2>1. Making(script, whole)
    BY <1>4, <1>8
  <2>2. Creates(remote, c, next)
    BY <1>5, <2>1 DEF Creates, Making
  <2>3. QED
    BY <1>5, <2>2 DEF OnItsWay
<1>9. EachTrue(source, remote, c, next)
  BY <1>5, <1>7, <1>8, FreshIsTrue
<1>10. \A j \in Item : Full(remote[j])
  BY DEF AllTrue
<1>11. EachTrue(source, remote', c, next) /\ \A j \in Item : Full(remote'[j])
  BY <1>1, <1>9, <1>10
<1>12. QED
  BY <1>1, <1>11, StepTrue

-----------------------------------------------------------------------------
(* What an answer leaves of a call, field by field. *)
SameBut(x, q, changed) == IsCall(x) /\ IsCall(q) /\ \A f \in CallFields \ changed : q[f] = x[f]

LEMMA DoneIs ==
  ASSUME NEW x, IsCall(x)
  PROVE  /\ SameBut(x, Done(x), {"pc", "todo"})
         /\ Len(x["todo"]) = 1 => Done(x)["pc"] = "done"
         /\ Len(x["todo"]) # 1 => Done(x)["pc"] = x["pc"] /\ Done(x)["todo"] = Tail(x["todo"])
<1> DEFINE rest == Tail(x.todo)
<1>1. CASE Len(x.todo) = 1
  <2>1. Done(x) = [x EXCEPT !.pc = "done", !.todo = <<>>]
    BY <1>1 DEF Done, Finished
  <2>2. Done(x) = [f \in CallFields |-> IF f = "pc" THEN "done" ELSE IF f = "todo" THEN <<>> ELSE x[f]]
    BY <2>1 DEF IsCall, CallFields
  <2>3. QED
    BY <1>1, <2>2 DEF IsCall, CallFields, SameBut
<1>2. CASE Len(x.todo) # 1
  <2>1. Done(x) = [x EXCEPT !.todo = rest]
    BY <1>2 DEF Done
  <2> HIDE DEF rest
  <2>2. Done(x) = [f \in CallFields |-> IF f = "todo" THEN rest ELSE x[f]]
    BY <2>1 DEF IsCall, CallFields
  <2>3. Done(x)["pc"] = x["pc"] /\ Done(x)["todo"] = rest /\ SameBut(x, Done(x), {"pc", "todo"})
    BY <2>2 DEF IsCall, CallFields, SameBut
  <2>4. QED
    BY <1>2, <2>3 DEF rest
<1>3. QED
  BY <1>1, <1>2

LEMMA FinishedIs ==
  ASSUME NEW x, IsCall(x), NEW pc
  PROVE  SameBut(x, Finished(x, pc), {"pc", "todo"}) /\ Finished(x, pc)["pc"] = pc
<1>1. Finished(x, pc) = [f \in CallFields |-> IF f = "pc" THEN pc ELSE IF f = "todo" THEN <<>> ELSE x[f]]
  BY DEF IsCall, CallFields, Finished
<1>2. QED
  BY <1>1 DEF IsCall, CallFields, SameBut

LEMMA SetIs ==
  ASSUME NEW x, IsCall(x), NEW f \in CallFields, NEW v
  PROVE  SameBut(x, [x EXCEPT ![f] = v], {f}) /\ [x EXCEPT ![f] = v][f] = v
BY CallSet DEF SameBut

LEMMA SameTwice ==
  ASSUME NEW x, NEW y, NEW z, NEW A, NEW B, SameBut(x, y, A), SameBut(y, z, B)
  PROVE  SameBut(x, z, A \cup B)
BY DEF SameBut

(* A page of blocks is taken. *)
BlocksTaken(x, q) ==
    LET n == x["pages"] + 1
        body == remote[x["item"]]["body"]
        taken == IF n <= Len(body) THEN Append(x["blocks"], body[n]) ELSE x["blocks"]
        more == n < Len(body) /\ n < BlockPages
        todo == x["todo"]
        skips == Len(todo) > 1 /\ todo[2] = "drop" /\ taken = <<>>
    IN  /\ SameBut(x, q, {"pc", "todo", "held", "blocks", "pages"})
        /\ more => /\ q["pc"] = x["pc"] /\ q["todo"] = todo /\ q["held"] = x["held"]
                   /\ q["blocks"] = taken /\ q["pages"] = n
        /\ ~ more => q["pages"] = 0 /\ q["held"] = [x["held"] EXCEPT !["body"] = taken]
        /\ ~ more /\ Len(todo) = 1 => q["pc"] = "done" /\ q["blocks"] = <<>>
        /\ ~ more /\ skips /\ Len(Tail(todo)) # 1 =>
             q["pc"] = x["pc"] /\ q["todo"] = Tail(Tail(todo)) /\ q["blocks"] = <<>>
        /\ ~ more /\ Len(todo) # 1 /\ ~ skips =>
             q["pc"] = x["pc"] /\ q["todo"] = Tail(todo) /\ q["blocks"] = taken

LEMMA TakeBlocksIs ==
  ASSUME NEW S, NEW x, IsCall(x), Busy(S, x)
  PROVE  BlocksTaken(x, TakeBlocks(x))
<1> DEFINE n == x.pages + 1
           body == remote[x.item].body
           taken == IF n <= Len(body) THEN Append(x.blocks, body[n]) ELSE x.blocks
           more == n < Len(body) /\ n < BlockPages
           todo == x.todo
           rest == Tail(todo)
           skips == Len(todo) > 1 /\ todo[2] = "drop" /\ taken = <<>>
           held == [x.held EXCEPT !.body = taken]
           got == [x EXCEPT !.blocks = taken, !.pages = n]
           whole == [got EXCEPT !.held.body = got.blocks, !.pages = 0]
           skipped == [whole EXCEPT !.todo = Tail(whole.todo)]
           last == [whole EXCEPT !.blocks = <<>>]
           Three == {"held", "blocks", "pages"}
<1>1. TakeBlocks(x) =
        IF more THEN got
        ELSE IF Len(todo) > 1 /\ todo[2] = "drop" /\ got.blocks = <<>> THEN Done(skipped)
        ELSE Done(IF Len(todo) > 1 THEN whole ELSE last)
  <2> DEFINE g == [x EXCEPT !.blocks = IF n <= Len(body) THEN Append(@, body[n]) ELSE @, !.pages = n]
  <2>1. g = got
    OBVIOUS
  <2>2. got.todo = todo
    BY DEF IsCall, CallFields
  <2>3. ChildBlocksGoOn([more |-> n < Len(body)], n, BlockPages) <=> more
    BY DEF ChildBlocksGoOn
  <2> DEFINE y == [g EXCEPT !.held.body = g.blocks, !.pages = 0]
  <2>4. TakeBlocks(x) = IF ChildBlocksGoOn([more |-> n < Len(body)], n, BlockPages) THEN g
                        ELSE IF Len(todo) > 1 /\ todo[2] = "drop" /\ g.blocks = <<>>
                        THEN Done([y EXCEPT !.todo = Tail(@)])
                        ELSE Done(IF Len(todo) > 1 THEN y ELSE [y EXCEPT !.blocks = <<>>])
    BY DEF TakeBlocks
  <2>5. y = whole /\ [y EXCEPT !.todo = Tail(@)] = skipped /\ [y EXCEPT !.blocks = <<>>] = last
    BY <2>1
  <2> HIDE DEF y, g, whole, skipped, last, got, more
  <2>6. QED
    BY <2>1, <2>3, <2>4, <2>5
<1> HIDE DEF taken, n, more
<1>2. /\ SameBut(x, got, Three) /\ got["blocks"] = taken /\ got["pages"] = n /\ got["held"] = x["held"]
  <2>1. got = [f \in CallFields |-> IF f = "blocks" THEN taken ELSE IF f = "pages" THEN n ELSE x[f]]
    BY DEF IsCall, CallFields
  <2> HIDE DEF got
  <2>2. QED
    BY <2>1 DEF SameBut, IsCall, CallFields
<1>3. SameBut(x, whole, Three) /\ whole["blocks"] = taken /\ whole["pages"] = 0 /\ whole["held"] = held
  <2> DEFINE h == [got.held EXCEPT !.body = got.blocks]
  <2>1. whole = [got EXCEPT !.held = h, !.pages = 0]
    OBVIOUS
  <2>2. h = held
    BY <1>2
  <2> HIDE DEF got, h, whole, held
  <2>3. whole = [f \in CallFields |-> IF f = "held" THEN held ELSE IF f = "pages" THEN 0 ELSE got[f]]
    BY <1>2, <2>1, <2>2 DEF IsCall, CallFields, SameBut
  <2>4. QED
    BY <1>2, <2>3 DEF SameBut, IsCall, CallFields
<1> HIDE DEF whole, held, todo
<1>4. SameBut(x, skipped, Three \cup {"todo"}) /\ skipped["todo"] = Tail(x.todo) /\ skipped["pages"] = 0
      /\ skipped["held"] = held /\ skipped["blocks"] = taken
  <2>1. IsCall(whole) /\ whole["todo"] = x["todo"]
    BY <1>3 DEF SameBut, CallFields
  <2> DEFINE v == Tail(whole.todo)
  <2>5. skipped = [whole EXCEPT !["todo"] = v]
    OBVIOUS
  <2>6. v = Tail(x["todo"]) /\ "todo" \in CallFields
    BY <2>1 DEF CallFields
  <2> HIDE DEF v, skipped
  <2>2. SameBut(whole, skipped, {"todo"}) /\ skipped["todo"] = Tail(x["todo"])
    BY <2>1, <2>5, <2>6, SetIs, ZenonT(60)
  <2> HIDE DEF skipped
  <2>3. QED
    BY <1>3, <2>2 DEF SameBut, CallFields
<1>5. SameBut(x, last, Three) /\ last["pages"] = 0 /\ last["held"] = held /\ last["blocks"] = <<>>
  <2>1. IsCall(whole)
    BY <1>3 DEF SameBut, CallFields
  <2>2. SameBut(whole, last, {"blocks"}) /\ last["blocks"] = <<>>
    BY <2>1, SetIs DEF CallFields
  <2> HIDE DEF last
  <2>3. QED
    BY <1>3, <2>2 DEF SameBut, CallFields
<1> HIDE DEF got, skipped, last
<1> DEFINE q == TakeBlocks(x)
           All == {"pc", "todo", "held", "blocks", "pages"}
<1>6. CASE more
  <2>1. q = got
    BY <1>1, <1>6
  <2>2. q["pc"] = x["pc"] /\ q["todo"] = todo /\ q["held"] = x["held"] /\ q["blocks"] = taken
        /\ q["pages"] = n /\ SameBut(x, q, All)
    BY <1>2, <2>1 DEF SameBut, CallFields, todo
  <2> HIDE DEF q
  <2>3. QED
    BY <1>6, <2>2 DEF more, n, taken, todo, q, BlocksTaken
<1>7. CASE ~ more /\ skips
  <2>1. q = Done(skipped) /\ taken = <<>> /\ Len(todo) # 1
    BY <1>1, <1>2, <1>7
  <2>4. IsCall(skipped)
    BY <1>4 DEF SameBut
  <2>2. /\ SameBut(skipped, q, {"pc", "todo"})
        /\ Len(skipped["todo"]) # 1 => q["pc"] = skipped["pc"] /\ q["todo"] = Tail(skipped["todo"])
    <3> HIDE DEF q
    <3>1. QED
      BY <2>1, <2>4, DoneIs
  <2>3. /\ SameBut(x, q, All) /\ q["pages"] = 0 /\ q["held"] = held /\ q["blocks"] = <<>>
        /\ Len(Tail(todo)) # 1 => q["pc"] = x["pc"] /\ q["todo"] = Tail(Tail(todo))
    <3> HIDE DEF q
    <3>1. /\ skipped["pc"] = x["pc"] /\ skipped["todo"] = Tail(todo)
      BY <1>4 DEF SameBut, CallFields, todo
    <3>2. QED
      BY <1>4, <2>1, <2>2, <3>1 DEF SameBut, CallFields
  <2> HIDE DEF q
  <2>5. QED
    BY <1>7, <2>1, <2>3 DEF more, n, taken, todo, held, q, BlocksTaken
<1>8. CASE ~ more /\ ~ skips /\ Len(todo) # 1
  <2>0. Len(todo) > 1
    <3>1. todo \in Seq(S) /\ todo # <<>>
      BY DEF Busy, todo
    <3>2. Len(todo) \in Nat /\ Len(todo) # 0
      BY <3>1
    <3>4. Len(todo) # 1
      BY <1>8
    <3> DEFINE m == Len(todo)
    <3> HIDE DEF m
    <3>3. m > 1
      BY <3>2, <3>4 DEF m
    <3>5. QED
      BY <3>3 DEF m
  <2>1. q = Done(whole)
    BY <1>1, <1>2, <1>8, <2>0
  <2>2. /\ SameBut(whole, q, {"pc", "todo"})
        /\ Len(whole["todo"]) # 1 => q["pc"] = whole["pc"] /\ q["todo"] = Tail(whole["todo"])
    BY <1>3, <2>1, DoneIs DEF SameBut
  <2>3. /\ SameBut(x, q, All) /\ q["pages"] = 0 /\ q["held"] = held /\ q["blocks"] = taken
        /\ q["pc"] = x["pc"] /\ q["todo"] = Tail(todo)
    <3> HIDE DEF q
    <3>1. /\ whole["pc"] = x["pc"] /\ whole["todo"] = todo
      BY <1>3 DEF SameBut, CallFields, todo
    <3>2. QED
      BY <1>3, <1>8, <2>2, <3>1 DEF SameBut, CallFields
  <2> HIDE DEF q
  <2>4. QED
    BY <1>8, <2>3 DEF more, n, taken, todo, held, q, BlocksTaken
<1>9. CASE ~ more /\ ~ skips /\ Len(todo) = 1
  <2>1. q = Done(last)
    BY <1>1, <1>2, <1>9
  <2>2. /\ SameBut(last, q, {"pc", "todo"})
        /\ Len(last["todo"]) = 1 => q["pc"] = "done"
    BY <1>5, <2>1, DoneIs DEF SameBut
  <2>3. /\ SameBut(x, q, All) /\ q["pages"] = 0 /\ q["held"] = held /\ q["blocks"] = <<>>
        /\ q["pc"] = "done"
    <3> HIDE DEF q
    <3>1. last["todo"] = todo
      BY <1>5 DEF SameBut, CallFields, todo
    <3>2. QED
      BY <1>5, <1>9, <2>2, <3>1 DEF SameBut, CallFields
  <2> HIDE DEF q
  <2>4. QED
    BY <1>9, <2>3 DEF more, n, taken, todo, held, q, BlocksTaken
<1>10. QED
  BY <1>6, <1>7, <1>8, <1>9

(* A block is dropped. *)
LEMMA DropBlockIs ==
  ASSUME NEW x, IsCall(x), Len(x["todo"]) # 1
  PROVE  LET q == DropBlock(x)
             rest == Tail(x["blocks"])
         IN  /\ SameBut(x, q, {"todo", "blocks"}) /\ q["blocks"] = rest
             /\ q["todo"] = IF rest = <<>> THEN Tail(x["todo"]) ELSE x["todo"]
<1> DEFINE rest == Tail(x.blocks)
           y == [x EXCEPT !.blocks = rest]
           q == DropBlock(x)
<1>1. q = IF y.blocks = <<>> THEN Done(y) ELSE y
  BY DEF DropBlock
<1> HIDE DEF q
<1>2. SameBut(x, y, {"blocks"}) /\ y["blocks"] = rest
  BY SetIs DEF CallFields
<1> HIDE DEF y
<1>3. y["todo"] = x["todo"] /\ IsCall(y)
  BY <1>2 DEF SameBut, CallFields
<1>4. SameBut(y, Done(y), {"pc", "todo"}) /\ Done(y)["pc"] = y["pc"] /\ Done(y)["todo"] = Tail(x["todo"])
  BY <1>3, DoneIs
<1> HIDE DEF rest
<1>5. CASE rest = <<>>
  <2>1. q = Done(y)
    BY <1>1, <1>2, <1>5
  <2>2. SameBut(x, q, {"todo", "blocks"}) /\ q["blocks"] = rest /\ q["todo"] = Tail(x["todo"])
    BY <1>2, <1>4, <2>1 DEF SameBut, CallFields
  <2>3. QED
    BY <1>5, <2>2 DEF rest, q
<1>6. CASE rest # <<>>
  <2>1. q = y
    BY <1>1, <1>2, <1>6
  <2>2. SameBut(x, q, {"todo", "blocks"}) /\ q["blocks"] = rest /\ q["todo"] = x["todo"]
    BY <1>2, <2>1 DEF SameBut, CallFields
  <2>3. QED
    BY <1>6, <2>2 DEF rest, q
<1>7. QED
  BY <1>5, <1>6

(* Which calls read or drop blocks. *)
LEMMA WhoDrops ==
  ASSUME NEW c, NEW q, CallFine(source, c, q), q["pc"] = "running"
  PROVE  /\ Head(q["todo"]) \in Sent(source, q["op"], q["patch"]) /\ q["op"] \in Operation
         /\ Head(q["todo"]) = "drop" => q["op"] = "update" /\ source = "notion"
         /\ Head(q["todo"]) = "blocks" => q["op"] = "read" \/ (q["op"] = "update" /\ source = "notion")
<1>1. Busy(Sent(source, q["op"], q["patch"]), q) /\ q["op"] \in Operation
  BY DEF CallFine
<1>2. Head(q["todo"]) \in Sent(source, q["op"], q["patch"])
  BY <1>1, HeadTailProperties DEF Busy
<1> DEFINE r == Head(q["todo"])
           op == q["op"]
<1>3. op \in Operation /\ MaySend(source, op, q["patch"], r)
  BY <1>1, <1>2 DEF Sent
<1> HIDE DEF r, op
<1>4. /\ r = "drop" => op = "update" /\ source = "notion"
      /\ r = "blocks" => op = "read" \/ (op = "update" /\ source = "notion")
  BY <1>3 DEF MaySend, Operation
<1>5. QED
  BY <1>1, <1>2, <1>4 DEF r, op

(* A call that goes on to its next request. *)
LEMMA DoneTyped ==
  ASSUME NEW x, IsCall(x), TypedCall(source, x), x["pc"] = "running",
         Head(x["todo"]) \notin {"blocks", "drop"},
         NEW c, CallFine(source, c, Done(x))
  PROVE  TypedCall(source, Done(x))
<1> DEFINE q == Done(x)
<1>1. /\ SameBut(x, q, {"pc", "todo"})
      /\ Len(x["todo"]) = 1 => q["pc"] = "done"
      /\ Len(x["todo"]) # 1 => q["pc"] = x["pc"] /\ q["todo"] = Tail(x["todo"])
  BY DoneIs
<1>2. CallFine(source, c, q)
  OBVIOUS
<1> HIDE DEF q
<1>3. /\ q["op"] = x["op"] /\ q["item"] = x["item"] /\ q["patch"] = x["patch"]
      /\ q["seen"] = x["seen"] /\ q["limit"] = x["limit"] /\ q["held"] = x["held"]
      /\ q["blocks"] = x["blocks"] /\ q["pages"] = x["pages"]
      /\ q["calm"] = x["calm"] /\ q["faulted"] = x["faulted"]
  BY <1>1 DEF SameBut, CallFields
<1>4. ASSUME q["pc"] = "running"
      PROVE  /\ q["op"] = "read" => q["todo"] \in Readings
             /\ q["op"] = "update" /\ source = "notion" => q["todo"] \in NotionUpdates
             /\ Counted(q)
  <2>1. Len(x["todo"]) # 1 /\ q["todo"] = Tail(x["todo"])
    BY <1>1, <1>4
  <2>2. q["op"] = "read" => q["todo"] \in Readings
    BY <1>3, <2>1, ReadingSteps DEF TypedCall
  <2>3. q["op"] = "update" /\ source = "notion" =>
          q["todo"] \in NotionUpdates /\ Head(q["todo"]) # "drop"
    <3> SUFFICES ASSUME q["op"] = "update", source = "notion"
                 PROVE  q["todo"] \in NotionUpdates /\ Head(q["todo"]) # "drop"
      OBVIOUS
    <3>1. x["todo"] \in NotionUpdates
      BY <1>3 DEF TypedCall
    <3> DEFINE todo == x["todo"]
    <3>2. /\ Len(todo) # 1 => Tail(todo) \in NotionUpdates
          /\ Head(todo) \in {"put", "get", "rename", "blocks", "drop", "append"}
          /\ Head(todo) = "put" => Len(todo) = 1
          /\ Head(todo) = "append" => Tail(todo) = <<"get", "blocks">>
          /\ Head(todo) \in {"get", "rename"} => Head(Tail(todo)) \in {"get", "rename", "blocks"}
      BY <3>1, NotionSteps
    <3>3. Head(todo) \notin {"blocks", "drop"} /\ Len(todo) # 1 /\ q["todo"] = Tail(todo)
      BY <2>1
    <3> HIDE DEF todo
    <3>4. Head(<<"get", "blocks">>) = "get"
      OBVIOUS
    <3>5. QED
      BY <3>2, <3>3, <3>4
  <2>4. Head(q["todo"]) # "drop"
    BY <1>2, <1>4, <2>3, WhoDrops
  <2>5. Counted(x)
    BY DEF TypedCall
  <2>6. Counted(q)
    BY <1>3, <2>4, <2>5 DEF Counted
  <2>7. QED
    BY <2>2, <2>3, <2>6
<1>5. q["pc"] \in {"idle", "running", "over"} \cup Ended
  BY <1>1 DEF Ended
<1>6. TypedCall(source, q)
  BY <1>3, <1>4, <1>5 DEF TypedCall
<1>7. QED
  BY <1>6 DEF q

(* What is read of a thing, whole. *)
LEMMA HeldFull ==
  ASSUME NEW x, IsCall(x), x["item"] \in Item, Full(remote[x["item"]])
  PROVE  /\ SameBut(x, Hold(x), {"held"}) /\ Full(Hold(x)["held"])
         /\ Hold(x)["held"] = IF source = "drive" \/ (source = "notion" /\ Tail(x["todo"]) # <<>>)
                              THEN [remote[x["item"]] EXCEPT !["body"] = <<>>] ELSE remote[x["item"]]
<1> DEFINE t == remote[x.item]
           h == IF source = "drive" \/ (source = "notion" /\ Tail(x.todo) # <<>>)
                THEN [t EXCEPT !["body"] = <<>>] ELSE t
<1>1. Hold(x) = [x EXCEPT !["held"] = h]
  BY DEF Hold
<1>2. Full(h)
  <2>1. <<>> \in Seq(Value) /\ "body" \in ThingFields
    BY DEF ThingFields
  <2>2. Full([t EXCEPT !["body"] = <<>>])
    BY <2>1, FullSet
  <2>3. QED
    BY <2>2
<1> HIDE DEF h
<1>3. "held" \in CallFields
  BY DEF CallFields
<1>4. SameBut(x, Hold(x), {"held"}) /\ Hold(x)["held"] = h
  <2> DEFINE y == [x EXCEPT !["held"] = h]
  <2>1. SameBut(x, y, {"held"}) /\ y["held"] = h
    BY <1>3, SetIs, Zenon
  <2> HIDE DEF y
  <2>2. Hold(x) = y
    BY <1>1 DEF y
  <2>3. QED
    BY <2>1, <2>2
<1>5. QED
  BY <1>2, <1>4 DEF h

(* A call that has something of its own set stays typed. *)
LEMMA HeldTyped ==
  ASSUME NEW x, TypedCall(source, x), NEW q, SameBut(x, q, {"held"}), Full(q["held"])
  PROVE  TypedCall(source, q)
<1>1. /\ q["op"] = x["op"] /\ q["item"] = x["item"] /\ q["patch"] = x["patch"]
      /\ q["seen"] = x["seen"] /\ q["limit"] = x["limit"] /\ q["pc"] = x["pc"]
      /\ q["blocks"] = x["blocks"] /\ q["pages"] = x["pages"] /\ q["todo"] = x["todo"]
      /\ q["calm"] = x["calm"] /\ q["faulted"] = x["faulted"]
  BY DEF SameBut, CallFields
<1>2. Counted(q) <=> Counted(x)
  BY <1>1 DEF Counted
<1>3. QED
  BY <1>1, <1>2 DEF TypedCall

LEMMA ItemTyped ==
  ASSUME NEW x, TypedCall(source, x), NEW q, SameBut(x, q, {"item"}), q["item"] \in Item
  PROVE  TypedCall(source, q)
<1>1. /\ q["op"] = x["op"] /\ q["held"] = x["held"] /\ q["patch"] = x["patch"]
      /\ q["seen"] = x["seen"] /\ q["limit"] = x["limit"] /\ q["pc"] = x["pc"]
      /\ q["blocks"] = x["blocks"] /\ q["pages"] = x["pages"] /\ q["todo"] = x["todo"]
      /\ q["calm"] = x["calm"] /\ q["faulted"] = x["faulted"]
  BY DEF SameBut, CallFields
<1>2. Counted(q) <=> Counted(x)
  BY <1>1 DEF Counted
<1>3. QED
  BY <1>1, <1>2 DEF TypedCall

(* What a page of blocks leaves. *)
LEMMA TakenTyped ==
  ASSUME NEW x, IsCall(x), TypedCall(source, x), x["pc"] = "running", Head(x["todo"]) = "blocks",
         x["item"] \in Item, Full(remote[x["item"]]),
         NEW c, CallFine(source, c, x), CallFine(source, c, TakeBlocks(x))
  PROVE  TypedCall(source, TakeBlocks(x))
<1> DEFINE n == x["pages"] + 1
           body == remote[x["item"]]["body"]
           taken == IF n <= Len(body) THEN Append(x["blocks"], body[n]) ELSE x["blocks"]
           more == n < Len(body) /\ n < BlockPages
           todo == x["todo"]
           skips == Len(todo) > 1 /\ todo[2] = "drop" /\ taken = <<>>
           q == TakeBlocks(x)
           S == Sent(source, x["op"], x["patch"])
<1>0. Busy(S, x)
  BY DEF CallFine
<1>1. /\ SameBut(x, q, {"pc", "todo", "held", "blocks", "pages"})
      /\ more => /\ q["pc"] = x["pc"] /\ q["todo"] = todo /\ q["held"] = x["held"]
                 /\ q["blocks"] = taken /\ q["pages"] = n
      /\ ~ more => q["pages"] = 0 /\ q["held"] = [x["held"] EXCEPT !["body"] = taken]
      /\ ~ more /\ Len(todo) = 1 => q["pc"] = "done" /\ q["blocks"] = <<>>
      /\ ~ more /\ skips /\ Len(Tail(todo)) # 1 =>
           q["pc"] = x["pc"] /\ q["todo"] = Tail(Tail(todo)) /\ q["blocks"] = <<>>
      /\ ~ more /\ Len(todo) # 1 /\ ~ skips =>
           q["pc"] = x["pc"] /\ q["todo"] = Tail(todo) /\ q["blocks"] = taken
  <2>1. BlocksTaken(x, q)
    BY <1>0, TakeBlocksIs, Zenon
  <2> HIDE DEF q
  <2>2. QED
    BY <2>1 DEF BlocksTaken
<1>2. /\ q["op"] = x["op"] /\ q["item"] = x["item"] /\ q["patch"] = x["patch"]
      /\ q["seen"] = x["seen"] /\ q["limit"] = x["limit"]
      /\ q["calm"] = x["calm"] /\ q["faulted"] = x["faulted"]
  BY <1>1 DEF SameBut, CallFields
<1> HIDE DEF q
<1>3. /\ Counted(x) /\ x["pages"] \in 0..BlockPages /\ x["blocks"] \in Seq(Value) /\ Full(x["held"])
      /\ x["op"] = "read" => todo \in Readings
      /\ x["op"] = "update" /\ source = "notion" => todo \in NotionUpdates
  BY DEF TypedCall
<1>4. BlockPages \in Nat /\ body \in Seq(Value)
  BY SourceAssumption DEF Full
<1>5. Len(x["blocks"]) <= x["pages"] /\ x["pages"] < BlockPages
  BY <1>3 DEF Counted
<1>6. /\ n \in 1..BlockPages /\ taken \in Seq(Value) /\ Len(taken) <= n /\ Len(taken) <= BlockPages
  <2> DEFINE blocks == x["blocks"]
             pages == x["pages"]
  <2>1. blocks \in Seq(Value) /\ pages \in Nat /\ Len(blocks) <= pages /\ pages < BlockPages
    BY <1>3, <1>4, <1>5
  <2>2. n = pages + 1 /\ taken = IF n <= Len(body) THEN Append(blocks, body[n]) ELSE blocks
    OBVIOUS
  <2> HIDE DEF blocks, pages, body, taken, n
  <2>3. n \in 1..BlockPages
    BY <1>4, <2>1, <2>2
  <2>4. CASE n <= Len(body)
    <3>1. body[n] \in Value
      BY <1>4, <2>3, <2>4
    <3>2. taken = Append(blocks, body[n])
      BY <2>2, <2>4
    <3>3. taken \in Seq(Value) /\ Len(taken) = Len(blocks) + 1 /\ Len(blocks) \in Nat
      BY <2>1, <3>1, <3>2
    <3>4. QED
      BY <1>4, <2>1, <2>2, <2>3, <3>3
  <2>5. CASE ~ (n <= Len(body))
    <3>1. taken = blocks /\ Len(blocks) \in Nat
      BY <2>1, <2>2, <2>5
    <3>2. QED
      BY <1>4, <2>1, <2>2, <2>3, <3>1
  <2>6. QED
    BY <2>4, <2>5
<1>7. Full([x["held"] EXCEPT !["body"] = taken])
  BY <1>3, <1>6, FullSet DEF ThingFields
<1>8. /\ Len(todo) # 1 => /\ x["op"] = "update" /\ source = "notion" /\ todo \in NotionUpdates
                          /\ Tail(todo) \in NotionUpdates
                          /\ Len(todo) > 1 /\ todo[2] = "drop" /\ Head(Tail(todo)) = "drop"
                          /\ Tail(Tail(todo)) = <<"append", "get", "blocks">> /\ Len(Tail(todo)) # 1
  <2>1. x["op"] = "read" \/ (x["op"] = "update" /\ source = "notion")
    BY WhoDrops
  <2> HIDE DEF todo
  <2>2. x["op"] = "read" => Len(todo) = 1
    BY <1>3, ReadingSteps DEF todo
  <2>3. x["op"] = "update" /\ source = "notion" /\ Len(todo) # 1 =>
          /\ Tail(todo) \in NotionUpdates
          /\ Len(todo) > 1 /\ todo[2] = "drop" /\ Head(Tail(todo)) = "drop"
          /\ Tail(Tail(todo)) = <<"append", "get", "blocks">> /\ Len(Tail(todo)) # 1
    BY <1>3, NotionSteps DEF todo
  <2>4. QED
    BY <1>3, <2>1, <2>2, <2>3
<1>9. <<"append", "get", "blocks">> \in NotionUpdates /\ Head(<<"append", "get", "blocks">>) = "append"
  BY DEF NotionUpdates, Rewrites
<1> HIDE DEF taken, todo, body, more
<1>10. CASE more
  <2>1. Counted(q)
    <3>1. n < BlockPages
      BY <1>10 DEF more
    <3>2. Head(q["todo"]) = "blocks"
      BY <1>1, <1>10 DEF todo
    <3>3. QED
      BY <1>1, <1>6, <1>10, <3>1, <3>2 DEF Counted
  <2>2. q["pages"] \in 0..BlockPages
    BY <1>1, <1>6, <1>10
  <2>3. QED
    BY <1>1, <1>2, <1>3, <1>6, <1>10, <2>1, <2>2 DEF TypedCall, q, todo
<1>11. CASE ~ more
  <2>1. 0 \in 0..BlockPages /\ 0 < BlockPages /\ <<>> \in Seq(Value) /\ Len(<<>>) = 0
        /\ Len(<<>>) <= BlockPages /\ Len(<<>>) <= 0
    BY SourceAssumption
  <2>2. Full(q["held"]) /\ q["pages"] = 0
    BY <1>1, <1>7, <1>11
  <2>3. CASE Len(todo) = 1
    <3>1. q["pc"] = "done" /\ q["blocks"] = <<>>
      BY <1>1, <1>11, <2>3
    <3>2. QED
      BY <1>2, <2>1, <2>2, <3>1 DEF TypedCall, q, Ended
  <2>4. CASE Len(todo) # 1 /\ skips
    <3>1. q["pc"] = x["pc"] /\ q["todo"] = <<"append", "get", "blocks">> /\ q["blocks"] = <<>>
      BY <1>1, <1>8, <1>11, <2>4
    <3>2. Counted(q)
      BY <1>9, <2>1, <2>2, <3>1 DEF Counted
    <3>3. q["op"] # "read"
      BY <1>2, <1>8, <2>4
    <3>4. QED
      BY <1>2, <1>9, <2>1, <2>2, <3>1, <3>2, <3>3 DEF TypedCall, q
  <2>5. CASE Len(todo) # 1 /\ ~ skips
    <3>1. q["pc"] = x["pc"] /\ q["todo"] = Tail(todo) /\ q["blocks"] = taken
      BY <1>1, <1>11, <2>5
    <3>2. taken # <<>>
      BY <1>8, <2>5
    <3>3. Counted(q)
      BY <1>8, <2>1, <2>2, <2>5, <3>1, <3>2 DEF Counted
    <3>4. q["op"] # "read"
      BY <1>2, <1>8, <2>5
    <3>5. QED
      BY <1>2, <1>6, <1>8, <2>1, <2>2, <2>5, <3>1, <3>3, <3>4 DEF TypedCall, q
  <2>6. QED
    BY <2>3, <2>4, <2>5
<1>12. QED
  BY <1>10, <1>11

(* What a dropped block leaves. *)
LEMMA DroppedTyped ==
  ASSUME NEW x, IsCall(x), TypedCall(source, x), x["pc"] = "running", Head(x["todo"]) = "drop",
         NEW c, CallFine(source, c, x)
  PROVE  TypedCall(source, DropBlock(x))
<1> DEFINE rest == Tail(x["blocks"])
           q == DropBlock(x)
<1>1. x["op"] = "update" /\ source = "notion"
  BY WhoDrops
<1>2. x["todo"] \in NotionUpdates /\ Counted(x)
  BY <1>1 DEF TypedCall
<1>3. Len(x["todo"]) # 1 /\ Tail(x["todo"]) = <<"append", "get", "blocks">>
  BY <1>2, NotionSteps
<1>4. /\ SameBut(x, q, {"todo", "blocks"}) /\ q["blocks"] = rest
      /\ q["todo"] = IF rest = <<>> THEN Tail(x["todo"]) ELSE x["todo"]
  BY <1>3, DropBlockIs
<1>5. /\ q["op"] = x["op"] /\ q["item"] = x["item"] /\ q["patch"] = x["patch"] /\ q["pc"] = x["pc"]
      /\ q["seen"] = x["seen"] /\ q["limit"] = x["limit"] /\ q["held"] = x["held"]
      /\ q["calm"] = x["calm"] /\ q["faulted"] = x["faulted"] /\ q["pages"] = x["pages"]
  BY <1>4 DEF SameBut, CallFields
<1>6. x["pages"] = 0 /\ x["blocks"] # <<>> /\ x["pages"] < BlockPages /\ x["blocks"] \in Seq(Value)
      /\ Len(x["blocks"]) <= BlockPages /\ BlockPages \in Nat
  BY <1>2, SourceAssumption DEF Counted, TypedCall
<1>7. rest \in Seq(Value) /\ Len(rest) <= BlockPages /\ Len(<<>>) = 0
  <2>1. rest \in Seq(Value) /\ Len(rest) = Len(x["blocks"]) - 1
    BY <1>6, HeadTailProperties
  <2> DEFINE m == Len(x["blocks"])
  <2>2. m \in Nat /\ m <= BlockPages /\ Len(rest) = m - 1
    BY <1>6, <2>1
  <2> HIDE DEF m
  <2>3. QED
    BY <1>6, <2>1, <2>2
<1> HIDE DEF q, rest
<1>8. q["todo"] \in NotionUpdates /\ Counted(q)
  <2>1. CASE rest = <<>>
    <3>1. q["todo"] = <<"append", "get", "blocks">>
      BY <1>3, <1>4, <2>1
    <3>2. <<"append", "get", "blocks">> \in NotionUpdates
          /\ Head(<<"append", "get", "blocks">>) = "append"
      BY DEF NotionUpdates, Rewrites
    <3>3. Head(q["todo"]) # "drop" /\ Len(q["blocks"]) = 0 /\ q["pages"] = 0 /\ 0 < BlockPages
      BY <1>4, <1>5, <1>6, <1>7, <2>1, <3>1, <3>2
    <3>4. QED
      BY <3>1, <3>2, <3>3 DEF Counted
  <2>2. CASE rest # <<>>
    BY <1>2, <1>4, <1>5, <1>6, <2>2 DEF Counted
  <2>3. QED
    BY <2>1, <2>2
<1>9. TypedCall(source, q)
  BY <1>1, <1>4, <1>5, <1>7, <1>8 DEF TypedCall
<1>10. QED
  BY <1>9 DEF q

(* A page of a listing is taken. *)
LEMMA TakePageIs ==
  ASSUME NEW x, IsCall(x)
  PROVE  LET q == TakePage(x)
             next == NextCursor(source, x, PageReply(x))
         IN  /\ SameBut(x, q, {"seen", "cursor", "pc", "todo"})
             /\ q["seen"] = x["seen"] \cup (Page(x) \cap Resources(x)) /\ q["cursor"] = next
             /\ next = Nowhere => q["pc"] = "done"
             /\ next # Nowhere => q["pc"] = x["pc"] /\ q["todo"] = x["script"]
<1> DEFINE next == NextCursor(source, x, PageReply(x))
           seen == x.seen \cup (Page(x) \cap Resources(x))
           got == [x EXCEPT !.seen = seen, !.cursor = next]
           more == [got EXCEPT !.todo = got.script]
           q == TakePage(x)
<1>1. q = IF next = Nowhere THEN Finished(got, "done") ELSE more
  BY DEF TakePage
<1> HIDE DEF next, seen, q
<1>2. SameBut(x, got, {"seen", "cursor"}) /\ got["seen"] = seen /\ got["cursor"] = next
  <2>1. got = [f \in CallFields |-> IF f = "seen" THEN seen ELSE IF f = "cursor" THEN next ELSE x[f]]
    BY DEF IsCall, CallFields
  <2> HIDE DEF got
  <2>2. QED
    BY <2>1 DEF SameBut, IsCall, CallFields
<1> HIDE DEF got
<1>3. IsCall(got) /\ got["script"] = x["script"] /\ got["pc"] = x["pc"]
  BY <1>2 DEF SameBut, CallFields
<1>4. CASE next = Nowhere
  <2>1. SameBut(got, Finished(got, "done"), {"pc", "todo"}) /\ Finished(got, "done")["pc"] = "done"
    BY <1>3, FinishedIs
  <2>2. SameBut(x, q, {"seen", "cursor", "pc", "todo"}) /\ q["seen"] = seen /\ q["cursor"] = next
        /\ q["pc"] = "done"
    BY <1>1, <1>2, <1>4, <2>1 DEF SameBut, CallFields
  <2>3. QED
    BY <1>4, <2>2 DEF seen, next, q
<1>5. CASE next # Nowhere
  <2> DEFINE v == got.script
  <2>1. SameBut(got, [got EXCEPT !["todo"] = v], {"todo"}) /\ [got EXCEPT !["todo"] = v]["todo"] = v
    <3> HIDE DEF v
    <3>1. "todo" \in CallFields
      BY DEF CallFields
    <3>2. QED
      BY <1>3, <3>1, SetIs, ZenonT(60)
  <2>2. SameBut(got, more, {"todo"}) /\ more["todo"] = x["script"] /\ q = more
    BY <1>1, <1>3, <1>5, <2>1
  <2> HIDE DEF more
  <2>3. SameBut(x, q, {"seen", "cursor", "pc", "todo"}) /\ q["seen"] = seen /\ q["cursor"] = next
        /\ q["pc"] = x["pc"] /\ q["todo"] = x["script"]
    BY <1>2, <2>2 DEF SameBut, CallFields
  <2>4. QED
    BY <1>5, <2>3 DEF seen, next, q
<1>6. QED
  BY <1>4, <1>5

(* What was answered leaves a call typed. *)
LEMMA AnswerTyped ==
  ASSUME NEW c \in Caller, NEW x, TypedCall(source, x), x["pc"] = "running", CallFine(source, c, x),
         NEW request, request = Head(x["todo"]), Status(x, request) = "ok",
         \A i \in Item : Full(remote[i]), CallFine(source, c, Answered(c, x, request))
  PROVE  TypedCall(source, Answered(c, x, request))
<1> DEFINE i == x["item"]
           q == Answered(c, x, request)
<1>0. IsCall(x)
  BY DEF CallFine
<1>1. request \in {"get", "export", "blocks"} => i \in Item /\ Full(remote[i])
  BY AnsweredOk DEF Opens, There
<1>2. CASE request = "get"
  <2>1. /\ SameBut(x, Hold(x), {"held"}) /\ Full(Hold(x)["held"])
    BY <1>0, <1>1, <1>2, HeldFull
  <2>2. TypedCall(source, Hold(x)) /\ Hold(x)["pc"] = "running" /\ Hold(x)["todo"] = x["todo"]
        /\ IsCall(Hold(x))
    BY <2>1, HeldTyped DEF SameBut, CallFields
  <2>3. q = Done(Hold(x))
    BY <1>2 DEF Answered
  <2>4. CallFine(source, c, Done(Hold(x)))
    BY <2>3
  <2>5. QED
    BY <1>2, <2>2, <2>3, <2>4, DoneTyped
<1>3. CASE request = "export"
  <2> DEFINE h == [x.held EXCEPT !["body"] = remote[i]["body"]]
             y == [x EXCEPT !["held"] = h]
  <2>1. q = Done(y)
    BY <1>3 DEF Answered
  <2>2. Full(h)
    <3>1. Full(x["held"]) /\ remote[i]["body"] \in Seq(Value) /\ "body" \in ThingFields
      BY <1>1, <1>3 DEF TypedCall, Full, ThingFields
    <3>2. QED
      BY <3>1, FullSet
  <2> HIDE DEF h
  <2>7. "held" \in CallFields
    BY DEF CallFields
  <2>3. SameBut(x, y, {"held"}) /\ y["held"] = h
    BY <1>0, <2>7, SetIs, ZenonT(60)
  <2> HIDE DEF y
  <2>4. TypedCall(source, y) /\ y["pc"] = "running" /\ y["todo"] = x["todo"] /\ IsCall(y)
    BY <2>2, <2>3, HeldTyped DEF SameBut, CallFields
  <2>5. CallFine(source, c, Done(y))
    BY <2>1
  <2>6. QED
    BY <1>3, <2>1, <2>4, <2>5, DoneTyped
<1>4. CASE request = "blocks"
  <2>1. q = TakeBlocks(x)
    BY <1>4 DEF Answered
  <2>2. CallFine(source, c, TakeBlocks(x))
    BY <2>1
  <2>3. QED
    BY <1>0, <1>1, <1>4, <2>1, <2>2, TakenTyped
<1>5. CASE request = "drop"
  <2>1. q = DropBlock(x)
    BY <1>5 DEF Answered
  <2>2. QED
    BY <1>0, <1>5, <2>1, DroppedTyped
<1>6. CASE request = "page"
  <2> DEFINE next == NextCursor(source, x, PageReply(x))
  <2>1. q = TakePage(x)
    BY <1>6 DEF Answered
  <2>2. /\ SameBut(x, q, {"seen", "cursor", "pc", "todo"})
        /\ q["seen"] = x["seen"] \cup (Page(x) \cap Resources(x))
        /\ q["pc"] = "done" \/ q["pc"] = x["pc"]
    BY <1>0, <2>1, TakePageIs
  <2>3. CallFine(source, c, q)
    OBVIOUS
  <2> HIDE DEF q
  <2>4. /\ q["op"] = x["op"] /\ q["item"] = x["item"] /\ q["patch"] = x["patch"]
        /\ q["limit"] = x["limit"] /\ q["held"] = x["held"]
        /\ q["blocks"] = x["blocks"] /\ q["pages"] = x["pages"]
        /\ q["calm"] = x["calm"] /\ q["faulted"] = x["faulted"]
    BY <2>2 DEF SameBut, CallFields
  <2>5. x["op"] \in {"list", "search"}
    <3> DEFINE op == x["op"]
    <3>1. op \in Operation /\ MaySend(source, op, x["patch"], request)
      BY WhoDrops DEF Sent
    <3> HIDE DEF op
    <3>2. op \in {"list", "search"}
      BY <1>6, <3>1 DEF MaySend, Operation
    <3>3. QED
      BY <3>2 DEF op
  <2>6. q["seen"] \subseteq Item
    <3>1. Page(x) \subseteq Item
      BY DEF Page, Listed, Live
    <3>2. QED
      BY <2>2, <3>1 DEF TypedCall
  <2>7. q["pc"] = "running" => Counted(q)
    <3>1. q["pc"] = "running" => Head(q["todo"]) # "drop"
      BY <2>3, <2>4, <2>5, WhoDrops
    <3>2. Counted(x) /\ Head(x["todo"]) # "drop"
      BY <1>6 DEF TypedCall
    <3>3. QED
      BY <2>4, <3>1, <3>2 DEF Counted
  <2>8. TypedCall(source, q)
    BY <2>2, <2>4, <2>5, <2>6, <2>7 DEF TypedCall, Ended
  <2>9. QED
    BY <2>8 DEF q
<1>7. CASE request \in {"post", "postTitle"}
  <2> DEFINE y == [x EXCEPT !["item"] = c]
  <2>1. q = Done(y)
    BY <1>7 DEF Answered
  <2>7. "item" \in CallFields
    BY DEF CallFields
  <2>2. SameBut(x, y, {"item"}) /\ y["item"] = c
    BY <1>0, <2>7, SetIs, Zenon
  <2> HIDE DEF y
  <2>3. TypedCall(source, y) /\ y["pc"] = "running" /\ y["todo"] = x["todo"] /\ IsCall(y)
    BY <2>2, ItemTyped, ItemsAreFinite DEF SameBut, CallFields
  <2>4. CallFine(source, c, Done(y))
    BY <2>1
  <2>5. QED
    BY <1>7, <2>1, <2>3, <2>4, DoneTyped
<1>8. CASE request \notin {"get", "export", "blocks", "drop", "page", "post", "postTitle"}
  <2>1. q = Done(x)
    BY <1>8 DEF Answered
  <2>2. CallFine(source, c, Done(x))
    BY <2>1
  <2>3. QED
    BY <1>0, <1>8, <2>1, <2>2, DoneTyped
<1>9. QED
  BY <1>2, <1>3, <1>4, <1>5, <1>6, <1>7, <1>8

-----------------------------------------------------------------------------
(* Pages of blocks: what was taken is the beginning of the body. *)
LEMMA LeafGrows ==
  ASSUME NEW V, NEW body \in Seq(V), NEW p \in Nat, NEW blocks, blocks = SubSeq(body, 1, p), p = Len(blocks),
         p = 0 \/ p < Len(body)
  PROVE  LET n == p + 1
             taken == IF n <= Len(body) THEN Append(blocks, body[n]) ELSE blocks
         IN  /\ n <= Len(body) => taken = SubSeq(body, 1, n) /\ Len(taken) = n
             /\ n >= Len(body) => taken = body
             /\ ~ (n <= Len(body)) => body = <<>> /\ taken = <<>>
<1> DEFINE n == p + 1
           taken == IF n <= Len(body) THEN Append(blocks, body[n]) ELSE blocks
<1>0. Len(body) \in Nat /\ n \in Nat /\ n = p + 1
  OBVIOUS
<1> HIDE DEF n
<1>1. CASE n <= Len(body)
  <2>1. blocks \in Seq(V) /\ Len(blocks) = p /\ \A i \in 1..p : blocks[i] = body[i]
    BY <1>0, <1>1
  <2>2. taken = Append(blocks, body[n])
    BY <1>1
  <2>3. body[n] \in V
    BY <1>0, <1>1
  <2> HIDE DEF taken
  <2>4. taken \in Seq(V) /\ Len(taken) = n /\ \A i \in 1..n : taken[i] = body[i]
    BY <1>0, <2>1, <2>2, <2>3
  <2> DEFINE first == SubSeq(body, 1, n)
  <2>5. first \in Seq(V) /\ Len(first) = n /\ \A i \in 1..n : first[i] = body[i]
    BY <1>0, <1>1
  <2> HIDE DEF first
  <2>6. taken = first
    BY <2>4, <2>5, SeqEqual
  <2>7. n >= Len(body) => taken = body
    <3> SUFFICES ASSUME n >= Len(body) PROVE taken = body
      OBVIOUS
    <3> DEFINE m == Len(body)
    <3>3. m \in Nat /\ n \in Nat /\ n <= m /\ n >= m
      BY <1>0, <1>1
    <3> HIDE DEF m
    <3>4. n = m
      BY <3>3
    <3>1. n = Len(body)
      BY <3>4 DEF m
    <3>2. QED
      BY <2>4, <3>1, SeqEqual
  <2>8. QED
    BY <1>1, <2>4, <2>6, <2>7 DEF first, taken, n
<1>2. CASE ~ (n <= Len(body))
  <2>1. p = 0 /\ Len(body) = 0
    BY <1>0, <1>2
  <2>2. body = <<>> /\ taken = blocks /\ Len(blocks) = 0
    BY <1>2, <2>1
  <2>3. blocks = <<>>
    BY <2>1, <2>2
  <2> HIDE DEF taken
  <2>4. QED
    BY <1>2, <2>2, <2>3 DEF n, taken
<1>3. QED
  BY <1>1, <1>2

-----------------------------------------------------------------------------
(* A call that was answered is on its way, or right. *)
Goes(rem, c, q) ==
    /\ q["pc"] \in {"done", "running"}
    /\ q["pc"] = "done" => Correct(source, rem, c, q)
    /\ q["pc"] = "running" => OnItsWay(source, rem, c, q)

(* A running call whose request was answered. *)
Asked(c, x, request) ==
    /\ TypedCall(source, x) /\ x["pc"] = "running" /\ CallFine(source, c, x)
    /\ request = Head(x["todo"]) /\ Status(x, request) = "ok"
    /\ OnItsWay(source, remote, c, x)

LEMMA LastTail ==
  ASSUME NEW S, NEW todo \in Seq(S), Len(todo) = 1
  PROVE  Tail(todo) = <<>>
<1> DEFINE rest == Tail(todo)
<1>1. todo # <<>>
  OBVIOUS
<1>2. rest \in Seq(S) /\ Len(rest) = 0
  BY <1>1, HeadTailProperties
<1> HIDE DEF rest
<1>3. rest = <<>>
  BY <1>2
<1>4. QED
  BY <1>3 DEF rest

(* Reading. *)
LEMMA ReadGoes ==
  ASSUME NEW c, NEW x, NEW request, Asked(c, x, request), x["op"] = "read",
         \A i \in Item : Full(remote[i])
  PROVE  /\ Effect(c, x, request) = remote
         /\ Goes(remote, c, Answered(c, x, request))
<1> DEFINE i == x["item"]
           t == remote[i]
           todo == x["todo"]
           q == Answered(c, x, request)
<1>1. /\ IsCall(x) /\ StateKept(remote, x) /\ Reads(source, remote, x) /\ todo \in Readings
      /\ Busy(Sent(source, x["op"], x["patch"]), x)
  BY DEF Asked, CallFine, OnItsWay, TypedCall
<1>2. request \in {"get", "export", "blocks"}
  BY <1>1, ReadingSteps DEF Asked
<1>3. i \in Item /\ Full(t)
  BY <1>2, AnsweredOk DEF Asked, Opens, There
<1>4. Effect(c, x, request) = remote
  BY <1>2 DEF Effect
<1>5. CASE request = "get"
  <2> DEFINE y == Hold(x)
             h == IF source = "drive" \/ (source = "notion" /\ Tail(todo) # <<>>)
                  THEN [t EXCEPT !["body"] = <<>>] ELSE t
  <2>1. SameBut(x, y, {"held"}) /\ y["held"] = h
    BY <1>1, <1>3, HeldFull
  <2>2. /\ h["title"] = t["title"]
        /\ ~ (source = "drive" \/ (source = "notion" /\ Tail(todo) # <<>>)) => h["body"] = t["body"]
    BY <1>3 DEF Full
  <2>3. q = Done(y)
    BY <1>5 DEF Answered
  <2> HIDE DEF y, h
  <2>4. IsCall(y) /\ y["todo"] = todo /\ y["pc"] = "running" /\ y["op"] = "read" /\ y["item"] = i
        /\ y["pages"] = x["pages"] /\ y["blocks"] = x["blocks"] /\ y["before"] = x["before"]
    BY <2>1 DEF SameBut, CallFields, Asked
  <2>5. /\ SameBut(y, q, {"pc", "todo"})
        /\ Len(todo) = 1 => q["pc"] = "done"
        /\ Len(todo) # 1 => q["pc"] = "running" /\ q["todo"] = Tail(todo)
    BY <2>3, <2>4, DoneIs
  <2> HIDE DEF q
  <2>6. /\ q["op"] = "read" /\ q["item"] = i /\ q["held"] = h
        /\ q["pages"] = x["pages"] /\ q["blocks"] = x["blocks"] /\ q["before"] = x["before"]
    BY <2>1, <2>4, <2>5 DEF SameBut, CallFields
  <2>7. /\ Len(todo) = 1 /\ source = "drive" => KindOf[i] # "text"
        /\ x["pages"] = 0 /\ x["blocks"] = <<>>
    BY <1>1, <1>3, <1>5 DEF Reads, Asked
  <2> HIDE DEF todo
  <2>8. CASE Len(todo) = 1
    <3>1. Tail(todo) = <<>>
      <4>1. todo \in Seq(Sent(source, x["op"], x["patch"])) /\ todo # <<>>
        BY <1>1 DEF Busy, todo
      <4>2. QED
        BY <2>8, <4>1, LastTail
    <3>2. h["body"] = t["body"] \/ source = "drive"
      BY <2>2, <3>1
    <3>3. Correct(source, remote, c, q)
      BY <2>2, <2>6, <2>7, <2>8, <3>2 DEF Correct
    <3>4. QED
      BY <1>4, <2>5, <2>8, <3>3 DEF Goes, q
  <2>9. CASE Len(todo) # 1
    <3>1. Tail(todo) \in Readings /\ Head(Tail(todo)) # "get"
      BY <1>1, <2>9, ReadingSteps DEF todo
    <3>2. StateKept(remote, q)
      BY <1>1, <2>6 DEF StateKept
    <3>3. Leaf(t["body"], q)
      <4>1. t["body"] \in Seq(Value)
        BY <1>3 DEF Full
      <4> DEFINE body == t["body"]
      <4>2. SubSeq(body, 1, 0) = <<>> /\ Len(<<>>) = 0
        BY <4>1
      <4> HIDE DEF body
      <4>3. Leaf(body, q)
        BY <2>6, <2>7, <4>2 DEF Leaf
      <4>4. QED
        BY <4>3 DEF body
    <3>4. Reads(source, remote, q)
      BY <1>3, <2>2, <2>5, <2>6, <2>9, <3>1, <3>3 DEF Reads
    <3>5. OnItsWay(source, remote, c, q)
      BY <2>6, <3>2, <3>4 DEF OnItsWay
    <3>6. QED
      BY <1>4, <2>5, <2>9, <3>5 DEF Goes, q
  <2>10. QED
    BY <1>4, <2>8, <2>9
<1>6. \/ Len(todo) = 1 /\ x["held"]["title"] = t["title"] /\ Full(x["held"])
      \/ request = "get"
  <2>1. request # "get" => Len(todo) = 1
    BY <1>1, ReadingSteps DEF Asked
  <2>2. QED
    BY <1>1, <2>1 DEF Reads, Asked, TypedCall
<1>7. CASE request = "export"
  <2> DEFINE body == t["body"]
             h == [x.held EXCEPT !["body"] = body]
             y == [x EXCEPT !["held"] = h]
  <2>1. q = Done(y)
    BY <1>7 DEF Answered
  <2>2. h["body"] = body /\ h["title"] = t["title"]
    <3>1. Full(x["held"]) /\ x["held"]["title"] = t["title"]
      BY <1>6, <1>7
    <3> HIDE DEF body
    <3>2. QED
      BY <3>1 DEF Full
  <2>7. "held" \in CallFields
    BY DEF CallFields
  <2> HIDE DEF h
  <2>3. SameBut(x, y, {"held"}) /\ y["held"] = h
    BY <1>1, <2>7, SetIs, Zenon
  <2> HIDE DEF y, q
  <2>4. IsCall(y) /\ y["todo"] = todo /\ y["op"] = "read" /\ y["item"] = i
    BY <2>3 DEF SameBut, CallFields
  <2>5. SameBut(y, q, {"pc", "todo"}) /\ q["pc"] = "done"
    BY <1>6, <1>7, <2>1, <2>4, DoneIs
  <2>6. q["op"] = "read" /\ q["item"] = i /\ q["held"] = h
    BY <2>3, <2>4, <2>5 DEF SameBut, CallFields
  <2>8. Correct(source, remote, c, q)
    BY <2>2, <2>6 DEF Correct
  <2>9. QED
    BY <1>4, <2>5, <2>8 DEF Goes, q
<1>8. CASE request = "blocks"
  <2> DEFINE n == x["pages"] + 1
             body == t["body"]
             taken == IF n <= Len(body) THEN Append(x["blocks"], body[n]) ELSE x["blocks"]
             more == n < Len(body) /\ n < BlockPages
  <2>1. q = TakeBlocks(x)
    BY <1>8 DEF Answered
  <2>2. BlocksTaken(x, q)
    BY <1>1, <2>1, TakeBlocksIs, Zenon
  <2> HIDE DEF q
  <2>3. /\ SameBut(x, q, {"pc", "todo", "held", "blocks", "pages"})
        /\ more => /\ q["pc"] = x["pc"] /\ q["todo"] = todo /\ q["held"] = x["held"]
                   /\ q["blocks"] = taken /\ q["pages"] = n
        /\ ~ more => q["held"] = [x["held"] EXCEPT !["body"] = taken]
        /\ ~ more /\ Len(todo) = 1 => q["pc"] = "done"
    BY <2>2 DEF BlocksTaken
  <2>4. q["op"] = "read" /\ q["item"] = i /\ q["before"] = x["before"]
    BY <2>3 DEF SameBut, CallFields
  <2>5. Leaf(body, x) /\ body \in Seq(Value) /\ x["pages"] \in 0..BlockPages /\ BlockPages \in Nat
    BY <1>1, <1>3, <1>8, SourceAssumption DEF Reads, Full, Asked, TypedCall
  <2>6. /\ n <= Len(body) => taken = SubSeq(body, 1, n) /\ Len(taken) = n
        /\ n >= Len(body) => taken = body
        /\ n \in Nat /\ Len(body) \in Nat
    <3> DEFINE p == x["pages"]
               blocks == x["blocks"]
    <3>1. p \in Nat /\ blocks = SubSeq(body, 1, p) /\ p = Len(blocks) /\ (p = 0 \/ p < Len(body))
      BY <2>5 DEF Leaf
    <3>2. n = p + 1 /\ taken = IF p + 1 <= Len(body) THEN Append(blocks, body[p + 1]) ELSE blocks
      OBVIOUS
    <3> HIDE DEF p, blocks, taken, n, body
    <3>3. /\ n <= Len(body) => taken = SubSeq(body, 1, n) /\ Len(taken) = n
          /\ n >= Len(body) => taken = body
      BY <2>5, <3>1, <3>2, LeafGrows, ZenonT(60)
    <3>4. n \in Nat /\ Len(body) \in Nat
      BY <2>5, <3>1, <3>2
    <3>5. QED
      BY <3>3, <3>4
  <2>7. Len(todo) = 1 /\ Full(x["held"]) /\ x["held"]["title"] = t["title"]
    BY <1>6, <1>8
  <2> HIDE DEF n, taken, body, more
  <2>8. CASE more
    <3>1. n < Len(body) /\ n <= Len(body)
      BY <2>6, <2>8 DEF more
    <3>2. Leaf(body, q)
      BY <2>3, <2>6, <2>8, <3>1 DEF Leaf
    <3>3. q["todo"] = todo /\ Head(todo) = "blocks" /\ q["pc"] = "running"
      BY <1>8, <2>3, <2>8 DEF Asked
    <3>4. Reads(source, remote, q)
      BY <1>3, <2>3, <2>4, <2>7, <2>8, <3>2, <3>3 DEF Reads, body
    <3>5. StateKept(remote, q)
      BY <1>1, <2>4 DEF StateKept
    <3>6. OnItsWay(source, remote, c, q)
      BY <2>4, <3>4, <3>5 DEF OnItsWay
    <3>7. QED
      BY <1>4, <3>3, <3>6 DEF Goes, q
  <2>9. CASE ~ more
    <3>1. q["pc"] = "done" /\ q["held"]["title"] = t["title"] /\ q["held"]["body"] = taken
      BY <2>3, <2>7, <2>9 DEF Full
    <3>2. taken = body \/ Len(body) > BlockPages
      <4> DEFINE m == Len(body)
      <4>1. m \in Nat /\ ~ (n < m /\ n < BlockPages) /\ (n >= m => taken = body)
        BY <2>6, <2>9 DEF more
      <4> HIDE DEF m
      <4>2. taken = body \/ m > BlockPages
        BY <2>5, <2>6, <4>1
      <4>3. QED
        BY <4>2 DEF m
    <3>3. Correct(source, remote, c, q)
      BY <2>4, <3>1, <3>2 DEF Correct, body
    <3>4. QED
      BY <1>4, <3>1, <3>3 DEF Goes, q
  <2>10. QED
    BY <2>8, <2>9
<1>9. QED
  BY <1>2, <1>5, <1>7, <1>8

(* Deleting. *)
LEMMA DeleteGoes ==
  ASSUME NEW c, NEW x, NEW request, Asked(c, x, request), x["op"] = "delete", Stocked(remote)
  PROVE  Goes(Effect(c, x, request), c, Answered(c, x, request))
<1> DEFINE i == x["item"]
           q == Answered(c, x, request)
           now == Effect(c, x, request)
<1>1. IsCall(x) /\ Len(x["todo"]) = 1
  BY DEF Asked, CallFine, OnItsWay
<1>2. request \in {"remove", "archive", "cancel"}
  <2> DEFINE op == x["op"]
  <2>1. MaySend(source, op, x["patch"], request) /\ op = "delete"
    BY WhoDrops DEF Sent, Asked
  <2> HIDE DEF op
  <2>2. QED
    BY <2>1 DEF MaySend
<1>3. i \in Item
  BY <1>2, AnsweredOk DEF Asked, Opens, There
<1>4. q = Done(x)
  BY <1>2 DEF Answered
<1> HIDE DEF q
<1>5. SameBut(x, q, {"pc", "todo"}) /\ q["pc"] = "done"
  BY <1>1, <1>4, DoneIs
<1>6. q["op"] = "delete" /\ q["item"] = i
  BY <1>5 DEF SameBut, CallFields
<1>7. now[i]["state"] # "live"
  <2> DEFINE u == IF request = "remove" THEN Absent ELSE [remote[i] EXCEPT !.state = "archived"]
  <2>1. now = [remote EXCEPT ![i] = u]
    BY <1>2 DEF Effect
  <2>2. IsThing(u) /\ u["state"] # "live"
    <3>1. CASE request = "remove"
      BY <3>1, ThingsAre
    <3>2. CASE request # "remove"
      BY <1>3, <3>2 DEF Stocked, IsThing, ThingFields
    <3>3. QED
      BY <3>1, <3>2
  <2> HIDE DEF u, now
  <2>3. now[i] = u
    BY <1>3, <2>1, <2>2, OneSet
  <2>4. QED
    BY <2>2, <2>3
<1> HIDE DEF now
<1>8. Correct(source, now, c, q)
  BY <1>6, <1>7 DEF Correct
<1>9. QED
  BY <1>5, <1>8 DEF Goes, q, now

(* A call after an answer that only ended its request. *)
Ended1(x, q, changed) ==
    /\ SameBut(x, q, {"pc", "todo"} \cup changed)
    /\ Len(x["todo"]) = 1 => q["pc"] = "done"
    /\ Len(x["todo"]) # 1 => q["pc"] = x["pc"] /\ q["todo"] = Tail(x["todo"])

LEMMA PlainEnds ==
  ASSUME NEW c, NEW x, IsCall(x), NEW request,
         request \notin {"get", "export", "blocks", "drop", "page", "post", "postTitle"}
  PROVE  Ended1(x, Answered(c, x, request), {})
<1>1. Answered(c, x, request) = Done(x)
  BY DEF Answered
<1>2. QED
  BY <1>1, DoneIs DEF Ended1

LEMMA PostEnds ==
  ASSUME NEW c, NEW x, IsCall(x), NEW request \in {"post", "postTitle"}
  PROVE  LET q == Answered(c, x, request) IN Ended1(x, q, {"item"}) /\ q["item"] = c
<1> DEFINE y == [x EXCEPT !["item"] = c]
           q == Answered(c, x, request)
<1>1. q = Done(y)
  BY DEF Answered
<1>2. "item" \in CallFields
  BY DEF CallFields
<1>3. SameBut(x, y, {"item"}) /\ y["item"] = c
  BY <1>2, SetIs, Zenon
<1> HIDE DEF y, q
<1>4. IsCall(y) /\ y["todo"] = x["todo"] /\ y["pc"] = x["pc"]
  BY <1>3 DEF SameBut, CallFields
<1>5. /\ SameBut(y, q, {"pc", "todo"})
      /\ Len(x["todo"]) = 1 => q["pc"] = "done"
      /\ Len(x["todo"]) # 1 => q["pc"] = x["pc"] /\ q["todo"] = Tail(x["todo"])
  BY <1>1, <1>4, DoneIs
<1>6. SameBut(x, q, {"pc", "todo", "item"}) /\ q["item"] = c
  BY <1>3, <1>5 DEF SameBut, CallFields
<1>7. {"pc", "todo"} \cup {"item"} = {"pc", "todo", "item"}
  OBVIOUS
<1>8. QED
  BY <1>5, <1>6, <1>7 DEF Ended1, q

LEMMA GetEnds ==
  ASSUME NEW c, NEW x, IsCall(x), x["item"] \in Item, Full(remote[x["item"]])
  PROVE  LET q == Answered(c, x, "get")
         IN  /\ Ended1(x, q, {"held"})
             /\ q["held"] = IF source = "drive" \/ (source = "notion" /\ Tail(x["todo"]) # <<>>)
                            THEN [remote[x["item"]] EXCEPT !["body"] = <<>>] ELSE remote[x["item"]]
<1> DEFINE y == Hold(x)
           q == Answered(c, x, "get")
           h == IF source = "drive" \/ (source = "notion" /\ Tail(x["todo"]) # <<>>)
                THEN [remote[x["item"]] EXCEPT !["body"] = <<>>] ELSE remote[x["item"]]
<1>1. q = Done(y)
  BY DEF Answered
<1>3. SameBut(x, y, {"held"}) /\ y["held"] = h
  BY HeldFull
<1> HIDE DEF y, q, h
<1>4. IsCall(y) /\ y["todo"] = x["todo"] /\ y["pc"] = x["pc"]
  BY <1>3 DEF SameBut, CallFields
<1>5. /\ SameBut(y, q, {"pc", "todo"})
      /\ Len(x["todo"]) = 1 => q["pc"] = "done"
      /\ Len(x["todo"]) # 1 => q["pc"] = x["pc"] /\ q["todo"] = Tail(x["todo"])
  BY <1>1, <1>4, DoneIs
<1>6. SameBut(x, q, {"pc", "todo", "held"}) /\ q["held"] = h
  BY <1>3, <1>5 DEF SameBut, CallFields
<1>7. {"pc", "todo"} \cup {"held"} = {"pc", "todo", "held"}
  OBVIOUS
<1>8. Ended1(x, q, {"held"}) /\ q["held"] = h
  BY <1>5, <1>6, <1>7 DEF Ended1
<1>9. QED
  BY <1>8 DEF q, h

(* What is left of a script after its first request. *)
LEMMA RestOf ==
  ASSUME NEW S, NEW todo \in Seq(S), todo # <<>>
  PROVE  /\ \A q : Has(todo, q) <=> Head(todo) = q \/ Has(Tail(todo), q)
         /\ Len(todo) = 1 => \A q : ~ Has(Tail(todo), q)
         /\ \A A : (\A k \in 1..(Len(todo) - 1) : todo[k] \notin A) =>
              /\ \A k \in 1..(Len(Tail(todo)) - 1) : Tail(todo)[k] \notin A
              /\ Head(todo) \in A => Len(todo) = 1
<1>1. \A q : Has(todo, q) <=> Head(todo) = q \/ Has(Tail(todo), q)
  BY HasFirst
<1>2. Len(todo) = 1 => \A q : ~ Has(Tail(todo), q)
  BY LastTail, HasNothing
<1>3. ASSUME NEW A, \A k \in 1..(Len(todo) - 1) : todo[k] \notin A
      PROVE  /\ \A k \in 1..(Len(Tail(todo)) - 1) : Tail(todo)[k] \notin A
             /\ Head(todo) \in A => Len(todo) = 1
  <2> DEFINE rest == Tail(todo)
             m == Len(todo)
  <2>1. m \in Nat /\ m # 0 /\ Len(rest) = m - 1 /\ Head(todo) = todo[1]
        /\ \A k \in 1..(m - 1) : rest[k] = todo[k + 1]
    BY HeadTailProperties
  <2>2. \A k \in 1..(m - 1) : todo[k] \notin A
    BY <1>3
  <2> HIDE DEF rest, m
  <2>3. \A k \in 1..(Len(rest) - 1) : rest[k] \notin A
    <3> TAKE k \in 1..(Len(rest) - 1)
    <3>1. k \in 1..(m - 1) /\ k + 1 \in 1..(m - 1)
      BY <2>1
    <3>2. QED
      BY <2>1, <2>2, <3>1
  <2>4. Head(todo) \in A => m = 1
    <3> SUFFICES ASSUME Head(todo) \in A, m # 1 PROVE FALSE
      OBVIOUS
    <3>1. 1 \in 1..(m - 1)
      BY <2>1
    <3>2. QED
      BY <2>1, <2>2, <3>1
  <2>5. QED
    BY <2>3, <2>4 DEF rest, m
<1>4. QED
  BY <1>1, <1>2, <1>3

(* Creating. *)
LEMMA CreateGoes ==
  ASSUME NEW c \in Caller, NEW x, NEW request, Asked(c, x, request), x["op"] = "create", Stocked(remote),
         \A i \in Item : Full(remote[i])
  PROVE  Goes(Effect(c, x, request), c, Answered(c, x, request))
<1> DEFINE todo == x["todo"]
           rest == Tail(todo)
           q == Answered(c, x, request)
           now == Effect(c, x, request)
           S == Sent(source, x["op"], x["patch"])
           t == remote[c]
<1>1. /\ IsCall(x) /\ todo \in Seq(S) /\ todo # <<>> /\ Creates(remote, c, x) /\ x["pc"] = "running"
      /\ request = Head(todo)
  BY DEF Asked, CallFine, OnItsWay, Busy
<1>2. request \in {"lookup", "post", "get", "postTitle", "upload"}
  <2> DEFINE op == x["op"]
  <2>1. MaySend(source, op, x["patch"], request) /\ op = "create"
    BY WhoDrops DEF Sent, Asked
  <2> HIDE DEF op
  <2>2. QED
    BY <2>1 DEF MaySend
<1>3. c \in Item /\ IsThing(t)
  BY ItemsAreFinite DEF Stocked
<1>4. /\ \A p : Has(todo, p) <=> request = p \/ Has(rest, p)
      /\ Len(todo) = 1 => \A p : ~ Has(rest, p)
      /\ \A k \in 1..(Len(rest) - 1) : rest[k] \notin {"get", "upload"}
      /\ request \in {"get", "upload"} => Len(todo) = 1
  <2>1. \A k \in 1..(Len(todo) - 1) : todo[k] \notin {"get", "upload"}
    BY <1>1 DEF Creates
  <2> HIDE DEF todo, rest
  <2>2. /\ \A p : Has(todo, p) <=> Head(todo) = p \/ Has(Tail(todo), p)
        /\ Len(todo) = 1 => \A p : ~ Has(Tail(todo), p)
        /\ \A A : (\A k \in 1..(Len(todo) - 1) : todo[k] \notin A) =>
              /\ \A k \in 1..(Len(Tail(todo)) - 1) : Tail(todo)[k] \notin A
              /\ Head(todo) \in A => Len(todo) = 1
    BY <1>1, RestOf
  <2>3. QED
    BY <1>1, <2>1, <2>2 DEF rest
<1>5. /\ Has(todo, "post") => ~ Has(todo, "upload")
      /\ Has(todo, "postTitle") => (Has(todo, "upload") <=> x["body"])
      /\ ~ Has(todo, "post") /\ ~ Has(todo, "postTitle") =>
           /\ x["item"] = c /\ t["state"] = "live" /\ t["title"] = c
           /\ IF Has(todo, "upload") THEN x["body"] ELSE t["body"] = IF x["body"] THEN <<c>> ELSE <<>>
  BY <1>1 DEF Creates
<1> DEFINE changed == IF request \in {"post", "postTitle"} THEN {"item"}
                      ELSE IF request = "get" THEN {"held"} ELSE {}
<1>6. Ended1(x, q, changed) /\ (request \in {"post", "postTitle"} => q["item"] = c)
  <2>1. CASE request \in {"post", "postTitle"}
    BY <1>1, <2>1, PostEnds
  <2>2. CASE request = "get"
    <3>1. Len(todo) = 1 /\ ~ Has(todo, "post") /\ ~ Has(todo, "postTitle")
      BY <1>4, <2>2
    <3>2. x["item"] \in Item /\ Full(remote[x["item"]])
      BY <1>3, <1>5, <3>1
    <3>3. QED
      BY <1>1, <2>2, <3>2, GetEnds
  <2>3. CASE request \in {"lookup", "upload"}
    BY <1>1, <2>3, PlainEnds
  <2>4. QED
    BY <1>2, <2>1, <2>2, <2>3
<1>7. /\ Len(todo) = 1 => q["pc"] = "done"
      /\ Len(todo) # 1 => q["pc"] = "running" /\ q["todo"] = rest
      /\ q["op"] = "create" /\ q["body"] = x["body"]
      /\ request \notin {"post", "postTitle"} => q["item"] = x["item"]
  <2> HIDE DEF q
  <2>1. QED
    BY <1>1, <1>6 DEF Ended1, SameBut, CallFields
<1> DEFINE u == now[c]
(* What of the thing is made. *)
<1>8. /\ request \in {"post", "postTitle"} =>
           /\ u["state"] = "live" /\ u["title"] = c
           /\ u["body"] = IF request = "post" /\ x["body"] THEN <<c>> ELSE <<>>
      /\ request = "upload" => /\ x["item"] = c => /\ u["title"] = t["title"] /\ u["body"] = <<c>>
      /\ request \in {"lookup", "get"} => u = t
  <2>1. CASE request \in {"post", "postTitle"}
    <3> DEFINE v == Thing(c, IF request = "post" /\ x.body THEN <<c>> ELSE <<>>)
    <3>1. now = [remote EXCEPT ![c] = v]
      BY <2>1 DEF Effect
    <3>2. IsThing(v) /\ v["state"] = "live" /\ v["title"] = c
          /\ v["body"] = IF request = "post" /\ x["body"] THEN <<c>> ELSE <<>>
      <4>1. IsThing(v)
        BY ThingsAre
      <4>2. QED
        BY <4>1 DEF Thing
    <3> HIDE DEF v, now
    <3>3. now[c] = v
      BY <1>3, <3>1, <3>2, OneSet
    <3>4. QED
      BY <2>1, <3>2, <3>3
  <2>2. CASE request = "upload"
    <3> SUFFICES ASSUME x["item"] = c PROVE u["title"] = t["title"] /\ u["body"] = <<c>>
      BY <2>2
    <3> DEFINE v == [t EXCEPT !["body"] = <<c>>]
    <3>1. now = [remote EXCEPT ![c] = v]
      BY <2>2 DEF Effect
    <3>2. IsThing(v)
      BY <1>3, FieldSet DEF Field
    <3>4. v["body"] = <<c>> /\ v["title"] = t["title"]
      BY <1>3 DEF IsThing, ThingFields
    <3> HIDE DEF v, now
    <3>3. now[c] = v
      BY <1>3, <3>1, <3>2, OneSet
    <3>5. QED
      BY <3>3, <3>4
  <2>3. CASE request \in {"lookup", "get"}
    <3>1. now = remote
      BY <2>3 DEF Effect
    <3>2. QED
      BY <2>3, <3>1
  <2>4. QED
    BY <1>2, <2>1, <2>2, <2>3
<1> HIDE DEF q, now, u, rest, todo, t
<1>9. ASSUME Len(todo) = 1
      PROVE  u["title"] = c /\ u["body"] = IF x["body"] THEN <<c>> ELSE <<>>
  <2>1. \A p : Has(todo, p) <=> request = p
    BY <1>4, <1>9
  <2>2. QED
    BY <1>2, <1>5, <1>8, <2>1
<1>10. ASSUME Len(todo) # 1
       PROVE  Creates(now, c, q)
  <2>1. q["todo"] = rest /\ request \in {"lookup", "post", "postTitle"}
    BY <1>2, <1>4, <1>7, <1>10
  <2>2. \A k \in 1..(Len(rest) - 1) : rest[k] \notin {"get", "upload"}
    BY <1>4
  <2>3. Has(rest, "upload") <=> Has(todo, "upload")
    BY <1>4, <2>1
  <2>4. (Has(rest, "post") => Has(todo, "post")) /\ (Has(rest, "postTitle") => Has(todo, "postTitle"))
    BY <1>4
  <2>5. Has(rest, "post") => ~ Has(rest, "upload")
    BY <1>5, <2>3, <2>4
  <2>6. Has(rest, "postTitle") => (Has(rest, "upload") <=> x["body"])
    BY <1>5, <2>3, <2>4
  <2>7. ASSUME ~ Has(rest, "post"), ~ Has(rest, "postTitle")
        PROVE  /\ q["item"] = c /\ u["state"] = "live" /\ u["title"] = c
               /\ IF Has(rest, "upload") THEN x["body"]
                  ELSE u["body"] = IF x["body"] THEN <<c>> ELSE <<>>
    <3>1. CASE request = "lookup"
      <4>1. ~ Has(todo, "post") /\ ~ Has(todo, "postTitle")
        BY <1>4, <2>7, <3>1
      <4>2. u = t /\ q["item"] = x["item"]
        BY <1>7, <1>8, <3>1
      <4>3. QED
        BY <1>5, <2>3, <4>1, <4>2
    <3>2. CASE request = "post"
      <4>1. ~ Has(rest, "upload")
        BY <1>4, <1>5, <2>3, <3>2
      <4>2. QED
        BY <1>6, <1>8, <3>2, <4>1
    <3>3. CASE request = "postTitle"
      <4>1. Has(rest, "upload") <=> x["body"]
        BY <1>4, <1>5, <2>3, <3>3
      <4>2. QED
        BY <1>6, <1>8, <3>3, <4>1
    <3>4. QED
      BY <2>1, <3>1, <3>2, <3>3
  <2>8. QED
    BY <1>7, <2>1, <2>2, <2>5, <2>6, <2>7 DEF Creates, u
<1>11. CASE Len(todo) = 1
  <2>1. Correct(source, now, c, q)
    BY <1>7, <1>9, <1>11 DEF Correct, u
  <2>2. QED
    BY <1>7, <1>11, <2>1 DEF Goes, q, now
<1>12. CASE Len(todo) # 1
  <2>1. OnItsWay(source, now, c, q)
    BY <1>7, <1>10, <1>12 DEF OnItsWay
  <2>2. QED
    BY <1>7, <1>12, <2>1 DEF Goes, q, now
<1>13. QED
  BY <1>11, <1>12

-----------------------------------------------------------------------------
(* What a request of an update writes. *)
WrittenBy(request) ==
    CASE request \in {"put", "putNext"} -> Field
      [] request = "rename" -> {"title"}
      [] request \in {"upload", "append"} -> {"body"}
      [] OTHER -> {}

(* The fields of thing t that a request writes are so in u, and no other changed. *)
WritesIt(c, x, request, t, u) ==
    /\ u["state"] = t["state"]
    /\ \A f \in Field :
         IF f \in x["patch"] \cap Takes(source) \cap WrittenBy(request)
         THEN u[f] = New(c, f) \/ (f = "body" /\ Long(x)) ELSE u[f] = t[f]

(* What is left to be written, one request later. *)
LEMMA LessLeft ==
  ASSUME NEW x, NEW q, NEW S, x["todo"] \in Seq(S), x["todo"] # <<>>, NEW request,
         request = Head(x["todo"]), q["patch"] = x["patch"]
  PROVE  /\ q["todo"] = Tail(x["todo"]) => Left(source, x) \ WrittenBy(request) \subseteq Left(source, q)
         /\ Len(x["todo"]) = 1 => Left(source, x) \subseteq WrittenBy(request)
<1> DEFINE todo == x["todo"]
           rest == Tail(todo)
<1>1. /\ \A p : Has(todo, p) <=> request = p \/ Has(rest, p)
      /\ Len(todo) = 1 => \A p : ~ Has(rest, p)
  <2> HIDE DEF todo
  <2>1. todo \in Seq(S) /\ todo # <<>> /\ request = Head(todo)
    BY DEF todo
  <2>2. QED
    BY <2>1, RestOf
<1> HIDE DEF rest
<1>2. ASSUME NEW f \in Left(source, x), f \notin WrittenBy(request)
      PROVE  /\ f \in x["patch"] \cap Takes(source)
             /\ \/ Has(rest, "put") \/ Has(rest, "putNext")
                \/ f = "title" /\ Has(rest, "rename")
                \/ f = "body" /\ (Has(rest, "upload") \/ Has(rest, "append"))
  <2>1. /\ f \in x["patch"] \cap Takes(source)
        /\ \/ Has(todo, "put") \/ Has(todo, "putNext")
           \/ f = "title" /\ Has(todo, "rename")
           \/ f = "body" /\ (Has(todo, "upload") \/ Has(todo, "append"))
    BY <1>2 DEF Left
  <2>2. f \in Field
    BY <2>1 DEF Takes, Field
  <2>3. /\ request \notin {"put", "putNext"}
        /\ request = "rename" => f # "title"
        /\ request \in {"upload", "append"} => f # "body"
    BY <1>2, <2>2 DEF WrittenBy
  <2> HIDE DEF todo
  <2>4. QED
    BY <1>1, <2>1, <2>3
<1>3. ASSUME q["todo"] = Tail(x["todo"])
      PROVE  Left(source, x) \ WrittenBy(request) \subseteq Left(source, q)
  <2>1. q["todo"] = rest
    BY <1>3 DEF rest
  <2>2. QED
    BY <1>2, <2>1 DEF Left
<1>4. ASSUME Len(x["todo"]) = 1
      PROVE  Left(source, x) \subseteq WrittenBy(request)
  BY <1>1, <1>2, <1>4
<1>5. QED
  BY <1>3, <1>4

(* What was to be written is written, or left. *)
LEMMA WrittenGoes ==
  ASSUME NEW c, NEW x, NEW q, NEW request, NEW t, NEW u, Written(source, t, c, x),
         WritesIt(c, x, request, t, u), q["patch"] = x["patch"], q["before"] = x["before"],
         NEW L, Left(source, x) \ WrittenBy(request) \subseteq L
  PROVE  \A f \in Field \ L : u[f] = Due(source, c, q, f) \/ (f = "body" /\ Long(q))
<1> SUFFICES ASSUME NEW f \in Field \ L
             PROVE  u[f] = Due(source, c, q, f) \/ (f = "body" /\ Long(q))
  OBVIOUS
<1>1. Due(source, c, q, f) = Due(source, c, x, f) /\ (Long(q) <=> Long(x))
  BY DEF Due, Long
<1>2. CASE f \in x["patch"] \cap Takes(source) \cap WrittenBy(request)
  <2>1. u[f] = New(c, f) \/ (f = "body" /\ Long(x))
    BY <1>2 DEF WritesIt
  <2>2. Due(source, c, x, f) = New(c, f)
    BY <1>2 DEF Due
  <2>3. QED
    BY <1>1, <2>1, <2>2
<1>3. CASE f \notin x["patch"] \cap Takes(source) \cap WrittenBy(request)
  <2>1. u[f] = t[f]
    BY <1>3 DEF WritesIt
  <2>2. f \notin Left(source, x)
    <3>1. Left(source, x) \subseteq x["patch"] \cap Takes(source)
      BY DEF Left
    <3>2. QED
      BY <1>3, <3>1
  <2>3. t[f] = Due(source, c, x, f) \/ (f = "body" /\ Long(x))
    BY <2>2 DEF Written
  <2>4. QED
    BY <1>1, <2>1, <2>3
<1>4. QED
  BY <1>2, <1>3

(* A put writes the fields of the patch that the source has. *)
LEMMA PutWrites ==
  ASSUME source \in Source, source \notin {"teams", "calendly", "code"}, NEW patch \in SUBSET Field,
         source = "slack" => "body" \in patch, source = "calcom" => "other" \in patch
  PROVE  /\ \A f \in patch : f \in Writes(source, patch) <=> f \in Takes(source)
         /\ source \notin {"confluence", "discussion"} => Writes(source, patch) \subseteq patch
         /\ source \in {"confluence", "discussion"} => Writes(source, patch) = {"title", "body"}
<1>1. CASE source \in {"memory", "notion", "drive", "slack", "calendar", "calcom"}
  BY <1>1 DEF Writes, Takes, Field, NotionWrites, DriveWrites, SlackWrites, CalendarWrites, CalcomWrites
<1>2. CASE source \in {"jira", "issue", "discussion", "project", "confluence"}
  BY <1>2 DEF Writes, Takes, Field, JiraWrites, IssueWrites, DiscussionWrites, ProjectWrites,
              ConfluenceWrites
<1>3. QED
  BY <1>1, <1>2, SourceAssumption

LEMMA PatchedWrites ==
  ASSUME source \in Source, source \notin {"teams", "calendly", "code"}, NEW x, x["patch"] \subseteq Field,
         source = "slack" => "body" \in x["patch"], source = "calcom" => "other" \in x["patch"],
         NEW t, IsThing(t), NEW c,
         source \in {"confluence", "discussion"} => \A f \in {"title", "body"} : x["held"][f] = t[f],
         NEW request \in {"put", "putNext"}
  PROVE  WritesIt(c, x, request, t, Patched(t, c, x))
<1> DEFINE sets == Writes(source, x["patch"])
           patch == x["patch"]
           value(f) == IF f \in patch THEN New(c, f) ELSE x.held[f]
           title == IF "title" \in sets THEN value("title") ELSE t.title
           body == IF "body" \in sets THEN value("body") ELSE t.body
           other == IF "other" \in sets THEN value("other") ELSE t.other
           version == t.version + 1
           u == [t EXCEPT !.title = title, !.body = body, !.other = other, !.version = version]
<1>1. Patched(t, c, x) = u
  BY DEF Patched
<1>2. /\ \A f \in patch : f \in sets <=> f \in Takes(source)
      /\ source \notin {"confluence", "discussion"} => sets \subseteq patch
      /\ source \in {"confluence", "discussion"} => sets = {"title", "body"}
  BY PutWrites
<1>3. \A f \in sets : f \notin patch => x.held[f] = t[f]
  BY <1>2
<1>4. WrittenBy(request) = Field
  BY DEF WrittenBy
<1> HIDE DEF sets, patch
<1>5. ASSUME NEW f \in Field
      PROVE  (IF f \in sets THEN value(f) ELSE t[f]) =
               IF f \in patch \cap Takes(source) THEN New(c, f) ELSE t[f]
  <2>1. CASE f \in patch
    BY <1>2, <2>1
  <2>2. CASE f \notin patch
    BY <1>3, <2>2
  <2>3. QED
    BY <2>1, <2>2
<1>6. /\ title = IF "title" \in patch \cap Takes(source) THEN New(c, "title") ELSE t["title"]
      /\ body = IF "body" \in patch \cap Takes(source) THEN New(c, "body") ELSE t["body"]
      /\ other = IF "other" \in patch \cap Takes(source) THEN New(c, "other") ELSE t["other"]
  BY <1>5 DEF Field
<1> HIDE DEF title, body, other, value
<1>7. u["state"] = t["state"] /\ u["title"] = title /\ u["body"] = body /\ u["other"] = other
  <2> HIDE DEF version
  <2>1. u = [f \in ThingFields |-> IF f = "title" THEN title ELSE IF f = "body" THEN body
                                   ELSE IF f = "other" THEN other
                                   ELSE IF f = "version" THEN version ELSE t[f]]
    BY DEF IsThing, ThingFields
  <2> HIDE DEF u
  <2>2. QED
    BY <2>1 DEF ThingFields
<1> HIDE DEF u
<1>8. \A f \in Field : u[f] = IF f \in patch \cap Takes(source) THEN New(c, f) ELSE t[f]
  BY <1>6, <1>7 DEF Field
<1>9. WritesIt(c, x, request, t, u)
  BY <1>4, <1>7, <1>8 DEF WritesIt, patch
<1>10. QED
  BY <1>1, <1>9

(* What a request of an update does to its resource. *)
LEMMA UpdateWrites ==
  ASSUME source \in Source, Stocked(remote), \A i \in Item : Full(remote[i]),
         NEW c, NEW x, x["item"] \in Item, x["patch"] \subseteq Field,
         NEW request \in {"get", "blocks", "put", "putNext", "rename", "upload", "append"},
         MaySend(source, "update", x["patch"], request),
         source \notin {"teams", "calendly", "code"},
         source \in {"confluence", "discussion"} /\ request \in {"put", "putNext"} =>
           \A f \in {"title", "body"} : x["held"][f] = remote[x["item"]][f],
         request = "append" => Long(x) \/ remote[x["item"]]["body"] = <<>>
  PROVE  /\ WritesIt(c, x, request, remote[x["item"]], Effect(c, x, request)[x["item"]])
         /\ request \in {"get", "blocks"} => Effect(c, x, request) = remote
         /\ request = "rename" => Effect(c, x, request)[x["item"]]["body"] = remote[x["item"]]["body"]
<1> DEFINE i == x["item"]
           t == remote[i]
           now == Effect(c, x, request)
           u == now[i]
<1>1. IsThing(t) /\ Full(t)
  BY DEF Stocked
<1>2. CASE request \in {"get", "blocks"}
  <2>1. now = remote
    BY <1>2 DEF Effect
  <2>2. WrittenBy(request) = {}
    BY <1>2 DEF WrittenBy
  <2> HIDE DEF now
  <2>3. WritesIt(c, x, request, t, u)
    BY <2>1, <2>2 DEF WritesIt
  <2>4. QED
    BY <1>2, <2>1, <2>3 DEF now
<1>3. CASE request \in {"put", "putNext"}
  <2> DEFINE v == Patched(t, c, x)
  <2>1. source = "slack" => "body" \in x["patch"]
    BY <1>3 DEF MaySend
  <2>2. source = "calcom" => "other" \in x["patch"]
    BY <1>3 DEF MaySend
  <2>3. source \in {"confluence", "discussion"} => \A f \in {"title", "body"} : x["held"][f] = t[f]
    BY <1>3
  <2>4. now = [remote EXCEPT ![i] = v]
    BY <1>3 DEF Effect
  <2> HIDE DEF t
  <2>5. IsThing(v)
    BY <1>1, PatchedThing
  <2>6. WritesIt(c, x, request, t, v)
    BY <1>1, <1>3, <2>1, <2>2, <2>3, PatchedWrites
  <2> HIDE DEF v, now
  <2>7. u = v
    BY <2>4, <2>5, OneSet
  <2>8. QED
    BY <1>3, <2>6, <2>7 DEF t, now
<1>4. CASE request \in {"rename", "upload", "append"}
  <2> DEFINE f == IF request = "rename" THEN "title" ELSE "body"
             w == IF request = "rename" THEN c ELSE IF request = "upload" THEN <<c>>
                  ELSE Append(t["body"], c)
             v == [t EXCEPT ![f] = w]
  <2>1. now = [remote EXCEPT ![i] = v]
    BY <1>4 DEF Effect
  <2>2. f \in Field /\ f \in x["patch"] /\ f \in Takes(source) /\ WrittenBy(request) = {f}
    <3>1. f \in x["patch"] /\ source \in {"notion", "drive"}
      BY <1>4 DEF MaySend
    <3>2. Takes(source) = {"title", "body"}
      BY <3>1 DEF Takes
    <3>3. QED
      BY <1>4, <3>1, <3>2 DEF Field, WrittenBy
  <2>3. w = New(c, f) \/ (f = "body" /\ Long(x))
    <3>1. CASE request = "append"
      <4>1. ASSUME t["body"] = <<>>
            PROVE  w = <<c>>
        <5>1. w = Append(<<>>, c)
          BY <3>1, <4>1
        <5>2. Append(<<>>, c) = <<c>>
          OBVIOUS
        <5>3. QED
          BY <5>1, <5>2
      <4>2. New(c, "body") = <<c>> /\ f = "body"
        BY <3>1 DEF New
      <4> HIDE DEF f, w
      <4>3. QED
        BY <3>1, <4>1, <4>2
    <3>2. CASE request # "append"
      BY <1>4, <3>2 DEF New
    <3>3. QED
      BY <3>1, <3>2
  <2>4. request = "rename" => f = "title"
    OBVIOUS
  <2> HIDE DEF f, w
  <2>5. v = [g \in ThingFields |-> IF g = f THEN w ELSE t[g]]
    BY <1>1 DEF IsThing, ThingFields
  <2> HIDE DEF v
  <2>6. /\ IsThing(v) /\ v["state"] = t["state"] /\ v[f] = w
        /\ \A g \in Field : g # f => v[g] = t[g]
    BY <1>1, <2>2, <2>5 DEF IsThing, ThingFields, Field
  <2>7. WritesIt(c, x, request, t, v)
    BY <2>2, <2>3, <2>6 DEF WritesIt
  <2> HIDE DEF now, t
  <2>8. u = v
    BY <2>1, <2>6, OneSet
  <2>9. request = "rename" => v["body"] = t["body"]
    BY <2>4, <2>6 DEF Field
  <2>10. QED
    BY <1>4, <2>7, <2>8, <2>9 DEF now, t
<1>5. QED
  BY <1>2, <1>3, <1>4

-----------------------------------------------------------------------------
(* What is so of an update while it runs. *)
LEMMA UpdateIs ==
  ASSUME source \in Source, Stocked(remote), \A i \in Item : Full(remote[i]),
         NEW c, NEW x, NEW request, Asked(c, x, request), x["op"] = "update"
  PROVE  /\ IsCall(x) /\ x["pc"] = "running" /\ request = Head(x["todo"])
         /\ x["todo"] \in Seq(Requests) /\ x["todo"] # <<>>
         /\ StateKept(remote, x) /\ x["item"] \in Item /\ x["patch"] \subseteq Field
         /\ IsThing(remote[x["item"]]) /\ Full(remote[x["item"]])
         /\ request \in {"get", "blocks", "put", "putNext", "rename", "upload", "append", "drop"}
         /\ MaySend(source, "update", x["patch"], request)
         /\ source \notin {"teams", "calendly", "code"}
         /\ Written(source, remote[x["item"]], c, x)
         /\ source = "notion" => Rewriting(remote[x["item"]], x) /\ x["todo"] \in NotionUpdates
         /\ request \in {"blocks", "drop", "append"} => source = "notion"
         /\ source = "confluence" => x["todo"] \in {<<"get", "putNext">>, <<"putNext">>}
         /\ source = "discussion" => x["todo"] \in {<<"get", "put">>, <<"put">>}
         /\ source \in {"confluence", "discussion"} /\ request \in {"put", "putNext"} =>
              \A f \in {"title", "body", "version"} : x["held"][f] = remote[x["item"]][f]
         /\ Counted(x)
<1> DEFINE todo == x["todo"]
           patch == x["patch"]
<1>1. /\ IsCall(x) /\ x["pc"] = "running" /\ request = Head(todo) /\ TypedCall(source, x)
      /\ StateKept(remote, x) /\ Updates(source, remote, c, x)
      /\ todo \in Seq(Sent(source, "update", patch)) /\ todo # <<>>
      /\ source = "confluence" => todo \in {<<"get", "putNext">>, <<"putNext">>}
  BY DEF Asked, CallFine, OnItsWay, Busy
<1>2. MaySend(source, "update", patch, request) /\ request \in Requests
  BY WhoDrops DEF Sent, Asked
<1>3. /\ request \in {"get", "blocks", "put", "putNext", "rename", "upload", "append", "drop"}
      /\ request \in {"blocks", "drop", "append"} => source = "notion"
  <2> HIDE DEF patch
  <2>1. QED
    BY <1>2 DEF MaySend
<1>4. todo \in Seq(Requests)
  <2> HIDE DEF todo, patch
  <2>1. Sent(source, "update", patch) \subseteq Requests
    BY DEF Sent
  <2>2. Seq(Sent(source, "update", patch)) \subseteq Seq(Requests)
    BY <2>1
  <2>3. QED
    BY <1>1, <2>2
<1>5. x["item"] \in Item
  <2>1. request \notin Opens
    BY <1>3 DEF Opens
  <2>2. There(x["item"])
    BY <2>1, AnsweredOk DEF Asked
  <2>3. QED
    BY <2>2 DEF There
<1>6. patch \subseteq Field /\ Counted(x) /\ (source = "notion" => todo \in NotionUpdates)
  BY <1>1 DEF TypedCall
<1>7. /\ source \notin {"teams", "calendly", "code"} /\ Written(source, remote[x["item"]], c, x)
      /\ source = "notion" => Rewriting(remote[x["item"]], x)
      /\ source = "discussion" => todo \in {<<"get", "put">>, <<"put">>}
      /\ source \in {"confluence", "discussion"} /\ request \in {"put", "putNext"} =>
           \A f \in {"title", "body", "version"} : x["held"][f] = remote[x["item"]][f]
  <2> HIDE DEF patch
  <2>1. QED
    BY <1>1, <1>5 DEF Updates
<1>8. IsThing(remote[x["item"]])
  BY <1>5 DEF Stocked
<1>9. QED
  BY <1>1, <1>2, <1>3, <1>4, <1>5, <1>6, <1>7, <1>8

(* An update goes on, or is made. *)
LEMMA UpdateGoesOn ==
  ASSUME NEW c, NEW x, NEW q, NEW now, x["op"] = "update", x["item"] \in Item, StateKept(remote, x),
         SameBut(x, q, {"pc", "todo", "held", "blocks", "pages"}),
         now[x["item"]]["state"] = remote[x["item"]]["state"],
         source \notin {"teams", "calendly", "code"},
         q["pc"] \in {"done", "running"},
         q["pc"] = "done" => \A f \in Field : now[x["item"]][f] = Due(source, c, q, f) \/ (f = "body" /\ Long(q)),
         q["pc"] = "running" =>
           /\ Written(source, now[x["item"]], c, q)
           /\ source = "discussion" => q["todo"] \in {<<"get", "put">>, <<"put">>}
           /\ source \in {"confluence", "discussion"} /\ Head(q["todo"]) \in {"put", "putNext"} =>
                \A f \in {"title", "body", "version"} : q["held"][f] = now[x["item"]][f]
           /\ source = "notion" => Rewriting(now[x["item"]], q)
  PROVE  Goes(now, c, q)
<1>1. q["op"] = "update" /\ q["item"] = x["item"] /\ q["before"] = x["before"]
  BY DEF SameBut, CallFields
<1>2. ASSUME q["pc"] = "done"
      PROVE  Correct(source, now, c, q)
  BY <1>1, <1>2 DEF Correct
<1>3. ASSUME q["pc"] = "running"
      PROVE  OnItsWay(source, now, c, q)
  <2>1. StateKept(now, q)
    BY <1>1 DEF StateKept
  <2>2. Updates(source, now, c, q)
    BY <1>1, <1>3 DEF Updates
  <2>3. QED
    BY <1>1, <2>1, <2>2 DEF OnItsWay
<1>4. QED
  BY <1>2, <1>3 DEF Goes

(* A page is rewritten: a request that leaves its body, or ends it. *)
LEMMA RewritingGoes ==
  ASSUME NEW x, NEW q, NEW t, NEW u, x["todo"] \in NotionUpdates, x["todo"] \in Seq(Requests),
         x["todo"] # <<>>, Len(x["todo"]) # 1,
         Head(x["todo"]) \in {"get", "rename", "append"}, Rewriting(t, x),
         Head(x["todo"]) # "append" => u["body"] = t["body"],
         t["body"] \in Seq(Value),
         q["todo"] = Tail(x["todo"]), q["blocks"] = x["blocks"], q["pages"] = x["pages"],
         q["before"] = x["before"]
  PROVE  Rewriting(u, q)
<1> DEFINE todo == x["todo"]
           rest == Tail(todo)
<1>1. /\ Head(todo) \in {"get", "rename"} => Head(rest) \in {"get", "rename", "blocks"}
      /\ Head(todo) = "append" => rest = <<"get", "blocks">> /\ ~ Has(todo, "drop")
  BY NotionSteps
<1>2. \A p : Has(todo, p) <=> Head(todo) = p \/ Has(rest, p)
  <2> HIDE DEF todo
  <2>1. todo \in Seq(Requests) /\ todo # <<>>
    BY DEF todo
  <2>2. QED
    BY <2>1, RestOf
<1>3. Head(<<"get", "blocks">>) = "get"
  OBVIOUS
<1> HIDE DEF rest
<1>4. q["todo"] = rest
  BY DEF rest
<1>5. CASE Head(todo) = "append"
  <2>1. Head(rest) = "get" /\ ~ Has(rest, "drop")
    BY <1>1, <1>2, <1>3, <1>5
  <2>2. QED
    BY <1>4, <2>1 DEF Rewriting
<1>6. CASE Head(todo) \in {"get", "rename"}
  <2>1. Head(rest) \in {"get", "rename", "blocks"} /\ (Has(rest, "drop") => Has(todo, "drop"))
    BY <1>1, <1>2, <1>6
  <2>2. u["body"] = t["body"]
    BY <1>6
  <2>3. Has(rest, "drop") => /\ t["body"] = x["before"]["body"] /\ x["pages"] = 0 /\ x["blocks"] = <<>>
    BY <1>6, <2>1 DEF Rewriting
  <2>4. Has(rest, "drop") => Leaf(t["body"], q)
    <3> DEFINE body == t["body"]
    <3>1. body \in Seq(Value)
      OBVIOUS
    <3>2. SubSeq(body, 1, 0) = <<>> /\ Len(<<>>) = 0
      BY <3>1
    <3> HIDE DEF body
    <3>3. Has(rest, "drop") => Leaf(body, q)
      BY <2>3, <3>2 DEF Leaf
    <3>4. QED
      BY <3>3 DEF body
  <2> HIDE DEF todo
  <2>5. QED
    BY <1>4, <2>1, <2>2, <2>3, <2>4 DEF Rewriting
<1>7. QED
  BY <1>5, <1>6

(* A request of an update that is answered whole. *)
LEMMA PlainUpdateGoes ==
  ASSUME source \in Source, Stocked(remote), \A i \in Item : Full(remote[i]),
         NEW c, NEW x, NEW request, Asked(c, x, request), x["op"] = "update",
         request \notin {"blocks", "drop"}
  PROVE  Goes(Effect(c, x, request), c, Answered(c, x, request))
<1> DEFINE i == x["item"]
           todo == x["todo"]
           rest == Tail(todo)
           t == remote[i]
           now == Effect(c, x, request)
           u == now[i]
           q == Answered(c, x, request)
<1>1. /\ IsCall(x) /\ x["pc"] = "running" /\ request = Head(todo)
      /\ todo \in Seq(Requests) /\ todo # <<>>
      /\ StateKept(remote, x) /\ i \in Item /\ x["patch"] \subseteq Field
      /\ IsThing(t) /\ Full(t)
      /\ request \in {"get", "put", "putNext", "rename", "upload", "append"}
      /\ MaySend(source, "update", x["patch"], request)
      /\ source \notin {"teams", "calendly", "code"}
      /\ Written(source, t, c, x)
      /\ source = "notion" => Rewriting(t, x) /\ todo \in NotionUpdates
      /\ request = "append" => source = "notion"
  BY UpdateIs
<1>2. /\ source = "confluence" => todo \in {<<"get", "putNext">>, <<"putNext">>}
      /\ source = "discussion" => todo \in {<<"get", "put">>, <<"put">>}
      /\ source \in {"confluence", "discussion"} /\ request \in {"put", "putNext"} =>
           \A f \in {"title", "body", "version"} : x["held"][f] = t[f]
  BY UpdateIs
<1>3. request = "append" => Long(x) \/ t["body"] = <<>>
  BY <1>1 DEF Rewriting
<1>4. /\ WritesIt(c, x, request, t, u)
      /\ request = "get" => now = remote
      /\ request = "rename" => u["body"] = t["body"]
  BY <1>1, <1>2, <1>3, UpdateWrites
<1> DEFINE changed == IF request = "get" THEN {"held"} ELSE {}
           h == IF source = "drive" \/ (source = "notion" /\ rest # <<>>)
                THEN [t EXCEPT !["body"] = <<>>] ELSE t
<1>5. Ended1(x, q, changed) /\ (request = "get" => q["held"] = h)
  <2>1. CASE request = "get"
    <3>1. changed = {"held"} /\ q = Answered(c, x, "get")
      BY <2>1
    <3> HIDE DEF changed, q
    <3>2. QED
      BY <1>1, <2>1, <3>1, GetEnds
  <2>2. CASE request # "get"
    <3>1. changed = {}
      BY <2>2
    <3>2. request \notin {"get", "export", "blocks", "drop", "page", "post", "postTitle"}
      BY <1>1, <2>2
    <3> HIDE DEF changed, h
    <3>3. QED
      BY <1>1, <2>2, <3>1, <3>2, PlainEnds
  <2>3. QED
    BY <2>1, <2>2
<1>6. source \in {"confluence", "discussion"} => h = t
  OBVIOUS
<1> HIDE DEF h, q, now
<1>7. /\ SameBut(x, q, {"pc", "todo", "held", "blocks", "pages"})
      /\ q["blocks"] = x["blocks"] /\ q["pages"] = x["pages"]
      /\ q["before"] = x["before"] /\ q["patch"] = x["patch"] /\ q["op"] = "update"
      /\ Len(todo) = 1 => q["pc"] = "done"
      /\ Len(todo) # 1 => q["pc"] = "running" /\ q["todo"] = rest
  <2> HIDE DEF rest
  <2>1. QED
    BY <1>1, <1>5 DEF Ended1, SameBut, CallFields, rest
<1>8. /\ q["todo"] = rest => Left(source, x) \ WrittenBy(request) \subseteq Left(source, q)
      /\ Len(todo) = 1 => Left(source, x) \subseteq WrittenBy(request)
  BY <1>1, <1>7, LessLeft
<1>9. u["state"] = t["state"]
  BY <1>4 DEF WritesIt
<1> HIDE DEF u, changed
<1>10. CASE Len(todo) = 1
  <2> DEFINE none == {}
  <2>1. Left(source, x) \ WrittenBy(request) \subseteq none
    BY <1>8, <1>10
  <2>2. \A f \in Field \ none : u[f] = Due(source, c, q, f) \/ (f = "body" /\ Long(q))
    <3> HIDE DEF t, todo, none
    <3>1. QED
      BY <1>1, <1>4, <1>7, <2>1, WrittenGoes
  <2>3. \A f \in Field : u[f] = Due(source, c, q, f) \/ (f = "body" /\ Long(q))
    BY <2>2
  <2>4. q["pc"] = "done"
    BY <1>7, <1>10
  <2>5. Goes(now, c, q)
    BY <1>1, <1>7, <1>9, <2>3, <2>4, UpdateGoesOn DEF u
  <2>6. QED
    BY <2>5 DEF now, q
<1>11. CASE Len(todo) # 1
  <2>1. q["pc"] = "running" /\ q["todo"] = rest
    BY <1>7, <1>11
  <2>2. \A f \in Field \ Left(source, q) : u[f] = Due(source, c, q, f) \/ (f = "body" /\ Long(q))
    <3>1. Left(source, x) \ WrittenBy(request) \subseteq Left(source, q)
      BY <1>8, <2>1
    <3> HIDE DEF t, todo
    <3>2. QED
      BY <1>1, <1>4, <1>7, <3>1, WrittenGoes
  <2>3. Written(source, u, c, q)
    BY <2>2 DEF Written
  <2>4. /\ source = "discussion" => rest \in {<<"get", "put">>, <<"put">>} /\ request = "get"
        /\ source = "confluence" => request = "get"
    <3>1. /\ Tail(<<"get", "put">>) = <<"put">> /\ Head(<<"get", "put">>) = "get"
          /\ Len(<<"put">>) = 1 /\ Len(<<"putNext">>) = 1 /\ Head(<<"get", "putNext">>) = "get"
      OBVIOUS
    <3> HIDE DEF todo
    <3>2. source = "discussion" => todo = <<"get", "put">>
      BY <1>2, <1>11, <3>1
    <3>3. source = "confluence" => todo = <<"get", "putNext">>
      BY <1>2, <1>11, <3>1
    <3>4. rest = Tail(todo) /\ request = Head(todo)
      BY <1>1
    <3> HIDE DEF rest
    <3>5. source = "discussion" => rest = <<"put">> /\ request = "get"
      BY <3>1, <3>2, <3>4
    <3>6. source = "confluence" => request = "get"
      BY <3>1, <3>3, <3>4
    <3>7. QED
      BY <3>5, <3>6
  <2>5. source \in {"confluence", "discussion"} => \A f \in {"title", "body", "version"} : q["held"][f] = u[f]
    <3> SUFFICES ASSUME source \in {"confluence", "discussion"}
                 PROVE  \A f \in {"title", "body", "version"} : q["held"][f] = u[f]
      OBVIOUS
    <3>1. q["held"] = t /\ now = remote
      BY <1>4, <1>5, <1>6, <2>4
    <3>2. u = t
      BY <3>1 DEF u
    <3>3. QED
      BY <3>1, <3>2
  <2>6. source = "notion" => Rewriting(u, q)
    <3> SUFFICES ASSUME source = "notion" PROVE Rewriting(u, q)
      OBVIOUS
    <3>1. todo \in NotionUpdates /\ Rewriting(t, x)
      BY <1>1
    <3>2. request \in {"get", "rename", "append"}
      <4>1. request # "put"
        BY <1>1, <1>11, <3>1, NotionSteps
      <4>2. request \notin {"putNext", "upload"}
        BY <1>1 DEF MaySend
      <4>3. QED
        BY <1>1, <4>1, <4>2
    <3>3. request # "append" => u["body"] = t["body"]
      BY <1>4, <3>2 DEF u
    <3>4. t["body"] \in Seq(Value)
      BY <1>1 DEF Full
    <3> HIDE DEF t
    <3>5. QED
      BY <1>1, <1>7, <1>11, <2>1, <3>1, <3>2, <3>3, <3>4, RewritingGoes
  <2>7. Goes(now, c, q)
    <3> HIDE DEF rest
    <3>1. q["pc"] # "done" /\ q["pc"] \in {"done", "running"}
      BY <2>1
    <3>2. source = "discussion" => q["todo"] \in {<<"get", "put">>, <<"put">>}
      BY <2>1, <2>4
    <3>3. now[i]["state"] = remote[i]["state"]
      BY <1>9 DEF u
    <3>4. /\ Written(source, now[i], c, q)
          /\ source \in {"confluence", "discussion"} => \A f \in {"title", "body", "version"} : q["held"][f] = now[i][f]
          /\ source = "notion" => Rewriting(now[i], q)
      BY <2>3, <2>5, <2>6 DEF u
    <3>5. x["op"] = "update" /\ i \in Item /\ StateKept(remote, x) /\ source \notin {"teams", "calendly", "code"}
      BY <1>1
    <3>6. QED
      BY <1>7, <3>1, <3>2, <3>3, <3>4, <3>5, UpdateGoesOn
  <2>8. QED
    BY <2>7 DEF now, q
<1>12. QED
  BY <1>10, <1>11

(* A page of blocks, of a page that is updated. *)
LEMMA BlocksUpdateGoes ==
  ASSUME source \in Source, Stocked(remote), \A i \in Item : Full(remote[i]),
         NEW c, NEW x, Asked(c, x, "blocks"), x["op"] = "update"
  PROVE  Goes(Effect(c, x, "blocks"), c, Answered(c, x, "blocks"))
<1> DEFINE i == x["item"]
           todo == x["todo"]
           t == remote[i]
           body == t["body"]
           n == x["pages"] + 1
           taken == IF n <= Len(body) THEN Append(x["blocks"], body[n]) ELSE x["blocks"]
           more == n < Len(body) /\ n < BlockPages
           q == Answered(c, x, "blocks")
<1>1. /\ IsCall(x) /\ x["pc"] = "running" /\ "blocks" = Head(todo)
      /\ todo \in Seq(Requests) /\ todo # <<>>
      /\ StateKept(remote, x) /\ i \in Item /\ x["patch"] \subseteq Field
      /\ Full(t) /\ source = "notion"
      /\ MaySend(source, "update", x["patch"], "blocks")
      /\ Written(source, t, c, x) /\ Rewriting(t, x) /\ todo \in NotionUpdates /\ Counted(x)
  BY UpdateIs
<1>2. Effect(c, x, "blocks") = remote
  BY DEF Effect
<1>3. BlocksTaken(x, q)
  <2>1. q = TakeBlocks(x) /\ Busy(Requests, x)
    BY <1>1 DEF Answered, Busy
  <2> HIDE DEF q
  <2>2. QED
    BY <1>1, <2>1, TakeBlocksIs
<1> HIDE DEF q
<1>4. SameBut(x, q, {"pc", "todo", "held", "blocks", "pages"})
  BY <1>3 DEF BlocksTaken
<1>5. q["before"] = x["before"] /\ q["patch"] = x["patch"]
  BY <1>4 DEF SameBut, CallFields
<1>6. /\ more => q["pc"] = "running" /\ q["todo"] = todo /\ q["blocks"] = taken /\ q["pages"] = n
      /\ ~ more /\ Len(todo) = 1 => q["pc"] = "done"
      /\ ~ more /\ Len(todo) > 1 /\ todo[2] = "drop" /\ taken = <<>> /\ Len(Tail(todo)) # 1 =>
           q["pc"] = "running" /\ q["todo"] = Tail(Tail(todo))
      /\ ~ more /\ Len(todo) # 1 /\ taken # <<>> =>
           q["pc"] = "running" /\ q["todo"] = Tail(todo) /\ q["blocks"] = taken
      /\ ~ more => q["pages"] = 0
  <2> HIDE DEF todo
  <2>1. QED
    BY <1>1, <1>3 DEF BlocksTaken, todo
<1>7. \A f \in Field \ Left(source, x) : t[f] = Due(source, c, q, f) \/ (f = "body" /\ Long(q))
  BY <1>1, <1>5 DEF Written, Due, Long
<1>8. \A p : Has(todo, p) <=> "blocks" = p \/ Has(Tail(todo), p)
  <2> HIDE DEF todo
  <2>1. QED
    BY <1>1, RestOf
<1>9. body \in Seq(Value) /\ Len(body) \in Nat /\ n \in Nat /\ n = x["pages"] + 1 /\ BlockPages \in Nat
  <2>1. x["pages"] \in Nat
    BY DEF Asked, TypedCall
  <2>2. body \in Seq(Value)
    BY <1>1 DEF Full
  <2> HIDE DEF body
  <2>3. QED
    BY <2>1, <2>2, SourceAssumption
<1>10. Goes(remote, c, q) \/ (q["pc"] = "running" /\ ~ (Written(source, t, c, q) /\ Rewriting(t, q)))
          \/ (q["pc"] = "done" /\ ~ Left(source, x) \subseteq {}) \/ q["pc"] \notin {"done", "running"}
  <2> SUFFICES ASSUME q["pc"] = "running" => Written(source, t, c, q) /\ Rewriting(t, q),
                      q["pc"] = "done" => Left(source, x) = {}, q["pc"] \in {"done", "running"}
               PROVE  Goes(remote, c, q)
    BY Zenon
  <2>1. q["pc"] = "done" => \A f \in Field : t[f] = Due(source, c, q, f) \/ (f = "body" /\ Long(q))
    BY <1>7
  <2>2. source \notin {"confluence", "discussion", "teams", "calendly", "code"}
    BY <1>1
  <2>3. QED
    BY <1>1, <1>4, <2>1, <2>2, UpdateGoesOn
<1> HIDE DEF more, taken, n
<1>11. CASE Len(todo) = 1
  <2>1. \A p : ~ Has(Tail(todo), p)
    <3> HIDE DEF todo
    <3>1. QED
      BY <1>1, <1>11, RestOf
  <2>2. Left(source, x) = {} /\ ~ Has(todo, "drop")
    BY <1>8, <2>1 DEF Left
  <2>3. CASE more
    <3>1. q["todo"] = todo
      BY <1>6, <2>3
    <3>2. Left(source, q) = Left(source, x)
      BY <1>5, <3>1 DEF Left
    <3>3. Written(source, t, c, q)
      BY <1>7, <3>2 DEF Written
    <3>4. Rewriting(t, q)
      <4>1. Head(q["todo"]) = "blocks" /\ ~ Has(q["todo"], "drop")
        BY <1>1, <2>2, <3>1
      <4>2. QED
        BY <4>1 DEF Rewriting
    <3>5. QED
      BY <1>2, <1>6, <1>10, <2>2, <2>3, <3>3, <3>4 DEF q
  <2>4. CASE ~ more
    <3>1. q["pc"] = "done"
      BY <1>6, <1>11, <2>4
    <3>2. QED
      BY <1>2, <1>10, <2>2, <3>1 DEF q
  <2>5. QED
    BY <2>3, <2>4
<1>12. CASE Len(todo) # 1
  <2>1. /\ Len(todo) > 1 /\ todo[2] = "drop" /\ Has(todo, "drop") /\ Head(Tail(todo)) = "drop"
        /\ Tail(Tail(todo)) = <<"append", "get", "blocks">> /\ Len(Tail(todo)) # 1
    BY <1>1, <1>12, NotionSteps
  <2>2. body = x["before"]["body"] /\ Leaf(body, x)
    BY <1>1, <2>1 DEF Rewriting
  <2>3. /\ n <= Len(body) => taken = SubSeq(body, 1, n) /\ Len(taken) = n
        /\ n >= Len(body) => taken = body
        /\ ~ (n <= Len(body)) => body = <<>> /\ taken = <<>>
    <3> DEFINE p == x["pages"]
               blocks == x["blocks"]
               b == body
    <3>1. p \in Nat /\ blocks = SubSeq(b, 1, p) /\ p = Len(blocks) /\ (p = 0 \/ p < Len(b)) /\ b \in Seq(Value)
      BY <1>9, <2>2 DEF Leaf, Asked, TypedCall
    <3>2. n = p + 1 /\ taken = IF n <= Len(b) THEN Append(blocks, b[n]) ELSE blocks
      BY DEF n, taken
    <3> HIDE DEF p, blocks, b
    <3>3. /\ p + 1 <= Len(b) => taken = SubSeq(b, 1, p + 1) /\ Len(taken) = p + 1
          /\ p + 1 >= Len(b) => taken = b
          /\ ~ (p + 1 <= Len(b)) => b = <<>> /\ taken = <<>>
      BY <3>1, <3>2, LeafGrows
    <3>4. QED
      BY <3>2, <3>3 DEF b
  <2>4. CASE more
    <3>1. q["pc"] = "running" /\ q["todo"] = todo /\ q["blocks"] = taken /\ q["pages"] = n
      BY <1>6, <2>4
    <3>2. Left(source, q) = Left(source, x)
      BY <1>5, <3>1 DEF Left
    <3>3. Written(source, t, c, q)
      BY <1>7, <3>2 DEF Written
    <3>4. Leaf(body, q)
      <4>1. n < Len(body)
        BY <2>4 DEF more
      <4> HIDE DEF body
      <4>2. QED
        BY <1>9, <2>3, <3>1, <4>1 DEF Leaf
    <3>5. Rewriting(t, q)
      <4>1. Head(q["todo"]) = "blocks"
        BY <1>1, <3>1
      <4>2. t["body"] = q["before"]["body"] /\ Leaf(t["body"], q)
        BY <1>5, <2>2, <3>4
      <4>3. QED
        BY <4>1, <4>2 DEF Rewriting
    <3>6. QED
      BY <1>2, <1>10, <3>1, <3>3, <3>5 DEF q
  <2>5. CASE ~ more /\ taken = <<>>
    <3> DEFINE tail == Tail(todo)
               rest == Tail(tail)
    <3>1. q["pc"] = "running" /\ q["todo"] = rest
      BY <1>6, <2>1, <2>5
    <3>2. \A p : Has(todo, p) => "blocks" = p \/ "drop" = p \/ Has(rest, p)
      <4>1. tail \in Seq(Requests) /\ tail # <<>>
        <5> DEFINE m == Len(todo)
        <5>1. Len(tail) = m - 1 /\ tail \in Seq(Requests) /\ m > 1 /\ m \in Nat
          <6> HIDE DEF todo
          <6>1. QED
            BY <1>1, <2>1, HeadTailProperties
        <5> HIDE DEF tail, m
        <5>2. Len(tail) # 0
          BY <5>1
        <5>3. QED
          BY <5>1, <5>2
      <4>2. Head(tail) = "drop"
        BY <2>1
      <4> HIDE DEF tail
      <4>3. \A p : Has(tail, p) <=> Head(tail) = p \/ Has(rest, p)
        BY <4>1, RestOf
      <4>4. QED
        BY <1>8, <4>2, <4>3 DEF tail
    <3>3. rest = <<"append", "get", "blocks">>
      BY <2>1
    <3>4. Head(<<"append", "get", "blocks">>) = "append"
      OBVIOUS
    <3> HIDE DEF rest
    <3>5. Left(source, x) \subseteq Left(source, q)
      BY <1>5, <3>1, <3>2 DEF Left
    <3>6. Written(source, t, c, q)
      BY <1>7, <3>5 DEF Written
    <3>7. body = <<>>
      <4> HIDE DEF body
      <4>1. n <= Len(body) => FALSE
        <5> SUFFICES ASSUME n <= Len(body) PROVE FALSE
          OBVIOUS
        <5>1. Len(taken) = n
          BY <2>3
        <5>2. Len(<<>>) = 0
          OBVIOUS
        <5>3. n = 0
          BY <2>5, <5>1, <5>2
        <5>4. n # 0
          BY <1>9 DEF Asked, TypedCall
        <5>5. QED
          BY <5>3, <5>4
      <4>2. QED
        BY <2>3, <4>1
    <3>8. Rewriting(t, q)
      <4>1. Head(q["todo"]) = "append"
        BY <3>1, <3>3, <3>4
      <4>2. t["body"] = q["before"]["body"] /\ t["body"] = <<>>
        BY <1>5, <2>2, <3>7
      <4>3. QED
        BY <4>1, <4>2 DEF Rewriting
    <3>9. QED
      BY <1>2, <1>10, <3>1, <3>6, <3>8 DEF q
  <2>6. CASE ~ more /\ taken # <<>>
    <3> DEFINE tail == Tail(todo)
    <3>1. q["pc"] = "running" /\ q["todo"] = tail /\ q["blocks"] = taken
      BY <1>6, <1>12, <2>6
    <3>2. Head(tail) = "drop" /\ \A p : Has(todo, p) => "blocks" = p \/ Has(tail, p)
      BY <1>8, <2>1
    <3> HIDE DEF tail
    <3>3. Left(source, x) \subseteq Left(source, q)
      BY <1>5, <3>1, <3>2 DEF Left
    <3>4. Written(source, t, c, q)
      BY <1>7, <3>3 DEF Written
    <3>5. /\ Len(taken) <= Len(body) /\ taken = SubSeq(body, 1, Len(taken))
          /\ Len(body) > BlockPages \/ Len(taken) = Len(body)
      <4>1. ~ (n < Len(body) /\ n < BlockPages)
        BY <2>6 DEF more
      <4>4. n <= Len(body)
        BY <2>3, <2>6
      <4>5. taken = SubSeq(body, 1, n) /\ Len(taken) = n
        BY <2>3, <4>4
      <4> HIDE DEF body, taken
      <4>6. QED
        BY <1>9, <4>1, <4>4, <4>5
    <3>6. Rewriting(t, q)
      <4>1. Head(q["todo"]) = "drop"
        BY <3>1, <3>2
      <4>2. /\ Len(q["blocks"]) <= Len(t["body"])
            /\ q["blocks"] = SubSeq(t["body"], 1, Len(q["blocks"]))
            /\ Long(q) \/ Len(q["blocks"]) = Len(t["body"])
        <5>1. Long(q) <=> Len(body) > BlockPages
          BY <1>5, <2>2 DEF Long
        <5>2. q["blocks"] = taken
          BY <3>1
        <5>3. QED
          BY <3>5, <5>1, <5>2
      <4>3. QED
        BY <4>1, <4>2 DEF Rewriting
    <3>7. QED
      BY <1>2, <1>10, <3>1, <3>4, <3>6 DEF q
  <2>7. QED
    BY <2>4, <2>5, <2>6
<1>13. QED
  BY <1>11, <1>12

(* One of the blocks that were read is dropped: the first that is left. *)
LEMMA HeadsMatch ==
  ASSUME NEW V, NEW body \in Seq(V), NEW blocks, blocks # <<>>, Len(blocks) <= Len(body),
         Len(blocks) \in Nat, blocks = SubSeq(body, 1, Len(blocks))
  PROVE  /\ body # <<>> /\ Head(blocks) = Head(body)
         /\ Len(Tail(blocks)) = Len(blocks) - 1 /\ Len(Tail(body)) = Len(body) - 1
         /\ Tail(blocks) = SubSeq(Tail(body), 1, Len(Tail(blocks)))
         /\ Tail(body) \in Seq(V)
<1> DEFINE n == Len(blocks)
           m == Len(body)
           rest == Tail(blocks)
           after == Tail(body)
<1>1. m \in Nat /\ n \in Nat /\ n <= m
  OBVIOUS
<1>2. blocks \in Seq(V) /\ \A k \in 1..n : blocks[k] = body[k]
  <2>1. blocks = SubSeq(body, 1, n)
    OBVIOUS
  <2> HIDE DEF n, m
  <2>2. SubSeq(body, 1, n) \in Seq(V) /\ \A k \in 1..n : SubSeq(body, 1, n)[k] = body[k]
    BY <1>1 DEF m
  <2>3. QED
    BY <2>1, <2>2
<1>3. n # 0
  BY <1>2
<1>4. body # <<>>
  <2>1. m # 0
    <3> HIDE DEF n, m
    <3>1. QED
      BY <1>1, <1>3
  <2>2. QED
    BY <2>1
<1>5. /\ rest \in Seq(V) /\ Len(rest) = n - 1 /\ Head(blocks) = blocks[1]
      /\ \A k \in 1..(n - 1) : rest[k] = blocks[k + 1]
  BY <1>2, HeadTailProperties
<1>6. /\ after \in Seq(V) /\ Len(after) = m - 1 /\ Head(body) = body[1]
      /\ \A k \in 1..(m - 1) : after[k] = body[k + 1]
  BY <1>4, HeadTailProperties
<1> DEFINE first == SubSeq(after, 1, n - 1)
<1> HIDE DEF n, m, rest, after
<1>7. Head(blocks) = Head(body)
  <2>1. 1 \in 1..n
    BY <1>1, <1>3
  <2>2. QED
    BY <1>2, <1>5, <1>6, <2>1
<1>8. first \in Seq(V) /\ Len(first) = n - 1 /\ \A k \in 1..(n - 1) : first[k] = after[k]
  <2>1. n - 1 \in Nat /\ n - 1 <= Len(after)
    BY <1>1, <1>3, <1>6
  <2> DEFINE j == n - 1
  <2> HIDE DEF j
  <2>2. j \in Nat /\ j <= Len(after)
    BY <2>1 DEF j
  <2>3. /\ SubSeq(after, 1, j) \in Seq(V) /\ Len(SubSeq(after, 1, j)) = j
        /\ \A k \in 1..j : SubSeq(after, 1, j)[k] = after[k]
    BY <1>6, <2>2
  <2>4. QED
    BY <2>3 DEF j
<1> HIDE DEF first
<1>9. \A k \in 1..(n - 1) : rest[k] = first[k]
  <2> TAKE k \in 1..(n - 1)
  <2>1. k \in 1..(m - 1) /\ k + 1 \in 1..n
    BY <1>1, <1>3
  <2>2. QED
    BY <1>2, <1>5, <1>6, <1>8, <2>1
<1>10. rest = first
  <2>1. Len(rest) = Len(first) /\ \A k \in 1..Len(rest) : rest[k] = first[k]
    BY <1>5, <1>8, <1>9
  <2>2. QED
    BY <1>5, <1>8, <2>1, SeqEqual
<1>11. /\ Len(rest) = n - 1 /\ Len(after) = m - 1 /\ rest = SubSeq(after, 1, Len(rest))
  BY <1>5, <1>6, <1>10 DEF first
<1>12. QED
  BY <1>4, <1>6, <1>7, <1>11 DEF n, m, rest, after

LEMMA DropUpdateGoes ==
  ASSUME source \in Source, Stocked(remote), \A i \in Item : Full(remote[i]),
         NEW c, NEW x, Asked(c, x, "drop"), x["op"] = "update"
  PROVE  Goes(Effect(c, x, "drop"), c, Answered(c, x, "drop"))
<1> DEFINE i == x["item"]
           todo == x["todo"]
           tail == Tail(todo)
           t == remote[i]
           body == t["body"]
           blocks == x["blocks"]
           rest == Tail(blocks)
           after == Tail(body)
           now == Effect(c, x, "drop")
           u == now[i]
           q == Answered(c, x, "drop")
<1>1. /\ IsCall(x) /\ x["pc"] = "running" /\ "drop" = Head(todo)
      /\ todo \in Seq(Requests) /\ todo # <<>>
      /\ StateKept(remote, x) /\ i \in Item /\ x["patch"] \subseteq Field
      /\ Full(t) /\ IsThing(t) /\ source = "notion"
      /\ MaySend(source, "update", x["patch"], "drop")
      /\ Written(source, t, c, x) /\ Rewriting(t, x) /\ todo \in NotionUpdates /\ Counted(x)
  BY UpdateIs
<1>2. Len(todo) # 1 /\ tail = <<"append", "get", "blocks">> /\ tail \in NotionUpdates
  BY <1>1, NotionSteps
<1>3. Head(tail) = "append" /\ Has(tail, "append") /\ ~ Has(tail, "drop")
  <2>1. Head(<<"append", "get", "blocks">>) = "append" /\ Len(<<"append", "get", "blocks">>) = 3
        /\ <<"append", "get", "blocks">>[1] = "append"
    OBVIOUS
  <2> HIDE DEF tail
  <2>2. Head(tail) = "append" /\ 1 \in 1..Len(tail) /\ tail[1] = "append"
    BY <1>2, <2>1
  <2>3. QED
    BY <1>2, <2>2, NotionSteps DEF Has
<1>4. \A p : Has(todo, p) <=> "drop" = p \/ Has(tail, p)
  <2> HIDE DEF todo
  <2>1. \A p : Has(todo, p) <=> Head(todo) = p \/ Has(Tail(todo), p)
    BY <1>1, RestOf
  <2>2. QED
    BY <1>1, <2>1 DEF todo
<1>5. SameBut(x, q, {"todo", "blocks"}) /\ q["blocks"] = rest
      /\ q["todo"] = IF rest = <<>> THEN tail ELSE todo
  <2>1. q = DropBlock(x)
    BY DEF Answered
  <2> HIDE DEF q, todo
  <2>2. QED
    BY <1>1, <1>2, <2>1, DropBlockIs DEF todo
<1>6. /\ body \in Seq(Value) /\ blocks # <<>> /\ Len(blocks) <= Len(body) /\ Len(blocks) \in Nat
      /\ blocks = SubSeq(body, 1, Len(blocks))
      /\ Long(x) \/ Len(blocks) = Len(body)
  BY <1>1 DEF Counted, Rewriting, Full, Asked, TypedCall
<1> HIDE DEF q, body, blocks, tail, todo
<1>7. /\ body # <<>> /\ Head(blocks) = Head(body)
      /\ Len(rest) = Len(blocks) - 1 /\ Len(after) = Len(body) - 1
      /\ rest = SubSeq(after, 1, Len(rest)) /\ after \in Seq(Value)
  <2> HIDE DEF rest, after
  <2>1. /\ body # <<>> /\ Head(blocks) = Head(body)
        /\ Len(Tail(blocks)) = Len(blocks) - 1 /\ Len(Tail(body)) = Len(body) - 1
        /\ Tail(blocks) = SubSeq(Tail(body), 1, Len(Tail(blocks)))
        /\ Tail(body) \in Seq(Value)
    BY <1>6, HeadsMatch
  <2>2. rest = Tail(blocks) /\ after = Tail(body)
    BY SMTT(60) DEF rest, after
  <2>3. QED
    BY <2>1, <2>2
<1>8. RemoveFirst(body, Head(blocks)) = after
  BY <1>6, <1>7, RemoveFirstIs
<1> DEFINE v == [t EXCEPT !["body"] = after]
<1>9. now = [remote EXCEPT ![i] = v]
  BY <1>8 DEF Effect, body, blocks
<1> HIDE DEF after, rest
<1>10. /\ IsThing(v) /\ v["state"] = t["state"] /\ v["body"] = after
       /\ v["title"] = t["title"] /\ v["other"] = t["other"]
  BY <1>1 DEF IsThing, ThingFields
<1> HIDE DEF v, now
<1>11. u = v
  <2>1. i \in Item
    BY <1>1
  <2> HIDE DEF t, i
  <2>2. QED
    BY <1>9, <1>10, <2>1, OneSet
<1>12. q["before"] = x["before"] /\ q["patch"] = x["patch"] /\ q["pc"] = "running"
       /\ SameBut(x, q, {"pc", "todo", "held", "blocks", "pages"})
  BY <1>1, <1>5 DEF SameBut, CallFields
<1>13. /\ Has(q["todo"], "append")
       /\ \A p \in {"put", "putNext", "rename"} : Has(todo, p) => Has(q["todo"], p)
       /\ Has(todo, "append")
  <2>1. \A p : p # "drop" => (Has(todo, p) <=> Has(tail, p))
    BY <1>4
  <2>2. QED
    BY <1>3, <1>5, <2>1
<1>14. "body" \in Left(source, q) /\ \A f \in {"title", "other"} : f \in Left(source, x) => f \in Left(source, q)
  <2>1. "body" \in x["patch"] \cap Takes(source)
    BY <1>1 DEF MaySend, Takes
  <2>2. QED
    BY <1>12, <1>13, <2>1 DEF Left, todo
<1>15. Written(source, u, c, q)
  <2> SUFFICES ASSUME NEW f \in Field \ Left(source, q)
               PROVE  u[f] = Due(source, c, q, f) \/ (f = "body" /\ Long(q))
    BY DEF Written
  <2>1. f \in {"title", "other"} /\ f \notin Left(source, x)
    BY <1>14 DEF Field
  <2>2. t[f] = Due(source, c, x, f) /\ u[f] = t[f]
    <3>1. u[f] = t[f]
      <4> HIDE DEF u, t
      <4>1. QED
        BY <1>10, <1>11, <2>1
    <3>2. t[f] = Due(source, c, x, f)
      <4>1. f \in Field /\ f # "body"
        BY <2>1 DEF Field
      <4> HIDE DEF t
      <4>2. QED
        BY <1>1, <2>1, <4>1 DEF Written
    <3>3. QED
      BY <3>1, <3>2
  <2>3. Due(source, c, q, f) = Due(source, c, x, f)
    BY <1>12 DEF Due
  <2>4. QED
    BY <2>2, <2>3
<1>16. Long(q) <=> Long(x)
  BY <1>12 DEF Long
<1> DEFINE n == Len(blocks)
           m == Len(body)
<1>17. m \in Nat
  BY <1>6, SMTT(60)
<1>18. Len(rest) = n - 1 /\ Len(after) = m - 1 /\ n <= m /\ n \in Nat /\ (Long(x) \/ n = m)
  BY <1>6, <1>7
<1> HIDE DEF n, m
<1>19. Len(rest) <= Len(after) /\ (Long(q) \/ Len(rest) = Len(after))
  BY <1>16, <1>17, <1>18
<1>20. u["body"] = after
  BY <1>10, <1>11
<1> HIDE DEF u
<1>21. Rewriting(u, q)
  <2>1. CASE rest = <<>>
    <3>1. Head(q["todo"]) = "append" /\ ~ Has(q["todo"], "drop")
      BY <1>3, <1>5, <2>1
    <3>2. Long(q) \/ after = <<>>
      <4>1. Len(rest) = 0
        BY <2>1
      <4>2. Long(q) \/ Len(after) = 0
        BY <1>19, <4>1
      <4>3. QED
        BY <1>7, <4>2
    <3>3. QED
      BY <1>20, <3>1, <3>2 DEF Rewriting
  <2>2. CASE rest # <<>>
    <3>1. Head(q["todo"]) = "drop"
      BY <1>1, <1>5, <2>2 DEF todo
    <3>2. /\ Len(q["blocks"]) <= Len(u["body"])
          /\ q["blocks"] = SubSeq(u["body"], 1, Len(q["blocks"]))
          /\ Long(q) \/ Len(q["blocks"]) = Len(u["body"])
      BY <1>5, <1>7, <1>19, <1>20
    <3>3. QED
      BY <3>1, <3>2 DEF Rewriting
  <2>3. QED
    BY <2>1, <2>2
<1>22. u["state"] = t["state"]
  BY <1>10, <1>11 DEF u
<1>23. Goes(now, c, q)
  <2>1. q["pc"] # "done" /\ q["pc"] \in {"done", "running"}
    BY <1>12
  <2>2. source \notin {"confluence", "discussion", "teams", "calendly", "code"}
    BY <1>1
  <2>3. now[i]["state"] = remote[i]["state"] /\ Written(source, now[i], c, q) /\ Rewriting(now[i], q)
    BY <1>15, <1>21, <1>22 DEF u
  <2>4. QED
    BY <1>1, <1>12, <2>1, <2>2, <2>3, UpdateGoesOn
<1>24. QED
  BY <1>23 DEF now, q

LEMMA UpdateGoes ==
  ASSUME source \in Source, Stocked(remote), \A i \in Item : Full(remote[i]),
         NEW c, NEW x, NEW request, Asked(c, x, request), x["op"] = "update"
  PROVE  Goes(Effect(c, x, request), c, Answered(c, x, request))
<1>1. CASE request = "blocks"
  BY <1>1, BlocksUpdateGoes
<1>2. CASE request = "drop"
  BY <1>2, DropUpdateGoes
<1>3. CASE request \notin {"blocks", "drop"}
  BY <1>3, PlainUpdateGoes
<1>4. QED
  BY <1>1, <1>2, <1>3

-----------------------------------------------------------------------------
(* When a source refuses a request. *)
LEMMA StatusOk ==
  ASSUME NEW x, NEW request, request \notin Opens, Live(x["item"]),
         request = "drop" => Head(x["blocks"]) \in Range(remote[x["item"]]["body"]),
         request = "putNext" => x["held"]["version"] = remote[x["item"]]["version"]
  PROVE  Status(x, request) = "ok"
<1>1. There(x.item) /\ Live(x.item)
  BY DEF Live, There
<1>2. request \notin {"lookup", "site"}
  BY DEF Opens
<1>3. ~ (request = "drop" /\ Head(x.blocks) \notin Range(remote[x.item].body))
  OBVIOUS
<1>4. request = "putNext" =>
        ConfluenceVersion(x.held.version, remote[x.item].version) = remote[x.item].version + 1
  BY DEF ConfluenceVersion
<1>5. QED
  BY <1>1, <1>2, <1>3, <1>4 DEF Status

(* What is asked of a resource that is there is not refused. *)
LEMMA OneIsOk ==
  ASSUME source \in Source, Stocked(remote), \A i \in Item : Full(remote[i]),
         NEW c, NEW x, TypedCall(source, x), x["pc"] = "running", CallFine(source, c, x),
         OnItsWay(source, remote, c, x), x["op"] \in OnOne, x["before"]["state"] = "live"
  PROVE  Status(x, Head(x["todo"])) = "ok"
<1> DEFINE i == x["item"]
           t == remote[i]
           todo == x["todo"]
           request == Head(todo)
<1>1. StateKept(remote, x) /\ (x["op"] = "update" => Updates(source, remote, c, x))
  BY DEF OnItsWay, OnOne
<1>2. i \in Item /\ t["state"] = "live"
  BY <1>1 DEF StateKept
<1>3. Live(i)
  BY <1>2 DEF Live
<1>4. MaySend(source, x["op"], x["patch"], request)
  BY WhoDrops DEF Sent
<1>5. request \notin Opens /\ (request = "putNext" => source = "confluence" /\ x["op"] = "update")
  <2> DEFINE op == x["op"]
  <2>1. op \in OnOne
    OBVIOUS
  <2> HIDE DEF op
  <2>2. MaySend(source, op, x["patch"], request)
    BY <1>4 DEF op
  <2> HIDE DEF request
  <2>3. request \notin Opens /\ (request = "putNext" => source = "confluence" /\ op = "update")
    BY <2>1, <2>2 DEF MaySend, OnOne, Opens
  <2>4. QED
    BY <2>3 DEF op
<1>6. request = "putNext" => x["held"]["version"] = t["version"]
  BY <1>1, <1>2, <1>5 DEF Updates
<1>7. ASSUME request = "drop"
      PROVE  Head(x["blocks"]) \in Range(t["body"])
  <2> DEFINE body == t["body"]
             blocks == x["blocks"]
  <2>1. source = "notion" /\ x["op"] = "update"
    BY <1>7, WhoDrops
  <2>2. Rewriting(t, x) /\ Counted(x) /\ Full(t)
    BY <1>1, <1>2, <2>1 DEF Updates, TypedCall
  <2>3. /\ body \in Seq(Value) /\ blocks # <<>> /\ Len(blocks) <= Len(body) /\ Len(blocks) \in Nat
        /\ blocks = SubSeq(body, 1, Len(blocks))
    BY <1>7, <2>2 DEF Counted, Rewriting, Full, TypedCall
  <2> HIDE DEF body, blocks
  <2>4. body # <<>> /\ Head(blocks) = Head(body)
    BY <2>3, HeadsMatch
  <2>5. Head(body) \in Range(body)
    <3>1. Head(body) = body[1] /\ Len(body) \in Nat /\ Len(body) # 0 /\ DOMAIN body = 1..Len(body)
      BY <2>3, <2>4
    <3> DEFINE m == Len(body)
    <3> HIDE DEF m
    <3>2. 1 \in 1..m
      BY <3>1 DEF m
    <3>3. QED
      BY <3>1, <3>2 DEF Range, m
  <2>6. QED
    BY <2>4, <2>5 DEF body, blocks
<1> HIDE DEF request
<1>8. Status(x, request) = "ok"
  BY <1>3, <1>5, <1>6, <1>7, StatusOk
<1>9. QED
  BY <1>8 DEF request

(* What is asked of a container, or of what was created, is not refused. *)
LEMMA OpenIs ==
  ASSUME source \in Source, Stocked(remote),
         NEW c \in Caller, NEW x, x["pc"] = "running", CallFine(source, c, x),
         OnItsWay(source, remote, c, x), x["op"] \notin OnOne,
         Status(x, Head(x["todo"])) # "ok"
  PROVE  Status(x, Head(x["todo"])) = "missing" /\ x["inside"] /\ ~ TopLive(remote)
<1> DEFINE todo == x["todo"]
           request == Head(todo)
<1>1. /\ x["op"] \in {"list", "search", "create"}
      /\ MaySend(source, x["op"], x["patch"], request)
      /\ todo \in Seq(Sent(source, x["op"], x["patch"])) /\ todo # <<>>
      /\ x["inside"] => x["names"]
  <2>1. x["op"] \in Operation /\ MaySend(source, x["op"], x["patch"], request)
    BY WhoDrops DEF Sent
  <2>2. QED
    BY <2>1 DEF Operation, OnOne, CallFine, Busy
<1>2. CASE request \in Opens
  <2>1. Status(x, request) = IF request \in {"lookup", "site"} THEN "ok"
                             ELSE IF x.inside /\ ~ (x.names /\ Live("top")) THEN "missing" ELSE "ok"
    BY <1>2 DEF Status
  <2> HIDE DEF request
  <2>2. Status(x, request) # "ok"
    BY DEF request
  <2>3. x["inside"] /\ ~ (x["names"] /\ Live("top")) /\ Status(x, request) = "missing"
    BY <2>1, <2>2
  <2>4. ~ TopLive(remote)
    BY <1>1, <2>3 DEF TopLive, Live
  <2>5. QED
    BY <2>3, <2>4 DEF request
<1>3. CASE request \notin Opens
  <2>1. x["op"] = "create" /\ request \in {"get", "upload"}
    <3> DEFINE op == x["op"]
    <3>1. op \in {"list", "search", "create"} /\ MaySend(source, op, x["patch"], request)
      BY <1>1
    <3> HIDE DEF op, request
    <3>2. op = "create" /\ request \in {"get", "upload"}
      BY <1>3, <3>1 DEF MaySend, Opens
    <3>3. QED
      BY <3>2 DEF op
  <2>2. Creates(remote, c, x)
    BY <2>1 DEF OnItsWay
  <2>3. \A k \in 1..(Len(todo) - 1) : todo[k] \notin {"get", "upload"}
    BY <2>2 DEF Creates
  <2>4. /\ \A p : Has(todo, p) <=> request = p \/ Has(Tail(todo), p)
        /\ Len(todo) = 1 => \A p : ~ Has(Tail(todo), p)
        /\ request \in {"get", "upload"} => Len(todo) = 1
    <3> HIDE DEF todo
    <3>1. /\ \A p : Has(todo, p) <=> Head(todo) = p \/ Has(Tail(todo), p)
          /\ Len(todo) = 1 => \A p : ~ Has(Tail(todo), p)
          /\ \A A : (\A k \in 1..(Len(todo) - 1) : todo[k] \notin A) =>
              /\ \A k \in 1..(Len(Tail(todo)) - 1) : Tail(todo)[k] \notin A
              /\ Head(todo) \in A => Len(todo) = 1
      BY <1>1, RestOf
    <3>2. QED
      BY <2>3, <3>1
  <2>5. ~ Has(todo, "post") /\ ~ Has(todo, "postTitle")
    BY <2>1, <2>4
  <2>6. x["item"] = c /\ remote[c]["state"] = "live"
    BY <2>2, <2>5 DEF Creates
  <2>7. Live(x["item"])
    BY <2>6, ItemsAreFinite DEF Live
  <2>8. Status(x, request) = "ok"
    <3> HIDE DEF request
    <3>1. QED
      BY <1>3, <2>1, <2>7, StatusOk
  <2>9. QED
    BY <2>8
<1>4. QED
  BY <1>2, <1>3

(* A request that is refused, and what is not found, end their call in truth. *)
LEMMA RefusedIsHonest ==
  ASSUME source \in Source, Stocked(remote), \A i \in Item : Full(remote[i]),
         NEW c \in Caller, NEW x, TypedCall(source, x), x["pc"] = "running", CallFine(source, c, x),
         OnItsWay(source, remote, c, x),
         Status(x, Head(x["todo"])) # "ok",
         NEW pc, pc = IF Status(x, Head(x["todo"])) = "missing" THEN "missing" ELSE "failed"
  PROVE  Honest(source, remote, c, Finished(x, pc))
<1> DEFINE q == Finished(x, pc)
<1>1. IsCall(x)
  BY DEF CallFine
<1>2. SameBut(x, q, {"pc", "todo"}) /\ q["pc"] = pc
  BY <1>1, FinishedIs
<1> HIDE DEF q
<1>3. q["pc"] = pc /\ q["op"] = x["op"] /\ q["before"] = x["before"] /\ q["inside"] = x["inside"]
  BY <1>2 DEF SameBut, CallFields
<1>4. pc \in {"missing", "failed"}
  OBVIOUS
<1>5. CASE x["op"] \in OnOne
  <2>1. x["before"]["state"] # "live"
    BY <1>5, OneIsOk
  <2>2. Honest(source, remote, c, q)
    BY <1>3, <1>4, <1>5, <2>1 DEF Honest
  <2>3. QED
    BY <2>2 DEF q
<1>6. CASE x["op"] \notin OnOne
  <2>1. Status(x, Head(x["todo"])) = "missing" /\ x["inside"] /\ ~ TopLive(remote)
    BY <1>6, OpenIs
  <2>2. Honest(source, remote, c, q)
    BY <1>3, <1>6, <2>1 DEF Honest
  <2>3. QED
    BY <2>2 DEF q
<1>7. QED
  BY <1>5, <1>6

-----------------------------------------------------------------------------
(* The places of a listing are the numbers from nought: each is one item's. *)
LEMMA PlacesAre ==
  ASSUME NEW S, S \subseteq Item
  PROVE  /\ \A i \in S : Place(S, i) \in Nat /\ Place(S, i) < Cardinality(S)
         /\ \A i, j \in S : Place(S, i) = Place(S, j) => i = j
<1> DEFINE before(i) == {j \in S : Order[j] < Order[i]}
           N == Cardinality(S)
<1>1. IsFiniteSet(S) /\ N \in Nat
  BY ItemsAreFinite, FS_Subset, FS_CardinalityType
<1>2. \A i \in S : Order[i] \in Nat
  BY SourceAssumption
<1>3. \A i, j \in S : Order[i] = Order[j] => i = j
  BY SourceAssumption DEF IsInjective
<1>4. \A i : IsFiniteSet(before(i)) /\ Cardinality(before(i)) \in Nat /\ Place(S, i) = Cardinality(before(i))
  <2> TAKE i
  <2> DEFINE T == before(i)
  <2>1. T \in SUBSET S
    OBVIOUS
  <2>2. Place(S, i) = Cardinality(T)
    BY DEF Place
  <2> HIDE DEF T
  <2>3. IsFiniteSet(T) /\ Cardinality(T) \in Nat
    BY <1>1, <2>1, FS_Subset, FS_CardinalityType
  <2>4. QED
    BY <2>2, <2>3 DEF T
<1>5. ASSUME NEW i \in S
      PROVE  Place(S, i) < N
  <2> DEFINE T == before(i)
             rest == S \ {i}
  <2>1. T \in SUBSET rest
    <3>1. ~ (Order[i] < Order[i])
      BY <1>2
    <3>2. QED
      BY <3>1
  <2> HIDE DEF T
  <2>2. IsFiniteSet(rest) /\ Cardinality(rest) = N - 1
    BY <1>1, FS_RemoveElement
  <2> HIDE DEF rest, N
  <2>3. Cardinality(T) <= N - 1
    BY <2>1, <2>2, FS_Subset
  <2>4. Place(S, i) = Cardinality(T) /\ Cardinality(T) \in Nat
    BY <1>4 DEF T
  <2>5. QED
    BY <1>1, <2>3, <2>4
<1>6. ASSUME NEW i \in S, NEW j \in S, Order[i] < Order[j]
      PROVE  Place(S, i) # Place(S, j)
  <2> DEFINE T == before(i)
             U == before(j)
             V == T \cup {i}
  <2>1. V \in SUBSET U /\ i \notin T
    <3>1. \A k \in S : Order[k] < Order[i] => Order[k] < Order[j]
      BY <1>2, <1>6
    <3>2. ~ (Order[i] < Order[i])
      BY <1>2
    <3>3. QED
      BY <1>6, <3>1, <3>2
  <2>2. /\ IsFiniteSet(T) /\ Cardinality(T) \in Nat /\ Place(S, i) = Cardinality(T)
        /\ IsFiniteSet(U) /\ Cardinality(U) \in Nat /\ Place(S, j) = Cardinality(U)
    BY <1>4
  <2> HIDE DEF T, U
  <2>3. IsFiniteSet(V) /\ Cardinality(V) = Cardinality(T) + 1
    BY <2>1, <2>2, FS_AddElement
  <2> HIDE DEF V
  <2>4. Cardinality(V) <= Cardinality(U)
    BY <2>1, <2>2, FS_Subset
  <2>5. QED
    BY <2>2, <2>3, <2>4
<1>7. ASSUME NEW i \in S, NEW j \in S, Place(S, i) = Place(S, j)
      PROVE  i = j
  <2>1. ~ (Order[i] < Order[j]) /\ ~ (Order[j] < Order[i])
    BY <1>6, <1>7
  <2> DEFINE m == Order[i]
             n == Order[j]
  <2>2. m \in Nat /\ n \in Nat
    BY <1>2
  <2> HIDE DEF m, n
  <2>3. m = n
    BY <2>1, <2>2 DEF m, n
  <2>4. QED
    BY <1>3, <2>3 DEF m, n
<1>8. \A i \in S : Place(S, i) \in Nat
  BY <1>4
<1>9. QED
  BY <1>5, <1>7, <1>8

(* A page holds as many as it may, or all that are left. *)
LEMMA PageCount ==
  ASSUME NEW S, S \subseteq Item, NEW a \in Nat, a <= Cardinality(S), NEW l \in Nat \ {0}
  PROVE  Cardinality({i \in S : Place(S, i) \in a..(a + l - 1)})
           = IF a + l <= Cardinality(S) THEN l ELSE Cardinality(S) - a
<1> DEFINE N == Cardinality(S)
           f == [i \in S |-> Place(S, i)]
           last == IF a + l <= N THEN a + l - 1 ELSE N - 1
           T == {i \in S : Place(S, i) \in a..(a + l - 1)}
           g == [i \in T |-> f[i]]
<1>1. IsFiniteSet(S) /\ N \in Nat
  BY ItemsAreFinite, FS_Subset, FS_CardinalityType
<1>2. \A i \in S : Place(S, i) \in Nat /\ Place(S, i) < N
  BY PlacesAre
<1>3. \A i, j \in S : Place(S, i) = Place(S, j) => i = j
  BY PlacesAre
<1> HIDE DEF N
<1>4. f \in [S -> 0..(N - 1)]
  BY <1>1, <1>2
<1>5. f \in Injection(S, 0..(N - 1))
  BY <1>3, <1>4 DEF Injection, IsInjective
<1>6. IsFiniteSet(0..(N - 1)) /\ Cardinality(0..(N - 1)) = N
  <2>1. 0 \in Int /\ N - 1 \in Int
    BY <1>1
  <2>2. IsFiniteSet(0..(N - 1)) /\ Cardinality(0..(N - 1)) = IF 0 > N - 1 THEN 0 ELSE (N - 1) - 0 + 1
    BY <2>1, FS_Interval
  <2> DEFINE size == Cardinality(0..(N - 1))
  <2> HIDE DEF size
  <2>3. size = IF 0 > N - 1 THEN 0 ELSE (N - 1) - 0 + 1
    BY <2>2 DEF size
  <2>4. size = N
    BY <1>1, <2>3
  <2>5. QED
    BY <2>2, <2>4 DEF size
<1>7. \A k \in 0..(N - 1) : \E i \in S : Place(S, i) = k
  <2> DEFINE range == 0..(N - 1)
  <2>1. f \in Injection(S, range) /\ IsFiniteSet(range) /\ Cardinality(S) = Cardinality(range)
    BY <1>5, <1>6 DEF N
  <2> HIDE DEF f, range
  <2>2. f \in Surjection(S, range)
    BY <2>1, FS_Injection
  <2>3. \A k \in range : \E i \in S : f[i] = k
    BY <2>2 DEF Surjection
  <2>4. QED
    BY <2>3 DEF f, range
<1>8. last \in Int /\ a \in Int
  BY <1>1
<1>9. \A n \in Nat : n < N => (n \in a..(a + l - 1) <=> n \in a..last)
  BY <1>1
<1>10. T = {i \in S : Place(S, i) \in a..last}
  BY <1>2, <1>9
<1>11. IsFiniteSet(T)
  <2>1. T \in SUBSET S
    OBVIOUS
  <2> HIDE DEF T
  <2>2. QED
    BY <1>1, <2>1, FS_Subset
<1>12. \A k \in a..last : k \in 0..(N - 1)
  BY <1>1
<1> HIDE DEF last, T
<1>13. g \in Bijection(T, a..last)
  <2>1. \A i \in T : i \in S /\ g[i] = Place(S, i) /\ g[i] \in a..last
    BY <1>10
  <2>2. g \in [T -> a..last]
    BY <2>1
  <2>3. \A i, j \in T : g[i] = g[j] => i = j
    BY <1>3, <2>1
  <2>4. \A k \in a..last : \E i \in T : g[i] = k
    <3> TAKE k \in a..last
    <3>1. k \in 0..(N - 1)
      BY <1>12
    <3>2. PICK i \in S : Place(S, i) = k
      BY <1>7, <3>1
    <3>3. i \in T
      BY <1>10, <3>2
    <3>4. g[i] = k
      BY <2>1, <3>2, <3>3
    <3>5. QED
      BY <3>3, <3>4
  <2> HIDE DEF g
  <2>5. QED
    BY <2>2, <2>3, <2>4 DEF Bijection, Injection, Surjection, IsInjective
<1>14. Cardinality(T) = Cardinality(a..last)
  <2> HIDE DEF g
  <2>1. ExistsBijection(T, a..last)
    BY <1>13 DEF ExistsBijection
  <2>2. QED
    BY <1>11, <2>1, FS_Bijection
<1>15. Cardinality(a..last) = IF a > last THEN 0 ELSE last - a + 1
  BY <1>8, FS_Interval
<1>16. a <= N
  BY DEF N
<1>17. (IF a > last THEN 0 ELSE last - a + 1) = IF a + l <= N THEN l ELSE N - a
  BY <1>1, <1>16 DEF last
<1>18. Cardinality(T) = IF a + l <= N THEN l ELSE N - a
  BY <1>14, <1>15, <1>17
<1>19. QED
  BY <1>18 DEF T, N

(* The listing of a call is the one the model speaks of. *)
LEMMA ListingIs ==
  ASSUME NEW x
  PROVE  LET all == ListedIn(source, remote, x)
         IN  /\ Listed(x) = all /\ Resources(x) = ResourcesIn(source, remote, x)
             /\ \A i : Cardinality(Earlier(x, i)) = Place(all, i)
             /\ Skip(x) = SkipIn(source, x)
             /\ Page(x) = {i \in all : source = "code"
                             \/ Place(all, i) \in SkipIn(source, x)..(SkipIn(source, x) + x["limit"] - 1)}
<1> DEFINE all == ListedIn(source, remote, x)
<1>1. Scope(x) = ScopeIn(source, x)
  BY DEF Scope, ScopeIn
<1>2. Listed(x) = all
  BY <1>1 DEF Listed, ListedIn, Live
<1> HIDE DEF all
<1>3. Resources(x) = ResourcesIn(source, remote, x)
  BY <1>2 DEF Resources, ResourcesIn, all
<1>4. \A i : Cardinality(Earlier(x, i)) = Place(all, i)
  BY <1>2 DEF Earlier, Place
<1>5. Skip(x) = SkipIn(source, x)
  BY DEF Skip, SkipIn, Numbered, ByNumber
<1>6. Page(x) = {i \in all : source = "code"
                   \/ Place(all, i) \in SkipIn(source, x)..(SkipIn(source, x) + x["limit"] - 1)}
  BY <1>2, <1>4, <1>5 DEF Page
<1>7. QED
  BY <1>2, <1>3, <1>4, <1>5, <1>6 DEF all

(* What the source answers with a page. *)
Counts(x, reply) ==
    LET N == Cardinality(ListedIn(source, remote, x))
        skip == SkipIn(source, x)
        lim == x["limit"]
        count == IF skip + lim <= N THEN lim ELSE N - skip
    IN  /\ reply["count"] = count /\ reply["total"] = N
        /\ reply["pages"] = (N + lim - 1) \div lim
        /\ reply["more"] = (skip + count < N)
        /\ reply["token"] = IF skip + count < N \/ source \in {"discussion", "project"}
                            THEN Cursor(skip + count)
                            ELSE IF source = "slack" THEN Empty ELSE Nowhere

LEMMA ReplyIs ==
  ASSUME source # "code", NEW x, x["limit"] \in 1..2, SkipIn(source, x) \in Nat,
         SkipIn(source, x) <= Cardinality(ListedIn(source, remote, x))
  PROVE  Counts(x, PageReply(x))
<1> DEFINE all == ListedIn(source, remote, x)
           N == Cardinality(all)
           skip == SkipIn(source, x)
           lim == x["limit"]
           count == IF skip + lim <= N THEN lim ELSE N - skip
           size == Cardinality(Page(x))
           kept == Cardinality(Page(x) \cap Resources(x))
           reply == PageReply(x)
<1>1. all \subseteq Item
  BY ListedIsFinite
<1>2. /\ Listed(x) = all /\ Skip(x) = skip
      /\ Page(x) = {i \in all : Place(all, i) \in skip..(skip + lim - 1)}
  BY ListingIs
<1>3. size = count
  <2> DEFINE a == skip
             l == lim
             S == all
  <2>1. a \in Nat /\ l \in Nat \ {0} /\ a <= Cardinality(S) /\ S \subseteq Item
    BY <1>1
  <2>2. size = Cardinality({i \in S : Place(S, i) \in a..(a + l - 1)})
    BY <1>2
  <2> HIDE DEF a, l, S, size
  <2>3. size = IF a + l <= Cardinality(S) THEN l ELSE Cardinality(S) - a
    BY <2>1, <2>2, PageCount
  <2>4. QED
    BY <2>3 DEF a, l, S
<1>4. reply = [count |-> size, kept |-> kept, total |-> N, pages |-> (N + lim - 1) \div lim,
               more |-> skip + size < N,
               token |-> IF skip + size < N \/ source \in {"discussion", "project"} THEN Cursor(skip + size)
                         ELSE IF source = "slack" THEN Empty ELSE Nowhere]
  BY <1>2 DEF PageReply
<1> HIDE DEF all, skip, lim, reply, size, kept
<1>5. /\ reply["count"] = size /\ reply["total"] = N
      /\ reply["pages"] = (N + lim - 1) \div lim
      /\ reply["more"] = (skip + size < N)
      /\ reply["token"] = IF skip + size < N \/ source \in {"discussion", "project"}
                          THEN Cursor(skip + size) ELSE IF source = "slack" THEN Empty ELSE Nowhere
  BY <1>4, Zenon
<1>6. QED
  BY <1>3, <1>5, Zenon DEF Counts, all, skip, lim, reply, N, count

(* Where a cursor points. *)
LEMMA CursorIs ==
  ASSUME NEW x, x["limit"] \in 1..2, SkipIn(source, x) \in Nat,
         \/ x["cursor"] = Nowhere
         \/ \E n \in Nat : x["cursor"] = Cursor(n) /\ (ByNumber(source, x) => n > 0)
  PROVE  /\ ByNumber(source, x) => /\ PageNumber(x["cursor"]) \in Nat /\ PageNumber(x["cursor"]) > 0
                                   /\ SkipIn(source, x) = (PageNumber(x["cursor"]) - 1) * x["limit"]
         /\ ~ ByNumber(source, x) => StartOffset(x["cursor"]) = SkipIn(source, x)
<1>1. \A n : Cursor(n) # Nowhere
  <2> TAKE n
  <2>1. Len(<<n>>) = 1 /\ Len(<<>>) = 0
    OBVIOUS
  <2>2. <<n>> # <<>>
    BY <2>1
  <2>3. QED
    BY <2>2 DEF Cursor, Nowhere
<1>2. ByNumber(source, x) => PageNumber(x["cursor"]) \in Nat /\ PageNumber(x["cursor"]) > 0
  <2>1. CASE x["cursor"] = Nowhere
    BY <2>1 DEF PageNumber, Numeric
  <2>2. CASE \E n \in Nat : x["cursor"] = Cursor(n) /\ (ByNumber(source, x) => n > 0)
    <3>1. PICK n \in Nat : x["cursor"] = Cursor(n) /\ (ByNumber(source, x) => n > 0)
      BY <2>2
    <3>2. PageNumber(x["cursor"]) = Cursor(n)[1]
      BY <1>1, <3>1 DEF PageNumber, Numeric
    <3>3. Cursor(n)[1] = n
      BY DEF Cursor
    <3>4. QED
      BY <3>1, <3>2, <3>3
  <2>3. QED
    BY <2>1, <2>2
<1>3. QED
  BY <1>2 DEF SkipIn

(* The cursor of the next page, or of none. *)
Follows(x, next) ==
    LET N == Cardinality(ListedIn(source, remote, x))
        skip == SkipIn(source, x)
        lim == x["limit"]
    IN  \/ next = Nowhere /\ N <= skip + lim
        \/ /\ skip + lim <= N
           /\ \E m \in Nat : /\ next = Cursor(m)
                             /\ ByNumber(source, x) => m > 0 /\ (m - 1) * lim = skip + lim
                             /\ ~ ByNumber(source, x) => m = skip + lim

LEMMA NextPage ==
  ASSUME source \in Source, source # "code", NEW x, x["op"] \in {"list", "search"}, x["limit"] \in 1..2,
         SkipIn(source, x) \in Nat, SkipIn(source, x) <= Cardinality(ListedIn(source, remote, x)),
         \/ x["cursor"] = Nowhere
         \/ \E n \in Nat : x["cursor"] = Cursor(n) /\ (ByNumber(source, x) => n > 0)
  PROVE  Follows(x, NextCursor(source, x, PageReply(x)))
<1> DEFINE N == Cardinality(ListedIn(source, remote, x))
           skip == SkipIn(source, x)
           lim == x["limit"]
           count == IF skip + lim <= N THEN lim ELSE N - skip
           reply == PageReply(x)
           cursor == x["cursor"]
           p == PageNumber(cursor)
           o == StartOffset(cursor)
           next == NextCursor(source, x, reply)
<1>1. N \in Nat
  BY ListedIsFinite
<1>2. skip \in Nat /\ skip <= N /\ lim \in 1..2
  OBVIOUS
<1>3. Counts(x, reply)
  BY ReplyIs
<1> HIDE DEF reply
<1>4. /\ reply["count"] = count /\ reply["total"] = N
      /\ reply["pages"] = (N + lim - 1) \div lim
      /\ reply["more"] = (skip + count < N)
      /\ reply["token"] = IF skip + count < N \/ source \in {"discussion", "project"}
                          THEN Cursor(skip + count)
                          ELSE IF source = "slack" THEN Empty ELSE Nowhere
  BY <1>3, Zenon DEF Counts
<1>5. /\ ByNumber(source, x) => p \in Nat /\ p > 0 /\ skip = (p - 1) * lim
      /\ ~ ByNumber(source, x) => o = skip
  BY CursorIs
<1> HIDE DEF N, skip, lim, p, o
<1>6. /\ skip + count < N => count = lim /\ skip + lim < N
      /\ ~ (skip + count < N) => N <= skip + lim
      /\ count = lim => skip + lim <= N
      /\ count # lim => N <= skip + lim
      /\ ~ (count > 0) => N <= skip + lim
      /\ skip + count > 0 \/ ~ (skip + count < N)
  BY <1>1, <1>2
<1>7. ASSUME NEW m \in Nat, m - 1 = p, ByNumber(source, x) PROVE m > 0 /\ (m - 1) * lim = skip + lim
  <2>1. m = p + 1 /\ p \in Nat /\ skip = (p - 1) * lim /\ lim \in {1, 2}
    BY <1>2, <1>5, <1>7
  <2>2. CASE lim = 1
    BY <2>1, <2>2
  <2>3. CASE lim = 2
    BY <2>1, <2>3
  <2>4. QED
    BY <2>1, <2>2, <2>3
<1> HIDE DEF count, next
<1>8. ASSUME source \in {"issue", "slack"}, ByNumber(source, x), skip + lim <= N, next = Cursor(p + 1)
      PROVE  Follows(x, next)
  <2> DEFINE m == p + 1
  <2>1. m \in Nat /\ m - 1 = p
    BY <1>5, <1>8
  <2> HIDE DEF m
  <2>2. m > 0 /\ (m - 1) * lim = skip + lim
    BY <1>7, <1>8, <2>1
  <2>3. next = Cursor(m)
    BY <1>8 DEF m
  <2>4. QED
    BY <1>8, <2>1, <2>2, <2>3 DEF Follows, N, skip, lim
<1>9. ASSUME ~ ByNumber(source, x), skip + lim <= N, next = Cursor(skip + lim)
      PROVE  Follows(x, next)
  <2>1. skip + lim \in Nat
    BY <1>2
  <2>2. QED
    BY <1>9, <2>1 DEF Follows, N, skip, lim
<1>10. ASSUME N <= skip + lim, next = Nowhere
       PROVE  Follows(x, next)
  BY <1>10 DEF Follows, N, skip, lim
<1> HIDE DEF cursor
<1> SUFFICES Follows(x, next)
  BY DEF next, reply
<1>11. CASE source \in {"drive", "confluence", "teams", "calendar", "calendly"}
  <2>1. ~ ByNumber(source, x) /\ next = reply["token"]
    BY <1>11 DEF ByNumber, next, NextCursor, DriveNext, ConfluenceNext, TeamsNext, CalendarNext, CalendlyNext
  <2>2. next = IF skip + count < N THEN Cursor(skip + count) ELSE Nowhere
    BY <1>4, <1>11, <2>1
  <2>3. QED
    BY <1>6, <1>9, <1>10, <2>1, <2>2
<1>12. CASE source \in {"notion", "discussion", "project"}
  <2>1. ~ ByNumber(source, x) /\ next = IF reply["more"] THEN reply["token"] ELSE Nowhere
    BY <1>12 DEF ByNumber, next, NextCursor, NotionQueryDatabaseNext, NotionSearchAllNext, DiscussionNext,
                 ProjectNext
  <2>2. next = IF skip + count < N THEN Cursor(skip + count) ELSE Nowhere
    BY <1>4, <2>1
  <2>3. QED
    BY <1>6, <1>9, <1>10, <2>1, <2>2
<1>13. CASE source = "slack" /\ x["op"] # "search"
  <2>1. ~ ByNumber(source, x) /\ next = IF reply["token"] = Empty THEN Nowhere ELSE reply["token"]
    BY <1>13 DEF ByNumber, next, NextCursor, SlackNext
  <2>2. reply["token"] = IF skip + count < N THEN Cursor(skip + count) ELSE Empty
    BY <1>4, <1>13
  <2>3. ASSUME skip + count < N PROVE Cursor(skip + count) # Empty
    <3>1. skip + count # 0
      BY <1>1, <1>2, <1>6, <2>3 DEF count
    <3> DEFINE k == skip + count
    <3> HIDE DEF k
    <3>2. <<k>>[1] = k /\ <<0>>[1] = 0 /\ k # 0
      BY <3>1 DEF k
    <3>3. <<k>> # <<0>>
      BY <3>2
    <3>4. QED
      BY <3>3 DEF Cursor, Empty, k
  <2>4. next = IF skip + count < N THEN Cursor(skip + count) ELSE Nowhere
    BY <2>1, <2>2, <2>3
  <2>5. QED
    BY <1>6, <1>9, <1>10, <2>1, <2>4
<1>14. CASE source = "slack" /\ x["op"] = "search"
  <2>1. ByNumber(source, x)
        /\ next = IF p < reply["pages"] THEN Cursor(p + 1) ELSE Nowhere
    BY <1>14 DEF ByNumber, next, NextCursor, SlackSearchNext, p, cursor
  <2>2. p < reply["pages"] <=> skip + lim < N
    <3>1. reply["pages"] = (N + lim - 1) \div lim /\ p \in Nat /\ p > 0 /\ skip = (p - 1) * lim
      BY <1>4, <1>5, <2>1
    <3>2. CASE lim = 1
      <4>1. (N + 1 - 1) \div 1 = N
        BY <1>1
      <4>2. QED
        BY <1>1, <3>1, <3>2, <4>1
    <3>3. CASE lim = 2
      <4> DEFINE k == (N + 1) \div 2
      <4>1. (N + 2 - 1) = N + 1
        BY <1>1
      <4>2. k \in Nat /\ (N + 1 = 2 * k \/ N + 1 = 2 * k + 1)
        BY <1>1
      <4>3. reply["pages"] = k
        BY <3>1, <3>3, <4>1
      <4> HIDE DEF k
      <4>4. QED
        BY <1>1, <3>1, <3>3, <4>2, <4>3
    <3>4. QED
      BY <1>2, <3>2, <3>3
  <2>3. QED
    BY <1>1, <1>2, <1>8, <1>10, <1>14, <2>1, <2>2
<1>15. CASE source = "calcom"
  <2>1. ~ ByNumber(source, x) /\ next = IF reply["count"] = lim THEN Cursor(o + lim) ELSE Nowhere
    BY <1>15 DEF ByNumber, next, NextCursor, CalcomNext, o, lim, cursor
  <2>2. QED
    BY <1>4, <1>5, <1>6, <1>9, <1>10, <2>1
<1>16. CASE source = "memory"
  <2>1. ~ ByNumber(source, x) /\ next = IF o + lim < reply["total"] THEN Cursor(o + lim) ELSE Nowhere
    BY <1>16 DEF ByNumber, next, NextCursor, MemoryNext, o, lim, cursor
  <2>2. QED
    BY <1>1, <1>2, <1>4, <1>5, <1>9, <1>10, <2>1
<1>17. CASE source = "jira"
  <2>1. ~ ByNumber(source, x)
        /\ next = IF o + reply["count"] < reply["total"] /\ reply["count"] > 0
                  THEN Cursor(o + reply["count"]) ELSE Nowhere
    BY <1>17 DEF ByNumber, next, NextCursor, JiraNext, o, cursor
  <2>2. next = IF skip + count < N /\ count > 0 THEN Cursor(skip + count) ELSE Nowhere
    BY <1>4, <1>5, <2>1
  <2>3. CASE skip + count < N /\ count > 0
    BY <1>1, <1>2, <1>6, <1>9, <2>1, <2>2, <2>3
  <2>4. CASE ~ (skip + count < N /\ count > 0)
    BY <1>6, <1>10, <2>2, <2>4
  <2>5. QED
    BY <2>3, <2>4
<1>18. CASE source = "issue" /\ x["op"] = "search"
  <2>1. ByNumber(source, x)
        /\ next = IF p * lim < reply["total"] /\ reply["count"] > 0 THEN Cursor(p + 1) ELSE Nowhere
    BY <1>18 DEF ByNumber, next, NextCursor, IssueSearchNext, p, lim, cursor
  <2>2. p * lim = skip + lim
    <3>1. p \in Nat /\ skip = (p - 1) * lim /\ lim \in {1, 2}
      BY <1>2, <1>5, <2>1
    <3>2. CASE lim = 1
      BY <3>1, <3>2
    <3>3. CASE lim = 2
      BY <3>1, <3>3
    <3>4. QED
      BY <3>1, <3>2, <3>3
  <2>3. next = IF skip + lim < N /\ count > 0 THEN Cursor(p + 1) ELSE Nowhere
    BY <1>4, <2>1, <2>2
  <2>4. QED
    BY <1>1, <1>2, <1>6, <1>8, <1>10, <1>18, <2>1, <2>3
<1>19. CASE source = "issue" /\ x["op"] # "search"
  <2>1. ByNumber(source, x) /\ next = IF reply["count"] = lim THEN Cursor(p + 1) ELSE Nowhere
    BY <1>19 DEF ByNumber, next, NextCursor, IssueListNext, p, lim, cursor
  <2>2. QED
    BY <1>4, <1>6, <1>8, <1>10, <1>19, <2>1
<1>20. source \in {"memory", "notion", "drive", "confluence", "slack", "teams", "calendar", "calcom",
                   "calendly", "jira", "issue", "discussion", "project"}
  BY SourceAssumption
<1>21. QED
  BY <1>11, <1>12, <1>13, <1>14, <1>15, <1>16, <1>17, <1>18, <1>19, <1>20

(* What a page adds to what was seen. *)
LEMMA SeenGrows ==
  ASSUME NEW x, x["limit"] \in 1..2, Lists(source, remote, x)
  PROVE  LET all == ListedIn(source, remote, x)
             res == ResourcesIn(source, remote, x)
             now == x["seen"] \cup (Page(x) \cap Resources(x))
             end == SkipIn(source, x) + x["limit"]
         IN  /\ source = "code" => now = res
             /\ source # "code" => now = {i \in res : Place(all, i) < end}
             /\ Cardinality(all) <= end => {i \in res : Place(all, i) < end} = res
<1> DEFINE all == ListedIn(source, remote, x)
           res == ResourcesIn(source, remote, x)
           seen == x["seen"]
           page == Page(x) \cap Resources(x)
           skip == SkipIn(source, x)
           lim == x["limit"]
           N == Cardinality(all)
<1>1. seen = {i \in res : Place(all, i) < skip} /\ skip \in Nat /\ lim \in 1..2
  BY DEF Lists
<1>2. res \subseteq all /\ all \subseteq Item
  BY ListedIsFinite DEF ResourcesIn
<1>3. N \in Nat
  BY ListedIsFinite
<1>4. page = {i \in res : source = "code" \/ Place(all, i) \in skip..(skip + lim - 1)}
  <2>1. /\ Resources(x) = res
        /\ Page(x) = {i \in all : source = "code" \/ Place(all, i) \in skip..(skip + lim - 1)}
    BY ListingIs
  <2> HIDE DEF all, res, skip, lim
  <2>2. QED
    BY <1>2, <2>1
<1> HIDE DEF all, res, seen, page, skip, lim
<1>5. \A i \in res : Place(all, i) \in Nat /\ Place(all, i) < N
  BY <1>2, PlacesAre DEF N
<1> HIDE DEF N
<1>6. source = "code" => seen \cup page = res
  BY <1>1, <1>4
<1>7. source # "code" => seen \cup page = {i \in res : Place(all, i) < skip + lim}
  <2> SUFFICES ASSUME source # "code"
               PROVE  \A i \in res : (Place(all, i) < skip \/ Place(all, i) \in skip..(skip + lim - 1))
                                       <=> Place(all, i) < skip + lim
    BY <1>1, <1>4
  <2> TAKE i \in res
  <2> DEFINE k == Place(all, i)
  <2>1. k \in Nat
    BY <1>5
  <2> HIDE DEF k
  <2>2. (k < skip \/ k \in skip..(skip + lim - 1)) <=> k < skip + lim
    BY <1>1, <2>1
  <2>3. QED
    BY <2>2 DEF k
<1>8. ASSUME N <= skip + lim
      PROVE  {i \in res : Place(all, i) < skip + lim} = res
  <2>1. \A i \in res : Place(all, i) < skip + lim
    <3> TAKE i \in res
    <3> DEFINE k == Place(all, i)
    <3>1. k \in Nat /\ k < N
      BY <1>5
    <3> HIDE DEF k
    <3>2. k < skip + lim
      BY <1>1, <1>3, <1>8, <3>1
    <3>3. QED
      BY <3>2 DEF k
  <2>2. QED
    BY <2>1
<1>9. QED
  BY <1>6, <1>7, <1>8 DEF all, res, seen, page, skip, lim, N

(* Listing and searching. *)
LEMMA PageGoes ==
  ASSUME source \in Source, NEW c, NEW x, IsCall(x), x["pc"] = "running", x["op"] \in {"list", "search"},
         x["limit"] \in 1..2, Lists(source, remote, x)
  PROVE  Goes(remote, c, TakePage(x))
<1> DEFINE q == TakePage(x)
           next == NextCursor(source, x, PageReply(x))
           all == ListedIn(source, remote, x)
           res == ResourcesIn(source, remote, x)
           now == x["seen"] \cup (Page(x) \cap Resources(x))
           skip == SkipIn(source, x)
           end == skip + x["limit"]
<1>1. /\ SameBut(x, q, {"seen", "cursor", "pc", "todo"})
      /\ q["seen"] = now /\ q["cursor"] = next
      /\ next = Nowhere => q["pc"] = "done"
      /\ next # Nowhere => q["pc"] = "running" /\ q["todo"] = x["script"]
  BY TakePageIs
<1>2. /\ source = "code" => now = res
      /\ source # "code" => now = {i \in res : Place(all, i) < end}
      /\ Cardinality(all) <= end => {i \in res : Place(all, i) < end} = res
  BY SeenGrows
<1> HIDE DEF q, now
<1>3. q["op"] = x["op"] /\ q["inside"] = x["inside"] /\ q["limit"] = x["limit"] /\ q["script"] = x["script"]
  BY <1>1 DEF SameBut, CallFields
<1>4. ListedIn(source, remote, q) = all /\ ResourcesIn(source, remote, q) = res
      /\ (ByNumber(source, q) <=> ByNumber(source, x))
  BY <1>3 DEF ListedIn, ResourcesIn, ScopeIn, ByNumber
<1>5. CASE source = "code"
  <2>1. next = Nowhere
    BY <1>5 DEF NextCursor
  <2>2. Correct(source, remote, c, q)
    BY <1>1, <1>2, <1>3, <1>4, <1>5 DEF Correct
  <2>3. QED
    BY <1>1, <2>1, <2>2 DEF Goes, q
<1>6. CASE source # "code"
  <2>1. Follows(x, next)
    <3>1. /\ SkipIn(source, x) \in Nat /\ SkipIn(source, x) <= Cardinality(ListedIn(source, remote, x))
          /\ \/ x["cursor"] = Nowhere
             \/ \E n \in Nat : x["cursor"] = Cursor(n) /\ (ByNumber(source, x) => n > 0)
      BY DEF Lists
    <3>2. QED
      BY <1>6, <3>1, NextPage
  <2> HIDE DEF next
  <2>2. CASE next = Nowhere /\ Cardinality(all) <= end
    <3>1. Correct(source, remote, c, q)
      BY <1>1, <1>2, <1>3, <1>4, <1>6, <2>2 DEF Correct
    <3>2. QED
      BY <1>1, <2>2, <3>1 DEF Goes, q
  <2>3. CASE /\ end <= Cardinality(all)
             /\ \E m \in Nat : /\ next = Cursor(m)
                               /\ ByNumber(source, x) => m > 0 /\ (m - 1) * x["limit"] = end
                               /\ ~ ByNumber(source, x) => m = end
    <3>1. PICK m \in Nat : /\ next = Cursor(m)
                           /\ ByNumber(source, x) => m > 0 /\ (m - 1) * x["limit"] = end
                           /\ ~ ByNumber(source, x) => m = end
      BY <2>3
    <3>2. Cursor(m) # Nowhere /\ Cursor(m)[1] = m
      <4>1. Len(<<m>>) = 1 /\ Len(<<>>) = 0 /\ <<m>>[1] = m
        OBVIOUS
      <4>2. <<m>> # <<>>
        BY <4>1
      <4>3. QED
        BY <4>1, <4>2 DEF Cursor, Nowhere
    <3>3. PageNumber(Cursor(m)) = m /\ StartOffset(Cursor(m)) = m
      BY <3>2 DEF PageNumber, StartOffset, Numeric
    <3>4. q["cursor"] = Cursor(m) /\ q["pc"] = "running" /\ q["todo"] = x["script"]
      BY <1>1, <3>1, <3>2
    <3>5. SkipIn(source, q) = end
      BY <1>3, <1>4, <3>1, <3>3, <3>4 DEF SkipIn
    <3>6. end \in Nat
      BY DEF Lists
    <3>7. x["script"][Len(x["script"])] = "page"
      BY DEF Lists
    <3> HIDE DEF all, res, end
    <3>8. Lists(source, remote, q)
      BY <1>1, <1>2, <1>3, <1>4, <1>6, <2>3, <3>1, <3>4, <3>5, <3>6, <3>7 DEF Lists
    <3>9. OnItsWay(source, remote, c, q)
      BY <1>3, <3>8 DEF OnItsWay
    <3>10. QED
      BY <3>4, <3>9 DEF Goes, q
  <2>4. QED
    BY <2>1, <2>2, <2>3 DEF Follows
<1>7. QED
  BY <1>5, <1>6

LEMMA ListGoes ==
  ASSUME source \in Source, NEW c, NEW x, NEW request, Asked(c, x, request), x["op"] \in {"list", "search"}
  PROVE  /\ Effect(c, x, request) = remote
         /\ Goes(remote, c, Answered(c, x, request))
<1> DEFINE todo == x["todo"]
           rest == Tail(todo)
           q == Answered(c, x, request)
           n == Len(todo)
<1>1. /\ IsCall(x) /\ x["pc"] = "running" /\ x["limit"] \in 1..2 /\ Lists(source, remote, x)
      /\ todo \in Seq(Sent(source, x["op"], x["patch"])) /\ todo # <<>> /\ request = Head(todo)
  <2>1. OnItsWay(source, remote, c, x) /\ TypedCall(source, x) /\ CallFine(source, c, x)
    BY DEF Asked
  <2>2. Lists(source, remote, x)
    BY <2>1 DEF OnItsWay
  <2>3. QED
    BY <2>1, <2>2 DEF Asked, TypedCall, CallFine, Busy
<1>2. request \in {"lookup", "page"}
  <2> DEFINE op == x["op"]
  <2>1. MaySend(source, op, x["patch"], request) /\ op \in {"list", "search"}
    BY WhoDrops DEF Sent, Asked
  <2> HIDE DEF op
  <2>2. QED
    BY <2>1 DEF MaySend
<1>3. Effect(c, x, request) = remote
  BY <1>2 DEF Effect
<1>4. CASE request = "page"
  <2>1. q = TakePage(x)
    BY <1>4 DEF Answered
  <2> HIDE DEF q
  <2>2. Goes(remote, c, q)
    BY <1>1, <2>1, PageGoes
  <2>3. QED
    BY <1>3, <2>2 DEF q
<1>5. CASE request = "lookup"
  <2>1. Ended1(x, q, {})
    BY <1>1, <1>5, PlainEnds
  <2>2. todo[n] = "page"
    BY <1>1 DEF Lists
  <2>3. /\ n \in Nat /\ n # 0 /\ Head(todo) = todo[1] /\ Len(rest) = n - 1
        /\ \A k \in 1..(n - 1) : rest[k] = todo[k + 1]
    <3> HIDE DEF todo
    <3>1. QED
      BY <1>1, HeadTailProperties
  <2> HIDE DEF q, rest, todo, n
  <2>4. n # 1
    BY <1>1, <1>5, <2>2, <2>3
  <2>5. rest[Len(rest)] = "page"
    <3>1. n - 1 \in 1..(n - 1) /\ (n - 1) + 1 = n
      BY <2>3, <2>4
    <3>2. QED
      BY <2>2, <2>3, <3>1
  <2>6. /\ q["pc"] = "running" /\ q["todo"] = rest
        /\ q["op"] = x["op"] /\ q["inside"] = x["inside"] /\ q["limit"] = x["limit"]
        /\ q["script"] = x["script"] /\ q["cursor"] = x["cursor"] /\ q["seen"] = x["seen"]
    <3>1. Len(x["todo"]) # 1
      BY <2>4 DEF n, todo
    <3>2. q["pc"] = x["pc"] /\ q["todo"] = Tail(x["todo"]) /\ SameBut(x, q, {"pc", "todo"} \cup {})
      BY <2>1, <3>1 DEF Ended1
    <3>3. q["todo"] = rest
      BY <3>2 DEF rest, todo
    <3>4. QED
      BY <1>1, <3>2, <3>3 DEF SameBut, CallFields
  <2>7. /\ ListedIn(source, remote, q) = ListedIn(source, remote, x)
        /\ ResourcesIn(source, remote, q) = ResourcesIn(source, remote, x)
        /\ (ByNumber(source, q) <=> ByNumber(source, x)) /\ SkipIn(source, q) = SkipIn(source, x)
    BY <2>6 DEF ListedIn, ResourcesIn, ScopeIn, ByNumber, SkipIn
  <2>8. Lists(source, remote, q)
    BY <1>1, <2>5, <2>6, <2>7 DEF Lists
  <2>9. OnItsWay(source, remote, c, q)
    BY <2>6, <2>8 DEF OnItsWay
  <2>10. QED
    BY <1>3, <2>6, <2>9 DEF Goes, q
<1>6. QED
  BY <1>2, <1>4, <1>5

-----------------------------------------------------------------------------
(* What was answered is true. *)
LEMMA AnswerGoes ==
  ASSUME source \in Source, Stocked(remote), \A i \in Item : Full(remote[i]),
         NEW c \in Caller, NEW x, NEW request, Asked(c, x, request)
  PROVE  Goes(Effect(c, x, request), c, Answered(c, x, request))
<1> DEFINE op == x["op"]
<1>1. op \in {"list", "search", "read", "create", "update", "delete"}
  BY DEF Asked, CallFine, Operation
<1>2. CASE op = "read"
  <2>1. Effect(c, x, request) = remote /\ Goes(remote, c, Answered(c, x, request))
    BY <1>2, ReadGoes
  <2>2. QED
    BY <2>1, Zenon
<1>3. CASE op \in {"list", "search"}
  <2>1. Effect(c, x, request) = remote /\ Goes(remote, c, Answered(c, x, request))
    BY <1>3, ListGoes
  <2>2. QED
    BY <2>1, Zenon
<1>4. CASE op = "update"
  BY <1>4, UpdateGoes
<1>5. CASE op = "create"
  BY <1>5, CreateGoes
<1>6. CASE op = "delete"
  BY <1>6, DeleteGoes
<1>7. QED
  BY <1>1, <1>2, <1>3, <1>4, <1>5, <1>6

(* Answers that have no body are read as answers. *)
LEMMA EmptyAnswered ==
  ASSUME NEW request, NoContent(request)
  PROVE  Transport(source, request)["empty"] = "answered"
<1>1. source \in {"jira", "confluence", "drive", "calendar"}
  BY DEF NoContent
<1>2. source = "drive" => request = "remove"
  BY DEF NoContent
<1>3. CASE source \in {"jira", "confluence"}
  BY <1>3 DEF Transport, AtlassianTransport
<1>4. CASE source = "drive"
  BY <1>2, <1>4 DEF Transport, DriveTransport
<1>5. CASE source = "calendar"
  BY <1>5 DEF Transport, CalendarTransport
<1>6. QED
  BY <1>1, <1>3, <1>4, <1>5

(* An answer says nothing of who came between. *)
LEMMA SameMeets ==
  ASSUME NEW x, NEW q, NEW changed, SameBut(x, q, changed),
         changed \cap {"calm", "faulted", "sent"} = {}
  PROVE  q["calm"] = x["calm"] /\ q["faulted"] = x["faulted"] /\ q["sent"] = x["sent"]
BY DEF SameBut, CallFields

LEMMA AnswerKeeps ==
  ASSUME NEW S, NEW c, NEW x, IsCall(x), Busy(S, x), NEW request
  PROVE  LET q == Answered(c, x, request)
         IN  q["calm"] = x["calm"] /\ q["faulted"] = x["faulted"] /\ q["sent"] = x["sent"]
<1> DEFINE q == Answered(c, x, request)
           Met(y) == y["calm"] = x["calm"] /\ y["faulted"] = x["faulted"] /\ y["sent"] = x["sent"]
<1>0. {"held", "item", "blocks"} \subseteq CallFields
  BY DEF CallFields
<1>1. ASSUME NEW f \in {"held", "item", "blocks"}, NEW v
      PROVE  IsCall([x EXCEPT ![f] = v]) /\ Met([x EXCEPT ![f] = v])
  <2> DEFINE y == [x EXCEPT ![f] = v]
  <2>1. f \in CallFields
    BY <1>0
  <2>2. SameBut(x, y, {f})
    BY <2>1, SetIs, Zenon
  <2> HIDE DEF y
  <2>3. {f} \cap {"calm", "faulted", "sent"} = {}
    OBVIOUS
  <2>4. IsCall(y) /\ Met(y)
    BY <2>2, <2>3, SameMeets DEF SameBut
  <2>5. QED
    BY <2>4 DEF y
<1>2. ASSUME NEW y, IsCall(y), Met(y)
      PROVE  Met(Done(y))
  <2> DEFINE z == Done(y)
  <2>1. SameBut(y, z, {"pc", "todo"})
    BY <1>2, DoneIs
  <2> HIDE DEF z
  <2>2. z["calm"] = y["calm"] /\ z["faulted"] = y["faulted"] /\ z["sent"] = y["sent"]
    BY <2>1 DEF SameBut, CallFields
  <2>3. Met(z)
    BY <1>2, <2>2
  <2>4. QED
    BY <2>3 DEF z
<1>3. Met(x)
  OBVIOUS
<1> HIDE DEF Met
<1>4. Met(q)
  <2>1. CASE request = "get"
    <3>1. \E held : Hold(x) = [x EXCEPT !["held"] = held]
      BY DEF Hold
    <3>2. IsCall(Hold(x)) /\ Met(Hold(x))
      BY <1>1, <3>1
    <3>3. q = Done(Hold(x))
      BY <2>1 DEF Answered
    <3>4. QED
      BY <1>2, <3>2, <3>3
  <2>2. CASE request = "export"
    <3> DEFINE held == [x.held EXCEPT !.body = remote[x.item].body]
               y == [x EXCEPT !["held"] = held]
    <3>1. q = Done(y)
      BY <2>2 DEF Answered
    <3> HIDE DEF held
    <3>2. IsCall(y) /\ Met(y)
      BY <1>1
    <3>3. QED
      BY <1>2, <3>1, <3>2
  <2>3. CASE request = "blocks"
    <3>1. q = TakeBlocks(x)
      BY <2>3 DEF Answered
    <3>2. BlocksTaken(x, q)
      BY <3>1, TakeBlocksIs
    <3> HIDE DEF q
    <3>3. SameBut(x, q, {"pc", "todo", "held", "blocks", "pages"})
      BY <3>2 DEF BlocksTaken
    <3>4. QED
      BY <3>3 DEF SameBut, CallFields, Met
  <2>4. CASE request = "drop"
    <3> DEFINE y == [x EXCEPT !["blocks"] = Tail(x.blocks)]
    <3>1. q = IF y.blocks = <<>> THEN Done(y) ELSE y
      BY <2>4 DEF Answered, DropBlock
    <3>2. IsCall(y) /\ Met(y)
      BY <1>1
    <3> HIDE DEF y, q
    <3>3. QED
      BY <1>2, <3>1, <3>2
  <2>5. CASE request = "page"
    <3>1. q = TakePage(x)
      BY <2>5 DEF Answered
    <3>2. SameBut(x, q, {"seen", "cursor", "pc", "todo"})
      BY <3>1, TakePageIs
    <3> HIDE DEF q
    <3>3. QED
      BY <3>2 DEF SameBut, CallFields, Met
  <2>6. CASE request \in {"post", "postTitle"}
    <3> DEFINE y == [x EXCEPT !["item"] = c]
    <3>1. q = Done(y)
      BY <2>6 DEF Answered
    <3>2. IsCall(y) /\ Met(y)
      BY <1>1
    <3>3. QED
      BY <1>2, <3>1, <3>2
  <2>7. CASE request \notin {"get", "export", "blocks", "drop", "page", "post", "postTitle"}
    <3>1. q = Done(x)
      BY <2>7 DEF Answered
    <3>2. QED
      BY <1>2, <1>3, <3>1
  <2>8. QED
    BY <2>1, <2>2, <2>3, <2>4, <2>5, <2>6, <2>7
<1>5. QED
  BY <1>4 DEF Met

(* A call that was answered, and one that was not, are true of the source  *)
(* as the request left it.                                                 *)
LEMMA AnsweredTrue ==
  ASSUME source \in Source, Stocked(remote), \A i \in Item : Full(remote[i]),
         NEW c \in Caller, NEW x, EachTrue(source, remote, c, x), x["pc"] = "running",
         CallFine(source, c, x), NEW request, request = Head(x["todo"]), Status(x, request) = "ok",
         CallFine(source, c, Answered(c, x, request))
  PROVE  EachTrue(source, Effect(c, x, request), c, Answered(c, x, request))
<1> DEFINE q == Answered(c, x, request)
           now == Effect(c, x, request)
<1>1. TypedCall(source, x) /\ IsCall(x) /\ Busy(Sent(source, x["op"], x["patch"]), x)
  BY DEF EachTrue, CallFine
<1>2. TypedCall(source, q)
  BY <1>1, AnswerTyped
<1>3. q["calm"] = x["calm"] /\ q["faulted"] = x["faulted"]
  BY <1>1, AnswerKeeps
<1>4. Alone(x) => Goes(now, c, q)
  <2> SUFFICES ASSUME Alone(x) PROVE Goes(now, c, q)
    OBVIOUS
  <2>1. OnItsWay(source, remote, c, x)
    BY DEF EachTrue
  <2>2. Asked(c, x, request)
    BY <1>1, <2>1 DEF Asked
  <2>3. QED
    BY <2>2, AnswerGoes
<1> HIDE DEF q, now
<1>5. Alone(q) <=> Alone(x)
  BY <1>3 DEF Alone
<1>6. Goes(now, c, q) => Honest(source, now, c, q) /\ (q["pc"] = "running" => OnItsWay(source, now, c, q))
  BY DEF Goes, Honest
<1>7. EachTrue(source, now, c, q)
  BY <1>2, <1>4, <1>5, <1>6 DEF EachTrue
<1>8. QED
  BY <1>7 DEF q, now

LEMMA EndedTyped ==
  ASSUME NEW x, IsCall(x), TypedCall(source, x), NEW pc \in Ended
  PROVE  LET q == Finished(x, pc)
         IN  /\ TypedCall(source, q) /\ q["pc"] = pc
             /\ q["calm"] = x["calm"] /\ q["faulted"] = x["faulted"]
<1> DEFINE q == Finished(x, pc)
<1>1. SameBut(x, q, {"pc", "todo"}) /\ q["pc"] = pc
  BY FinishedIs
<1> HIDE DEF q
<1>2. /\ q["op"] = x["op"] /\ q["item"] = x["item"] /\ q["patch"] = x["patch"]
      /\ q["limit"] = x["limit"] /\ q["held"] = x["held"] /\ q["seen"] = x["seen"]
      /\ q["blocks"] = x["blocks"] /\ q["pages"] = x["pages"]
      /\ q["calm"] = x["calm"] /\ q["faulted"] = x["faulted"]
  BY <1>1 DEF SameBut, CallFields
<1>3. q["pc"] \in Ended /\ q["pc"] # "running"
  BY <1>1 DEF Ended
<1>4. TypedCall(source, q)
  BY <1>2, <1>3 DEF TypedCall
<1>5. QED
  BY <1>1, <1>2, <1>4 DEF q

LEMMA RefusedTrue ==
  ASSUME source \in Source, Stocked(remote), \A i \in Item : Full(remote[i]),
         NEW c \in Caller, NEW x, EachTrue(source, remote, c, x), x["pc"] = "running",
         CallFine(source, c, x), Status(x, Head(x["todo"])) # "ok",
         NEW pc, pc = IF Status(x, Head(x["todo"])) = "missing" THEN "missing" ELSE "failed"
  PROVE  EachTrue(source, remote, c, Finished(x, pc))
<1> DEFINE q == Finished(x, pc)
<1>1. TypedCall(source, x) /\ IsCall(x) /\ pc \in Ended /\ pc # "running"
  BY DEF EachTrue, CallFine, Ended
<1>2. /\ TypedCall(source, q) /\ q["pc"] = pc
      /\ q["calm"] = x["calm"] /\ q["faulted"] = x["faulted"]
  BY <1>1, EndedTyped
<1>3. Alone(x) => Honest(source, remote, c, q)
  <2> SUFFICES ASSUME Alone(x) PROVE Honest(source, remote, c, q)
    OBVIOUS
  <2>1. OnItsWay(source, remote, c, x)
    BY DEF EachTrue
  <2>2. QED
    BY <1>1, <2>1, RefusedIsHonest
<1> HIDE DEF q
<1>4. Alone(q) <=> Alone(x)
  BY <1>2 DEF Alone
<1>5. EachTrue(source, remote, c, q)
  BY <1>1, <1>2, <1>3, <1>4 DEF EachTrue
<1>6. QED
  BY <1>5 DEF q

(* A call that sends is as true as it was. *)
LEMMA AskTrue ==
  ASSUME NEW s, NEW rem, NEW c, NEW r, EachTrue(s, rem, c, r), r["pc"] = "running", NEW q, Asking(r, q),
         q["calm"] = r["calm"], q["faulted"] = r["faulted"]
  PROVE  EachTrue(s, rem, c, q)
<1>1. TypedCall(s, r) /\ r["calm"] \in BOOLEAN /\ r["faulted"] \in BOOLEAN
  BY DEF EachTrue, TypedCall
<1>2. \A f \in CallFields \ {"calm", "sent", "faulted"} : q[f] = r[f]
  BY DEF Asking
<1>3. q["calm"] \in BOOLEAN /\ q["faulted"] \in BOOLEAN
  BY <1>1, Zenon
<1>4. TypedCall(s, q)
  BY <1>1, <1>2, <1>3, TypedSame
<1>5. q["pc"] = "running"
  BY AskIs
<1>6. Alone(q) => OnItsWay(s, rem, c, q)
  <2>1. Alone(q) => OnItsWay(s, rem, c, r)
    BY DEF EachTrue, Alone
  <2>2. QED
    BY <2>1, WaySame
<1>7. QED
  BY <1>4, <1>5, <1>6 DEF EachTrue, Honest

LEMMA SendTrue ==
  ASSUME ConnectorsInv, AllTrue(source, remote, call), NEW c \in Caller, Send(c)
  PROVE  AllTrue(source', remote', call')
<1> DEFINE r == call[c]
           ask == [r EXCEPT !.sent = TRUE]
           request == Head(Waiting(c))
           status == Status(ask, request)
           body == IF status = "ok" /\ NoContent(request) THEN "empty" ELSE status
           made == Transport(source, request)[body]
           answered == Answered(c, ask, request)
           failed == Finished(ask, made)
           next == IF request = "site" THEN ask ELSE IF made = "answered" THEN answered ELSE failed
<1>1. /\ AllFine(source, remote, call) /\ CallFine(source, c, r) /\ Stocked(remote)
      /\ source \in Source /\ IsCall(r)
  BY DEF ConnectorsInv, AllFine, CallFine
<1>2. /\ r["pc"] = "running" /\ source' = source /\ Stepped(c, next)
      /\ remote' = IF status = "ok" THEN Effect(c, ask, request) ELSE remote
  BY DEF Send, Stepped
<1>3. /\ Asking(r, ask) /\ ask["calm"] = r["calm"] /\ ask["faulted"] = r["faulted"]
  BY <1>1 DEF Asking, IsCall, CallFields
<1>4. /\ EachTrue(source, remote, c, r) /\ \A i \in Item : Full(remote[i])
  BY DEF AllTrue
<1>5. EachTrue(source, remote, c, ask)
  <2> HIDE DEF r, ask
  <2>1. QED
    BY <1>2, <1>3, <1>4, AskTrue
<1>6. CallFine(source, c, ask) /\ ask["pc"] = "running" /\ ask["todo"] = r["todo"]
  <2> HIDE DEF r, ask
  <2>1. QED
    BY <1>1, <1>2, <1>3, AskStaysFine, AskIs
<1>7. Orderly(c)
  BY SendKeeps
<1>8. call'[c] = next
  BY <1>1, <1>2, StepIs
<1>9. CallFine(source, c, next)
  <2> DEFINE calls == call'
             now == remote'
  <2>1. AllFine(source, now, calls)
    BY <1>2, <1>7 DEF Orderly, ConnectorsInv
  <2>2. calls[c] = next
    BY <1>8
  <2> HIDE DEF calls, next, now
  <2>3. QED
    BY <2>1, <2>2 DEF AllFine
<1>10. \/ request = "site" /\ source \in {"jira", "confluence"}
       \/ request = Head(r.todo) /\ request # "site"
  <2>1. Busy(Sent(source, r["op"], r["patch"]), r)
    BY <1>1, <1>2 DEF CallFine
  <2>2. \/ request = "site" /\ source \in {"jira", "confluence"}
        \/ request = Head(r.todo) /\ request \in Sent(source, r["op"], r["patch"])
    BY <2>1, WaitingIs
  <2>3. QED
    BY <2>2 DEF Sent, Requests
<1>11. status \in {"ok", "missing", "refused"}
  BY StatusIs
<1>12. EachTrue(source, remote', c, next) /\ \A i \in Item : Full(remote'[i])
  <2> DEFINE now == remote'
  <2> SUFFICES EachTrue(source, now, c, next) /\ \A i \in Item : Full(now[i])
    OBVIOUS
  <2>0. now = IF status = "ok" THEN Effect(c, ask, request) ELSE remote
    BY <1>2
  <2> HIDE DEF now, ask
  <2>1. CASE request = "site"
    <3>1. now = remote /\ next = ask
      BY <2>0, <2>1 DEF Status, Effect
    <3> HIDE DEF next
    <3>2. QED
      BY <1>4, <1>5, <3>1
  <2>2. CASE request # "site"
    <3> HIDE DEF request
    <3>1. request = Head(ask["todo"])
      BY <1>6, <1>10, <2>2
    <3>2. CASE status = "ok"
      <4>1. made = "answered"
        BY <1>1, <3>2, TransportIs, EmptyAnswered
      <4>2. next = answered /\ now = Effect(c, ask, request)
        BY <2>0, <2>2, <3>2, <4>1
      <4>3. CallFine(source, c, answered)
        BY <1>9, <4>2, Zenon
      <4>4. Status(ask, request) = "ok"
        BY <3>2
      <4>5. EachTrue(source, Effect(c, ask, request), c, Answered(c, ask, request))
        BY <1>1, <1>4, <1>5, <1>6, <3>1, <4>3, <4>4, AnsweredTrue
      <4>6. \A i \in Item : Full(Effect(c, ask, request)[i])
        <5>1. Full(ask["held"])
          BY <1>5 DEF EachTrue, TypedCall
        <5>2. QED
          BY <1>1, <1>4, <5>1, EffectFull
      <4> HIDE DEF next, answered
      <4>7. answered = Answered(c, ask, request)
        BY DEF answered
      <4>8. QED
        BY <4>2, <4>5, <4>6, <4>7, Zenon
    <3>3. CASE status # "ok"
      <4>1. made = IF status = "missing" THEN "missing" ELSE "failed"
        BY <1>1, <1>11, <3>3, TransportIs
      <4>2. made \in {"missing", "failed"}
        BY <4>1
      <4>3. next = failed /\ now = remote
        BY <2>0, <2>2, <3>3, <4>2
      <4>4. Status(ask, Head(ask["todo"])) # "ok" /\
            made = IF Status(ask, Head(ask["todo"])) = "missing" THEN "missing" ELSE "failed"
        BY <3>1, <3>3, <4>1
      <4> HIDE DEF made, next
      <4>5. EachTrue(source, remote, c, Finished(ask, made))
        BY <1>1, <1>4, <1>5, <1>6, <4>4, RefusedTrue
      <4>6. QED
        BY <1>4, <4>3, <4>5
    <3>4. QED
      BY <3>2, <3>3
  <2>3. QED
    BY <2>1, <2>2
<1>13. QED
  <2> HIDE DEF next
  <2>1. QED
    BY <1>2, <1>12, StepTrue

LEMMA FaultTrue ==
  ASSUME ConnectorsInv, AllTrue(source, remote, call), NEW c \in Caller, NEW lost, Fault(c, lost)
  PROVE  AllTrue(source', remote', call')
<1> DEFINE r == call[c]
           ask == [r EXCEPT !.sent = TRUE, !.faulted = TRUE]
           request == Head(Waiting(c))
           made == Transport(source, request)["refused"]
           next == Finished(ask, made)
           now == remote'
<1>1. /\ Stocked(remote) /\ source \in Source /\ IsCall(r)
  BY DEF ConnectorsInv, AllFine, CallFine
<1>2. made = "failed"
  BY <1>1, TransportIs
<1>3. /\ source' = source /\ Stepped(c, next)
      /\ now = remote \/ now = Effect(c, ask, request)
  BY DEF Fault, Stepped
<1>4. /\ Asking(r, ask) /\ ask["calm"] = r["calm"] /\ ask["faulted"] = TRUE
  BY <1>1 DEF Asking, IsCall, CallFields
<1>5. /\ TypedCall(source, r) /\ \A i \in Item : Full(remote[i])
  BY DEF AllTrue, EachTrue
<1> HIDE DEF ask, made
<1>6. TypedCall(source, ask) /\ IsCall(ask)
  <2>1. r["calm"] \in BOOLEAN
    BY <1>5 DEF TypedCall
  <2>2. \A f \in CallFields \ {"calm", "sent", "faulted"} : ask[f] = r[f]
    BY <1>4 DEF Asking
  <2>3. ask["calm"] \in BOOLEAN /\ ask["faulted"] \in BOOLEAN
    BY <1>4, <2>1, Zenon
  <2> HIDE DEF r
  <2>4. QED
    BY <1>4, <1>5, <2>2, <2>3, TypedSame DEF Asking
<1>7. TypedCall(source, next) /\ next["faulted"] = TRUE
  BY <1>2, <1>4, <1>6, EndedTyped DEF Ended
<1>8. \A i \in Item : Full(now[i])
  <2>1. Full(ask["held"])
    BY <1>6 DEF TypedCall
  <2>2. \A i \in Item : Full(Effect(c, ask, request)[i])
    BY <1>1, <1>5, <2>1, EffectFull
  <2> HIDE DEF now, request
  <2>3. QED
    BY <1>3, <1>5, <2>2
<1> HIDE DEF next
<1>9. EachTrue(source, remote', c, next)
  BY <1>7 DEF EachTrue, Alone
<1>10. QED
  BY <1>3, <1>8, <1>9, StepTrue

-----------------------------------------------------------------------------
(* Before the first call. *)
LEMMA StartsTrue == ConnectorsInit => Truth
<1> SUFFICES ASSUME ConnectorsInit PROVE Truth
  OBVIOUS
<1>1. call = [c \in Caller |-> Nothing] /\ site = FALSE /\ troubles = 0
  BY DEF ConnectorsInit
<1>2. \A c \in Caller : EachTrue(source, remote, c, call[c])
  BY <1>1, NothingTyped
<1>3. /\ <<>> \in Seq(Value) /\ <<"first">> \in Seq(Value) /\ <<"first", "second">> \in Seq(Value)
      /\ "first" \in Value
  BY DEF Value
<1>4. \A i \in Item : \/ remote[i] = Absent
                      \/ \E title \in Value, body \in Seq(Value) : remote[i] = Thing(title, body)
  BY <1>3 DEF ConnectorsInit
<1>5. \A i \in Item : Full(remote[i])
  BY <1>4, FullThings
<1>6. troubles \in 0..MaxTroubles
  BY <1>1, SourceAssumption
<1>7. site \in BOOLEAN
  BY <1>1, Zenon
<1>8. QED
  BY <1>2, <1>5, <1>6, <1>7 DEF Truth, AllTrue

(* What every step leaves true. *)
LEMMA EveryStepTrue ==
  ASSUME ConnectorsInv, AllTrue(source, remote, call), [ConnectorsNext]_connectors
  PROVE  AllTrue(source', remote', call')
<1> DEFINE Goal == AllTrue(source', remote', call')
<1>1. ASSUME UNCHANGED connectors PROVE Goal
  BY <1>1 DEF connectors
<1> HIDE DEF Goal
<1>2. ASSUME NEW c \in Caller, NEW op \in {"read", "delete"}, NEW i \in {"top", "a", "b", "stray"},
             Address(c, op, i, {})
      PROVE  Goal
  <2>1. op \in {"read", "delete", "update"} /\ op # "update" /\ {} \in SUBSET Field
    BY <1>2
  <2>2. QED
    BY <1>2, <2>1, AddressTrue DEF Goal
<1>3. ASSUME NEW c \in Caller, NEW i \in {"top", "a", "stray"}, NEW patch \in Patches[c],
             Address(c, "update", i, patch)
      PROVE  Goal
  <2>1. patch \in SUBSET Field /\ i # "b"
    BY <1>3, SourceAssumption
  <2>2. QED
    BY <1>3, <2>1, AddressTrue DEF Goal
<1>4. ASSUME NEW c \in Caller, NEW op \in {"list", "search"}, NEW inside, NEW there, NEW limit \in 1..2,
             Walk(c, op, inside, there, limit)
      PROVE  Goal
  BY <1>4, WalkTrue DEF Goal
<1>5. ASSUME NEW c \in Caller, NEW there \in BOOLEAN, NEW body \in BOOLEAN, NEW meta \in BOOLEAN,
             CreateIn(c, there, body, meta)
      PROVE  Goal
  BY <1>5, CreateInTrue DEF Goal
<1>6. ASSUME NEW c \in Caller, Send(c) PROVE Goal
  BY <1>6, SendTrue DEF Goal
<1>7. ASSUME NEW c \in Caller, NEW lost, Fault(c, lost) PROVE Goal
  BY <1>7, FaultTrue DEF Goal
<1>8. ASSUME NEW f, Edit(f) PROVE Goal
  BY <1>8, EditTrue DEF Goal
<1>9. Goal
  <2>1. CASE \E c \in Caller, op \in {"read", "delete"}, i \in {"top", "a", "b", "stray"} :
               Address(c, op, i, {})
    BY <1>2, <2>1
  <2>2. CASE \E c \in Caller, i \in {"top", "a", "stray"} :
               \E patch \in Patches[c] : Address(c, "update", i, patch)
    BY <1>3, <2>2
  <2>3. CASE \E c \in Caller, op \in {"list", "search"}, inside, there \in BOOLEAN, limit \in 1..2 :
               Walk(c, op, inside, there, limit)
    BY <1>4, <2>3
  <2>4. CASE \E c \in Caller, there, body, meta \in BOOLEAN : CreateIn(c, there, body, meta)
    BY <1>5, <2>4
  <2>5. CASE \E c \in Caller : Send(c)
    BY <1>6, <2>5
  <2>6. CASE \E c \in Caller, lost \in BOOLEAN : Fault(c, lost)
    BY <1>7, <2>6
  <2>7. CASE \E f \in {"title", "body", "gone"} : Edit(f)
    BY <1>8, <2>7
  <2>8. CASE UNCHANGED connectors
    BY <1>1, <2>8
  <2>9. QED
    BY <2>1, <2>2, <2>3, <2>4, <2>5, <2>6, <2>7, <2>8 DEF ConnectorsNext
<1>10. QED
  BY <1>9 DEF Goal

LEMMA TruthKept ==
  ASSUME ConnectorsInv, Truth, [ConnectorsNext]_connectors
  PROVE  Truth'
<1>1. AllTrue(source', remote', call')
  BY EveryStepTrue, SMTT(60) DEF Truth
<1>2. \/ troubles' = troubles
      \/ troubles < MaxTroubles /\ troubles' = troubles + 1
  BY ZenonT(60) DEF ConnectorsNext, connectors, Address, Walk, CreateIn, Send, Fault, Edit
<1>3. site' = site \/ site' \in BOOLEAN
  BY ZenonT(60) DEF ConnectorsNext, connectors, Address, Walk, CreateIn, Send, Fault, Edit
<1>4. troubles' \in 0..MaxTroubles
  BY <1>2, SourceAssumption DEF Truth
<1>5. site' \in BOOLEAN
  BY <1>3 DEF Truth
<1>6. QED
  BY <1>1, <1>4, <1>5 DEF Truth

(* What is kept, is what answers promise. *)
LEMMA TruthTyped ==
  ASSUME ConnectorsInv, Truth
  PROVE  ConnectorsTypeOK
<1>1. /\ source \in Source /\ Stocked(remote) /\ \A c \in Caller : CallFine(source, c, call[c])
      /\ \A i \in Item : Full(remote[i])
      /\ \A c \in Caller : TypedCall(source, call[c])
      /\ site \in BOOLEAN /\ troubles \in 0..MaxTroubles
  BY DEF ConnectorsInv, AllFine, Truth, AllTrue, EachTrue
<1>2. ASSUME NEW i \in Item
      PROVE  /\ remote[i].state \in {"live", "archived", "absent"}
             /\ remote[i].title \in Value /\ remote[i].other \in Value
             /\ Range(remote[i].body) \subseteq Value
             /\ remote[i].version \in Nat
  <2>1. Full(remote[i]) /\ IsThing(remote[i])
    BY <1>1 DEF Stocked
  <2>2. \A s \in Seq(Value) : Range(s) \subseteq Value
    BY DEF Range
  <2>3. QED
    BY <2>1, <2>2 DEF Full, IsThing
<1>3. ASSUME NEW c \in Caller
      PROVE  /\ call[c].pc \in {"idle", "running", "over"} \cup Ended
             /\ call[c].op \in Operation
             /\ call[c].item \in Item \cup {"none"}
             /\ call[c].patch \subseteq Field
             /\ call[c].seen \subseteq Item
             /\ call[c].limit \in 1..2
             /\ call[c].pages \in 0..BlockPages /\ Len(call[c].blocks) <= BlockPages
  <2>1. TypedCall(source, call[c]) /\ CallFine(source, c, call[c])
    BY <1>1
  <2>2. QED
    BY <2>1 DEF TypedCall, CallFine
<1>4. QED
  BY <1>1, <1>2, <1>3 DEF ConnectorsTypeOK

LEMMA TruthAnswers ==
  ASSUME ConnectorsInv, Truth
  PROVE  AnswersAreTrue
<1>1. ConnectorsTypeOK
  BY TruthTyped
<1>2. ASSUME NEW c \in Caller
      PROVE  LET ask == call[c]
                 alone == ask.calm /\ ~ ask.faulted
             IN  /\ alone /\ ask.pc = "done" =>
                      CASE ask.op = "read" -> Shows(c)
                        [] ask.op = "update" -> Whole(c)
                        [] ask.op = "create" -> /\ remote[c].title = c
                                                /\ remote[c].body = IF ask.body THEN <<c>> ELSE <<>>
                        [] ask.op = "delete" -> ~ Live(ask.item)
                        [] OTHER -> ask.seen = Resources(ask)
                 /\ alone /\ ask.pc = "failed" =>
                      ~ ask.sent \/ (ask.op \in OnOne /\ ask.before.state # "live")
                 /\ alone /\ ask.pc = "missing" =>
                      IF ask.op \in OnOne THEN ask.before.state # "live"
                      ELSE ask.inside /\ ~ Live("top")
  <2> DEFINE ask == call[c]
  <2>1. Alone(ask) => Honest(source, remote, c, ask)
    BY DEF Truth, AllTrue, EachTrue
  <2>2. Alone(ask) <=> ask.calm /\ ~ ask.faulted
    BY DEF Alone
  <2>3. TopLive(remote) <=> Live("top")
    BY DEF TopLive, Live
  <2>4. Resources(ask) = ResourcesIn(source, remote, ask)
    BY ListingIs
  <2>5. ask.op \in Operation
    BY <1>1 DEF ConnectorsTypeOK
  <2>6. Shows(c) <=> /\ ask["held"]["title"] = remote[ask["item"]]["title"]
                     /\ \/ ask["held"]["body"] = remote[ask["item"]]["body"]
                        \/ source = "drive" /\ KindOf[ask["item"]] # "text"
                        \/ Len(remote[ask["item"]]["body"]) > BlockPages
    BY DEF Shows
  <2>7. Whole(c) <=> \A f \in Field : \/ remote[ask["item"]][f] = Due(source, c, ask, f)
                                      \/ f = "body" /\ Long(ask)
    BY DEF Whole, Due, Long
  <2>8. Live(ask.item) <=> ask["item"] \in Item /\ remote[ask["item"]]["state"] = "live"
    BY DEF Live
  <2> DEFINE shows == Shows(c)
             whole == Whole(c)
             alive == Live(ask.item)
             all == Resources(ask)
             top == Live("top")
  <2> HIDE DEF shows, whole, alive, all, top
  <2>9. ASSUME Alone(ask), ask.pc = "done"
        PROVE  CASE ask.op = "read" -> shows
                 [] ask.op = "update" -> whole
                 [] ask.op = "create" -> /\ remote[c].title = c
                                         /\ remote[c].body = IF ask.body THEN <<c>> ELSE <<>>
                 [] ask.op = "delete" -> ~ alive
                 [] OTHER -> ask.seen = all
    <3>1. Correct(source, remote, c, ask)
      BY <2>1, <2>9 DEF Honest
    <3>2. /\ shows <=> /\ ask["held"]["title"] = remote[ask["item"]]["title"]
                       /\ \/ ask["held"]["body"] = remote[ask["item"]]["body"]
                          \/ source = "drive" /\ KindOf[ask["item"]] # "text"
                          \/ Len(remote[ask["item"]]["body"]) > BlockPages
          /\ whole <=> \A f \in Field : \/ remote[ask["item"]][f] = Due(source, c, ask, f)
                                        \/ f = "body" /\ Long(ask)
          /\ alive <=> ask["item"] \in Item /\ remote[ask["item"]]["state"] = "live"
          /\ all = ResourcesIn(source, remote, ask)
      BY <2>4, <2>6, <2>7, <2>8 DEF shows, whole, alive, all
    <3> HIDE DEF ask
    <3>3. QED
      BY <3>1, <3>2 DEF Correct
  <2>10. ASSUME Alone(ask), ask.pc = "failed"
         PROVE  ~ ask.sent \/ (ask.op \in OnOne /\ ask.before.state # "live")
    BY <2>1, <2>10 DEF Honest
  <2>11. ASSUME Alone(ask), ask.pc = "missing"
         PROVE  IF ask.op \in OnOne THEN ask.before.state # "live" ELSE ask.inside /\ ~ top
    BY <2>1, <2>3, <2>11 DEF Honest, top
  <2>12. QED
    BY <2>2, <2>9, <2>10, <2>11 DEF shows, whole, alive, all, top
<1>3. QED
  BY <1>1, <1>2 DEF AnswersAreTrue

(* A call nobody came between is answered in truth (connector.ts           *)
(* Connector), whatever the callers ask of whichever source, as often and  *)
(* in whatever order they do.                                              *)
THEOREM ConnectorAnswersTrue == ConnectorsSpec => []AnswersAreTrue
<1>1. ConnectorsInit => ConnectorsInv /\ Truth
  BY StartsFine, StartsTrue
<1>2. ConnectorsInv /\ Truth /\ [ConnectorsNext]_connectors => ConnectorsInv' /\ Truth'
  BY EveryStep, TruthKept
<1>3. ConnectorsInv /\ Truth => AnswersAreTrue
  BY TruthAnswers
<1>4. QED
  BY <1>1, <1>2, <1>3, PTL DEF ConnectorsSpec

=============================================================================
