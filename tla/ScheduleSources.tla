-------------------------- MODULE ScheduleSources --------------------------
(***************************************************************************)
(* The connectors of calendars and scheduling services: Google Calendar,   *)
(* Cal.com and Calendly.  Calendars and event types are containers that    *)
(* can only be listed and read.                                            *)
(***************************************************************************)
EXTENDS SourceRequests

Bare(parent, prefix) == IF Starts(parent, prefix) THEN Tail(parent) ELSE parent

-----------------------------------------------------------------------------
(* Google Calendar. *)
CalendarResource(n) ==
    IF n.kind = "calendar"
    THEN [id |-> <<"calendar:">> \o n.calendar, parent |-> Nowhere]
    ELSE [id |-> <<"event:">> \o n.calendar \o <<":">> \o n.event,
          parent |-> <<"calendar:">> \o n.calendar]

CalendarRef(id) ==
    LET rest == Tail(id)
        colon == FirstOf(rest, ":")
    IN  IF Starts(id, "calendar:") /\ rest # <<>>
        THEN [kind |-> "calendar", calendar |-> rest]
        ELSE IF Starts(id, "event:") /\ Places(rest, ":") # {} /\ Inside(rest, colon)
        THEN [kind |-> "event", calendar |-> Upto(rest, colon), event |-> From(rest, colon)]
        ELSE Invalid

CalendarContainer(parent) == [kind |-> "calendar", calendar |-> Bare(parent, "calendar:")]

CalendarListEvents(c) == Only(c.parent # Nowhere, <<"page">>)
CalendarList(c) == IF c.inside THEN CalendarListEvents(c) ELSE <<"page">>

CalendarNext(reply) == reply.token

(* An event needs a calendar, a start and an end: the last two are metadata. *)
CalendarCreate(c) == Only(c.parent # Nowhere /\ c.meta, <<"post">>)
CalendarUpdate(c) == Only(c.ref.kind = "event", <<"put">>)
CalendarDelete(c) == Only(c.ref.kind = "event", <<"remove">>)

CalendarScript(c) ==
    CASE c.op = "list" -> CalendarList(c)
      [] c.op = "search" -> <<"page">>     \* of the primary calendar
      [] c.op = "read" -> <<"get">>
      [] c.op = "create" -> CalendarCreate(c)
      [] c.op = "update" -> CalendarUpdate(c)
      [] c.op = "delete" -> CalendarDelete(c)

CalendarWrites(patch) == patch

CalendarTransport == [ok |-> "answered", empty |-> "answered",
                      missing |-> "missing", refused |-> "failed"]

-----------------------------------------------------------------------------
(* Cal.com. *)
CalcomEventType(n) == [id |-> <<"event-type:">> \o n.type, parent |-> Nowhere]

CalcomBooking(n) == [id |-> <<"booking:">> \o n.uid, parent |-> <<"event-type:">> \o n.type]

CalcomResource(n) == IF n.kind = "event-type" THEN CalcomEventType(n) ELSE CalcomBooking(n)

(* A booking's id does not name its event type. *)
CalcomRef(id) ==
    IF id # <<>> /\ Tail(id) # <<>> /\ Head(id) \in {"event-type:", "booking:"}
    THEN [kind |-> IF Head(id) = "booking:" THEN "booking" ELSE "event-type", name |-> Tail(id)]
    ELSE Invalid

CalcomContainer(parent) == [kind |-> "event-type", type |-> Bare(parent, "event-type:")]

CalcomNext(cursor, limit, reply) ==
    IF reply.count = limit THEN Cursor(StartOffset(cursor) + limit) ELSE Nowhere

(* A slot is booked for somebody, at a time: metadata. *)
CalcomCreate(c) == Only((c.parent # Nowhere) /\ c.meta, <<"post">>)

(* The only edit is a new start, which is metadata. *)
CalcomUpdate(c) == Only(c.ref.kind = "booking" /\ "other" \in c.patch, <<"put">>)
CalcomDelete(c) == Only(c.ref.kind = "booking", <<"cancel">>)

CalcomListBookings == <<"page">>
CalcomListEventTypes == <<"page">>

CalcomScript(c) ==
    CASE c.op = "list" -> IF c.inside THEN CalcomListBookings ELSE CalcomListEventTypes
      [] c.op = "read" -> <<"get">>
      [] c.op = "create" -> CalcomCreate(c)
      [] c.op = "update" -> CalcomUpdate(c)
      [] c.op = "delete" -> CalcomDelete(c)
      [] OTHER -> Refused

CalcomWrites(patch) == {"other"}

(* An answer without data is an error, whatever its status. *)
CalcomTransport == [ok |-> "answered", empty |-> "failed",
                    missing |-> "missing", refused |-> "failed"]

-----------------------------------------------------------------------------
(* Calendly: a resource is named by the last segment of its URI, trailing *)
(* slashes apart.                                                          *)
UuidOf(uri) ==
    LET end == CHOOSE i \in 1..Len(uri) :
                   uri[i] # "/" /\ \A j \in (i + 1)..Len(uri) : uri[j] = "/"
        trimmed == Upto(uri, end + 1)
    IN  From(trimmed, LastOf(trimmed, "/"))

CalendlyEventType(n) == [id |-> <<"event-type:">> \o UuidOf(n.uri), parent |-> Nowhere]

CalendlyEvent(n) == [id |-> <<"event:">> \o UuidOf(n.uri),
                     parent |-> <<"event-type:">> \o UuidOf(n.type)]

CalendlyResource(n) == IF n.kind = "event-type" THEN CalendlyEventType(n) ELSE CalendlyEvent(n)

CalendlyRef(id) ==
    IF id # <<>> /\ Tail(id) # <<>> /\ Head(id) \in {"event-type:", "event:"}
    THEN [kind |-> IF Head(id) = "event:" THEN "event" ELSE "event-type", name |-> Tail(id)]
    ELSE Invalid

(* Both listings are of one user, who is asked for first. *)
CalendlyScopedParams == <<"lookup">>
CalendlyList(c) == CalendlyScopedParams \o <<"page">>

CalendlyNext(reply) == reply.token

CalendlyDelete(c) == Only(c.ref.kind = "event", <<"cancel">>)

CalendlyScript(c) ==
    CASE c.op = "list" -> CalendlyList(c)
      [] c.op = "read" -> <<"get">>
      [] c.op = "delete" -> CalendlyDelete(c)
      [] OTHER -> Refused

CalendlyTransport == [ok |-> "answered", empty |-> "answered",
                      missing |-> "missing", refused |-> "failed"]

=============================================================================
