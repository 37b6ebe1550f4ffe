-------------------------------- MODULE Console --------------------------------
(***************************************************************************)
(* The evidence console: requests emit events, the journal numbers them    *)
(* (app/db/run_events.py), the bus fans them out to the open streams of    *)
(* their owner (app/events.py), and a page that lost its stream reads the  *)
(* journal back (app/api/routes_console.py and the pages it serves).       *)
(*                                                                         *)
(* persist_event runs on a thread, so two requests that carry one run id   *)
(* race for its next number.  A replay is a request of its own: rows are   *)
(* read at one moment and drawn at another, when the reader may be         *)
(* looking at a different run.                                             *)
(***************************************************************************)
EXTENDS Journal, Naturals, FiniteSets, SequencesExt

CONSTANTS
  Emits,             \* how many events it emits; none when it is refused
  Judged,            \* the requests that investigate: they end with the verdict
  Attempts,          \* of persist_event
  QueueMax, MaxSubscribers, MaxKeys, MaxTokens, MaxTokensPerOwner, ReplayPage

ASSUME ConsoleAssumption ==
  /\ PageOf \in [Request -> Page] /\ RunOf \in [Request -> Nat \ {0}]
  /\ Emits \in [Request -> Nat] /\ Judged \subseteq Request
  /\ {Attempts, QueueMax, MaxSubscribers, MaxKeys, MaxTokens, MaxTokensPerOwner, ReplayPage}
       \subseteq Nat \ {0}

VARIABLES
  keys,         \* pages whose console token lives, oldest first (demo_token._tokens)
  request,      \* how far each request has come
  subscribers,  \* events._subscribers, oldest first
  tokens,       \* stream_token._tokens
  replay        \* the page's read of the journal

vars == <<keys, journal, request, subscribers, queue, tokens, page, replay>>

Owner == {OwnerOf[p] : p \in Page}
IsVerdict(e) == e[1] \in Judged /\ e[2] = Emits[e[1]]
Rows(key) == {row \in journal : row.key = key}
Numbers(rows) == {row.seq : row \in rows}

Reading(stage, run, after, rows, got, verdict) ==
  [stage |-> stage, run |-> run, after |-> after, rows |-> rows, got |-> got, verdict |-> verdict]
NotReading == Reading("idle", 0, 0, {}, {}, FALSE)
Fresh(stream, run) == [stream |-> stream, run |-> run, shown |-> {}, loose |-> {},
                       completed |-> FALSE, said |-> "nothing"]
Closed == Fresh("off", 0)
Emitting(r, pc, seen, tries, number) ==
  [pc |-> pc, at |-> request[r].at, seen |-> seen, tries |-> tries, number |-> number]
Becomes(r, x) == request' = [request EXCEPT ![r] = x]
Shows(p, x) == page' = [page EXCEPT ![p] = x]
Reads(p, x) == replay' = [replay EXCEPT ![p] = x]

Init ==
  /\ keys = <<>> /\ journal = {} /\ subscribers = <<>> /\ tokens = [o \in Owner |-> 0]
  /\ request = [r \in Request |-> [pc |-> "unsent", at |-> 1, seen |-> 0, tries |-> 0, number |-> 0]]
  /\ queue = [p \in Page |-> <<>>]
  /\ page = [p \in Page |-> Closed]
  /\ replay = [p \in Page |-> NotReading]

-----------------------------------------------------------------------------
(* Credentials: the console token in the page, and the stream-only token *)

HasKey(p) == \E i \in DOMAIN keys : keys[i] = p

\* GET /v1/console: the page is served with a fresh token; over the cap the oldest goes.
Load(p) ==
  /\ ~HasKey(p) /\ page[p] = Closed
  /\ keys' = Append(IF Len(keys) >= MaxKeys THEN Tail(keys) ELSE keys, p)
  /\ UNCHANGED <<journal, request, subscribers, queue, tokens, page, replay>>

KeyExpires(p) ==
  /\ \E i \in DOMAIN keys : keys[i] = p /\ keys' = RemoveAt(keys, i)
  /\ UNCHANGED <<journal, request, subscribers, queue, tokens, page, replay>>

\* Minted stream tokens are held for their five minutes, used or not.
TokenExpires ==
  /\ \E o \in Owner : tokens[o] > 0 /\ tokens' = [tokens EXCEPT ![o] = @ - 1]
  /\ UNCHANGED <<keys, journal, request, subscribers, queue, page, replay>>

-----------------------------------------------------------------------------
(* The stream *)

\* The page's own subscriber goes, unless it was displaced.
Unsubscribe(p) ==
  \/ \E i \in DOMAIN subscribers : subscribers[i].page = p /\ subscribers' = RemoveAt(subscribers, i)
  \/ subscribers' = subscribers /\ \A i \in DOMAIN subscribers : subscribers[i].page # p

\* mint: full means refused, for nobody's live token makes room.
MayMint(o) ==
  /\ FoldFunction(+, 0, tokens) < MaxTokens
  /\ tokens[o] < MaxTokensPerOwner

\* POST /v1/console/stream-token, and GET /v1/console/stream with what it gave, well
\* inside its five minutes; at MAX_SUBSCRIBERS the oldest subscriber is detached.
Connect(p) ==
  LET o == OwnerOf[p]
      kept == IF Len(subscribers) >= MaxSubscribers THEN Tail(subscribers) ELSE subscribers IN
  /\ HasKey(p) /\ page[p].stream = "off" /\ MayMint(o)
  /\ tokens' = [tokens EXCEPT ![o] = @ + 1]
  /\ subscribers' = Append(kept, [page |-> p, owner |-> o])
  /\ queue' = [queue EXCEPT ![p] = <<>>]
  /\ Shows(p, [page[p] EXCEPT !.stream = "on"])
  /\ UNCHANGED <<keys, journal, request, replay>>

\* wait_for gives up on an idle queue: the cancelled generator unsubscribes.
Keepalive(p) ==
  /\ page[p].stream = "on" /\ queue[p] = <<>>
  /\ Shows(p, [page[p] EXCEPT !.stream = "kept"])
  /\ Unsubscribe(p)
  /\ UNCHANGED <<keys, journal, request, queue, tokens, replay>>

\* Its next __anext__ ends the response; the page also loses the stream to the network.
StreamEnds(p) ==
  /\ page[p].stream \in {"on", "kept"}
  /\ Shows(p, [page[p] EXCEPT !.stream = "off"])
  /\ Unsubscribe(p) /\ queue' = [queue EXCEPT ![p] = <<>>]
  /\ UNCHANGED <<keys, journal, request, tokens, replay>>

-----------------------------------------------------------------------------
(* emit: journal, then fan out *)

\* A page sends a request under the run it shows, or starts its next run.
Send(r) ==
  LET p == PageOf[r] IN
  /\ request[r].pc = "unsent" /\ HasKey(p)
  /\ RunOf[r] >= page[p].run
  /\ Becomes(r, Emitting(r, IF Emits[r] = 0 THEN "done" ELSE "read", 0, 0, 0))
  /\ IF RunOf[r] = page[p].run THEN page' = page ELSE Shows(p, Fresh(page[p].stream, RunOf[r]))
  /\ UNCHANGED <<keys, journal, subscribers, queue, tokens, replay>>

ReadMax(r) ==
  /\ request[r].pc = "read"
  /\ Becomes(r, Emitting(r, "commit", Max({0} \cup Numbers(Rows(Key(r)))), request[r].tries, 0))
  /\ UNCHANGED <<keys, journal, subscribers, queue, tokens, page, replay>>

\* Mutant: the number that lost the race is kept.
NumberedAnyway(r) == Emitting(r, "fan", request[r].seen, request[r].tries, request[r].seen + 1)

\* The commit hits the unique constraint: read again, or give the number up.
LostTheRace(r) ==
  IF request[r].tries + 1 < Attempts
  THEN Emitting(r, "read", request[r].seen, request[r].tries + 1, 0)
  ELSE Emitting(r, "fan", request[r].seen, request[r].tries, 0)

Commit(r) ==
  LET next == request[r].seen + 1 IN
  /\ request[r].pc = "commit"
  /\ IF next \in Numbers(Rows(Key(r)))
     THEN journal' = journal /\ Becomes(r, LostTheRace(r))
     ELSE /\ journal' = journal \cup {[key |-> Key(r), seq |-> next, event |-> <<r, request[r].at>>]}
          /\ Becomes(r, Emitting(r, "fan", request[r].seen, request[r].tries, next))
  /\ UNCHANGED <<keys, subscribers, queue, tokens, page, replay>>

\* Any other error of the journal is logged; the event goes out without a number.
WriteFails(r) ==
  /\ request[r].pc \in {"read", "commit"}
  /\ Becomes(r, Emitting(r, "fan", request[r].seen, request[r].tries, 0))
  /\ UNCHANGED <<keys, journal, subscribers, queue, tokens, page, replay>>

Hears(s, r) == s.owner = OwnerOf[PageOf[r]]

\* put_nowait to each of the owner's queues; a full one misses the event.
FanOut(r) ==
  LET event == [seq |-> request[r].number, event |-> <<r, request[r].at>>]
      to == {subscribers[i].page : i \in {j \in DOMAIN subscribers : Hears(subscribers[j], r)}} IN
  /\ request[r].pc = "fan"
  /\ queue' = [p \in Page |-> IF p \in to /\ Len(queue[p]) < QueueMax THEN Append(queue[p], event)
                              ELSE queue[p]]
  /\ Becomes(r, IF request[r].at < Emits[r]
                THEN [pc |-> "read", at |-> request[r].at + 1, seen |-> 0, tries |-> 0, number |-> 0]
                ELSE Emitting(r, "answered", 0, 0, 0))
  /\ UNCHANGED <<keys, journal, subscribers, tokens, page, replay>>

\* Retention comes after every run (an hour against seconds).
Purge ==
  /\ journal # {} /\ \A r \in Request : request[r].pc = "done"
  /\ journal' = {}
  /\ UNCHANGED <<keys, request, subscribers, queue, tokens, page, replay>>

-----------------------------------------------------------------------------
(* The page *)

\* recordEvent: one entry a number, the unnumbered after them.  (That a live copy
\* replaces a recovered one, whose text is shorter, is left out.)
Recorded(pg, items) ==
  LET new == {x \in items : x.seq # 0 /\ \A y \in pg.shown : y.seq # x.seq} IN
  [stream |-> pg.stream, run |-> pg.run,
   shown |-> pg.shown \cup {[seq |-> x.seq, event |-> x.event] : x \in new},
   loose |-> pg.loose \cup {x.event : x \in {y \in items : y.seq = 0}},
   completed |-> pg.completed, said |-> pg.said]

\* onmessage: only the run on screen.
Receive(p) ==
  /\ page[p].stream = "on" /\ queue[p] # <<>>
  /\ LET x == Head(queue[p]) IN
     IF RunOf[x.event[1]] = page[p].run THEN Shows(p, Recorded(page[p], {x})) ELSE page' = page
  /\ queue' = [queue EXCEPT ![p] = Tail(@)]
  /\ UNCHANGED <<keys, journal, request, subscribers, tokens, replay>>

\* The POST is answered: the decision is on screen and the final read begins.
Answered(r) ==
  LET p == PageOf[r] IN
  /\ request[r].pc = "answered" /\ replay[p].stage = "idle"
  /\ Becomes(r, Emitting(r, "done", 0, 0, 0))
  /\ IF r \in Judged /\ page[p].run = RunOf[r]
     THEN /\ Shows(p, [page[p] EXCEPT !.completed = TRUE])
          /\ Reads(p, Reading("asked", RunOf[r], 0, {}, {}, FALSE))
     ELSE UNCHANGED <<page, replay>>
  /\ UNCHANGED <<keys, journal, subscribers, queue, tokens>>

\* onopen reads the journal too.
Reopened(p) ==
  /\ page[p].stream = "on" /\ page[p].run # 0 /\ ~page[p].completed /\ replay[p].stage = "idle"
  /\ Reads(p, Reading("asked", page[p].run, 0, {}, {}, FALSE))
  /\ UNCHANGED <<keys, journal, request, subscribers, queue, tokens, page>>

FirstOf(rows, n) == {row \in rows : Cardinality({x \in rows : x.seq < row.seq}) < n}

\* GET /v1/console/runs/{run_id}/events, as the credential's own owner.
EventsAfter(p) ==
  /\ replay[p].stage = "asked" /\ HasKey(p)
  /\ LET newer == {row \in Rows(<<OwnerOf[p], replay[p].run>>) : row.seq > replay[p].after} IN
     Reads(p, Reading("replied", replay[p].run, replay[p].after, FirstOf(newer, ReplayPage),
                      replay[p].got, replay[p].verdict))
  /\ UNCHANGED <<keys, journal, request, subscribers, queue, tokens, page>>

\* Mutant: an answer is drawn whatever run it was asked for.
DrawnForAnyRun(p) == TRUE

StillWanted(p) == replay[p].run = page[p].run

JournalIsComplete(got, verdict) == verdict /\ got # {} /\ got = 1 .. Cardinality(got)

\* A page of rows is drawn and the next asked for; an empty one ends the read.
TakeRows(p) ==
  LET rows == replay[p].rows
      found == {row \in rows : IsVerdict(row.event)} IN
  /\ replay[p].stage = "replied"
  /\ IF ~StillWanted(p) THEN page' = page /\ Reads(p, NotReading)
     ELSE IF rows # {}
     THEN /\ Shows(p, Recorded(page[p], rows))
          /\ Reads(p, Reading("asked", replay[p].run, Max(Numbers(rows)), {},
                              replay[p].got \cup Numbers(rows), replay[p].verdict \/ found # {}))
     ELSE /\ IF ~page[p].completed THEN page' = page
             ELSE Shows(p, [page[p] EXCEPT !.said =
                    IF JournalIsComplete(replay[p].got, replay[p].verdict) THEN "whole" ELSE "incomplete"])
          /\ Reads(p, NotReading)
  /\ UNCHANGED <<keys, journal, request, subscribers, queue, tokens>>

\* No answer after the retries, or a credential that is gone.
ReplayFails(p) ==
  /\ replay[p].stage = "asked"
  /\ IF StillWanted(p) /\ page[p].completed THEN Shows(p, [page[p] EXCEPT !.said = "incomplete"])
     ELSE page' = page
  /\ Reads(p, NotReading)
  /\ UNCHANGED <<keys, journal, request, subscribers, queue, tokens>>

Next ==
  \/ TokenExpires \/ Purge
  \/ \E p \in Page :
       \/ Load(p) \/ KeyExpires(p) \/ Connect(p) \/ Keepalive(p) \/ StreamEnds(p)
       \/ Receive(p) \/ Reopened(p) \/ EventsAfter(p) \/ TakeRows(p) \/ ReplayFails(p)
  \/ \E r \in Request : Send(r) \/ ReadMax(r) \/ Commit(r) \/ WriteFails(r) \/ FanOut(r) \/ Answered(r)

Spec == Init /\ [][Next]_vars

-----------------------------------------------------------------------------
(* A judge page that does not call its trace incomplete shows every event  *)
(* the investigation emitted: emit says a failed write leaves a gap the    *)
(* reader can detect.                                                      *)
WholeTraceIsWhole ==
  \A p \in Page : page[p].said = "whole" =>
    \A r \in Judged : Key(r) = <<OwnerOf[p], page[p].run>> =>
      \A i \in 1 .. Emits[r] : <<r, i>> \in page[p].loose \cup {x.event : x \in page[p].shown}

-----------------------------------------------------------------------------
(* What makes the properties inductive                                     *)

Event == Request \X Nat
Item == [seq : Nat, event : Event]
Row == [key : Owner \X Nat, seq : Nat, event : Event]
Subscriber == [page : Page, owner : Owner]
Requests == [pc : {"unsent", "read", "commit", "fan", "answered", "done"}, at : Nat,
             seen : Nat, tries : Nat, number : Nat]
Pages == [stream : {"off", "on", "kept"}, run : Nat, shown : SUBSET Item, loose : SUBSET Event,
          completed : BOOLEAN, said : {"nothing", "whole", "incomplete"}]
Replays == [stage : {"idle", "asked", "replied"}, run : Nat, after : Nat, rows : SUBSET Row,
            got : SUBSET Nat, verdict : BOOLEAN]

TypeOK ==
  /\ keys \in Seq(Page)
  /\ journal \subseteq Row /\ IsFiniteSet(journal)
  /\ request \in [Request -> Requests]
  /\ subscribers \in Seq(Subscriber)
  /\ queue \in [Page -> Seq(Item)]
  /\ tokens \in [Owner -> Nat]
  /\ page \in [Page -> Pages]
  /\ replay \in [Page -> Replays] /\ \A p \in Page : IsFiniteSet(replay[p].rows)

\* Every place a number is attached to an event: a row, kept or read, a queue, a
\* page, and the request that is about to send it out.
Numbered(rows) == {[seq |-> row.seq, event |-> row.event] : row \in rows}
Pending(r) == [seq |-> request[r].number, event |-> <<r, request[r].at>>]
Outgoing == {Pending(r) : r \in {q \in Request : request[q].pc = "fan"}}
BeingRead == UNION {Numbered(replay[p].rows) : p \in Page}
Facts == {x \in Carried \cup Numbered(journal) \cup BeingRead \cup Outgoing : x.seq # 0}

Agree(x, y) == x.seq = y.seq /\ Key(x.event[1]) = Key(y.event[1]) => x.event = y.event

\* While a request may still number an event, every number in use is a row's.
NumbersAreRows ==
  /\ \A x, y \in Facts : Agree(x, y)
  /\ (\E r \in Request : request[r].pc # "done") => Facts \subseteq Numbered(journal)

\* Rows are filed under the key of the run that emitted them, and what reaches a
\* page was meant for it.
RowsAreFiled ==
  /\ \A row \in journal : row.key = Key(row.event[1])
  /\ \A i \in DOMAIN subscribers : subscribers[i].owner = OwnerOf[subscribers[i].page]
  /\ \A p \in Page : \A row \in replay[p].rows :
       row.key = Key(row.event[1]) /\ row.key = <<OwnerOf[p], replay[p].run>>

IInv == NumbersAreRows /\ RowsAreFiled /\ TraceIsOfItsRun
=============================================================================
