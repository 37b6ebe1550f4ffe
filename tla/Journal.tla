-------------------------------- MODULE Journal --------------------------------
(***************************************************************************)
(* The events of a run where they are kept, sent and shown: the journal,   *)
(* the queues of the open streams and the pages, and what is promised of   *)
(* them.  Console has the requests, streams and replays that fill them.    *)
(***************************************************************************)
CONSTANTS
  Page, Request,
  OwnerOf,       \* the owner a page's credential resolves to
  PageOf, RunOf  \* who sent a request, and its X-Console-Run-Id

VARIABLES
  journal,  \* RunEventRow
  queue,    \* a subscriber's queue
  page      \* what each page shows and says

Key(r) == <<OwnerOf[PageOf[r]], RunOf[r]>>

-----------------------------------------------------------------------------
(* Two deliveries of an event are matched by its number alone, so two      *)
(* events of a run never go out under one number, and the number a live    *)
(* event carries is the row the journal keeps for it.                      *)
Carried == UNION {{queue[p][i] : i \in DOMAIN queue[p]} \cup page[p].shown : p \in Page}
NumbersNameOneEvent ==
  /\ \A x \in Carried, row \in journal :
       x.seq # 0 /\ row.key = Key(x.event[1]) /\ row.seq = x.seq => row.event = x.event
  /\ \A x, y \in Carried :
       x.seq # 0 /\ x.seq = y.seq /\ Key(x.event[1]) = Key(y.event[1]) => x.event = y.event

(* What a page draws is of the run on screen, however late a replay        *)
(* answers, and nothing of another owner's reaches it.                     *)
TraceIsOfItsRun ==
  /\ \A p \in Page : \A i \in DOMAIN queue[p] : OwnerOf[PageOf[queue[p][i].event[1]]] = OwnerOf[p]
  /\ \A p \in Page : \A e \in page[p].loose \cup {x.event : x \in page[p].shown} :
    Key(e[1]) = <<OwnerOf[p], page[p].run>>
=============================================================================
