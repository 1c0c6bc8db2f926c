--------------------------- MODULE ProgressStream ---------------------------
(***************************************************************************)
(* How one browser follows one job.  The queue delivers the job to a       *)
(* worker, which writes the row and then publishes an event, if the        *)
(* processor comes that far; the API reads the row, sends it as the first  *)
(* frame of an SSE stream and then subscribes to the events; the browser   *)
(* shows whatever arrives last, frames of the stream or answers to its     *)
(* fetches, and polls once the stream has broken.                          *)
(*                                                                         *)
(* Each write of the row has a number; frames and answers carry it (the    *)
(* code does not), so that properties can tell old from new.               *)
(***************************************************************************)
EXTENDS Naturals, Sequences

CONSTANTS Deliveries,  \* most deliveries of the job: attempts, and after deaths
          Fetches,     \* fetches that may be in flight at the same time
          NoNews       \* nothing shown, nothing read

ASSUME DeliveriesAssumption == Deliveries \in Nat \ {0}

VARIABLES
  row,      \* status of the Job row and the number of the write
  silent,   \* the row was written last, and that is not published
  worker,   \* the job in the queue: "waiting", "busy" or "over"
  left,     \* deliveries, the present one included, that it may still have
  server,   \* the handler of the stream
  snapshot, \* the row it read
  wire,     \* frames on their way to the browser
  source,   \* the browser's EventSource: "open" or "closed"
  view,     \* what the browser shows
  polling,  \* its interval timer is set
  fetch     \* its fetches: what they must not be older than, and the answer

queueVars  == <<worker, left>>
workerVars == <<row, silent, queueVars>>
serverVars == <<server, snapshot>>
pageVars   == <<source, view, polling, fetch>>
streamVars == <<workerVars, serverVars, wire, pageVars>>

Status   == {"queued", "running", "done", "failed"}
Terminal == {"done", "failed"}
News     == [status : Status, nr : Nat]
Fetch    == [state : {"free", "asked", "answered"}, since : Nat, answer : News \cup {NoNews}]
Free     == [state |-> "free", since |-> 0, answer |-> NoNews]
Asked(nr) == [state |-> "asked", since |-> nr, answer |-> NoNews]
Hangup   == [status |-> "hangup", nr |-> 0]

ASSUME NoNewsAssumption == NoNews \notin News

StreamTypeOK ==
  /\ row \in News
  /\ silent \in BOOLEAN
  /\ worker \in {"waiting", "busy", "over"}
  /\ left \in 0..Deliveries /\ (worker # "over" => left > 0)
  /\ server \in {"start", "send", "subscribe", "listen", "deaf", "ended"}
  /\ snapshot \in News \cup {NoNews}
  /\ wire \in Seq(News \cup {Hangup})
  /\ \A i \in DOMAIN wire : wire[i] = Hangup => i = Len(wire)
  /\ source \in {"open", "closed"}
  /\ view \in News \cup {NoNews}
  /\ polling \in BOOLEAN
  /\ fetch \in [Fetches -> Fetch]
  /\ \A f \in Fetches : /\ fetch[f].since <= row.nr
                        /\ fetch[f].state = "answered" <=> fetch[f].answer # NoNews

\* A new fetch takes a free place; fetches have no other identity.
Ask(nr) ==
  /\ \E f \in Fetches : fetch[f].state = "free"
  /\ LET f == CHOOSE x \in Fetches : fetch[x].state = "free"
     IN  fetch' = [fetch EXCEPT ![f] = Asked(nr)]

\* The page opens the stream and asks for the row at the same time.
StreamInit ==
  /\ row = [status |-> "queued", nr |-> 0]
  /\ silent = FALSE
  /\ worker = "waiting" /\ left = Deliveries
  /\ server = "start" /\ snapshot = NoNews /\ wire = <<>>
  /\ source = "open" /\ view = NoNews /\ polling = FALSE
  /\ LET first == CHOOSE f \in Fetches : TRUE
     IN  fetch = [f \in Fetches |-> IF f = first THEN Asked(0) ELSE Free]

----------------------------------------------------------------------------
\* The worker: the row first, the event second.  Any of its calls may reject.
\* Progress reports are left out: to the page they are more of "running".

Write(s) ==
  /\ row' = [status |-> s, nr |-> row.nr + 1]
  /\ silent' = TRUE
  /\ UNCHANGED <<left, serverVars, wire, pageVars>>

\* A delivery ends in an error or a death: the job is run again, or has used up
\* its attempts or the deaths that are overlooked.
Lose ==
  /\ left' = left - 1
  /\ worker' \in {"over"} \cup (IF left > 1 THEN {"waiting"} ELSE {})
  /\ UNCHANGED <<row, silent, serverVars, wire, pageVars>>

\* markRunning, or if that rejects, markFailed.
Start == /\ worker = "waiting"
         /\ Write("running") \/ Write("failed")
         /\ worker' = "busy"

\* getAdapter rejects, before the try: nothing is written and nothing published.
Skip == worker = "waiting" /\ Lose

MarkDone == /\ worker = "busy" /\ row.status = "running" /\ ~silent
            /\ Write("done")
            /\ UNCHANGED worker

\* The work fails, or after markDone the notification does, or publishing.
MarkFailed == /\ worker = "busy" /\ row.status \in {"running", "done"}
              /\ Write("failed")
              /\ UNCHANGED worker

Complete == /\ worker = "busy" /\ row.status = "done" /\ ~silent
            /\ worker' = "over"
            /\ UNCHANGED <<row, silent, left, serverVars, wire, pageVars>>

\* The end of the catch; or a call in it rejects, or closing the connection does; or
\* the process dies, of a fault or of failing work that nobody awaits yet.
Fail == worker = "busy" /\ Lose

\* Mutant: the handler stays subscribed after the end of its stream.
PublishMutant ==
  /\ worker = "busy" /\ silent
  /\ silent' = FALSE
  /\ IF server = "listen"
       THEN wire' = IF row.status \in Terminal THEN wire \o <<row, Hangup>>
                                              ELSE Append(wire, row)
       ELSE UNCHANGED wire
  /\ UNCHANGED <<row, queueVars, serverVars, pageVars>>

\* Redis hands the event to whoever is subscribed; the handler forwards it and
\* ends the stream after a terminal one.
Publish ==
  /\ worker = "busy" /\ silent
  /\ silent' = FALSE
  /\ IF server = "listen"
       THEN IF row.status \in Terminal
              THEN wire' = wire \o <<row, Hangup>> /\ server' = "ended"
              ELSE wire' = Append(wire, row) /\ UNCHANGED server
       ELSE UNCHANGED <<wire, server>>
  /\ UNCHANGED <<row, queueVars, snapshot, pageVars>>

----------------------------------------------------------------------------
\* The handler of GET /jobs/:id/stream.

ReadRow ==
  /\ server = "start"
  /\ snapshot' = row
  /\ server' = "send"
  /\ UNCHANGED <<workerVars, wire, pageVars>>

\* The token has expired, a permission is missing, or the query rejects.
Refuse ==
  /\ server = "start"
  /\ server' = "ended"
  /\ wire' = Append(wire, Hangup)
  /\ UNCHANGED <<workerVars, snapshot, pageVars>>

SendSnapshot ==
  /\ server = "send"
  /\ IF snapshot.status \in Terminal
       THEN wire' = wire \o <<snapshot, Hangup>> /\ server' = "ended"
       ELSE wire' = Append(wire, snapshot) /\ server' = "subscribe"
  /\ UNCHANGED <<workerVars, snapshot, pageVars>>

\* The subscription takes effect, or its error is swallowed.
Subscribe ==
  /\ server = "subscribe"
  /\ server' \in {"listen", "deaf"}
  /\ UNCHANGED <<workerVars, snapshot, wire, pageVars>>

\* The connection breaks, with the frames that had not arrived; the handler
\* cleans up.
Disconnect ==
  /\ source = "open"
  /\ server' = "ended"
  /\ \E k \in 0..Len(wire) : /\ \A i \in 1..k : wire[i] # Hangup
                            /\ wire' = Append(SubSeq(wire, 1, k), Hangup)
  /\ UNCHANGED <<workerVars, snapshot, pageVars>>

----------------------------------------------------------------------------
\* useJobStream.

Close == /\ source' = "closed" /\ wire' = <<>>
         /\ server' = "ended" /\ UNCHANGED snapshot

\* Mutant: the last fetch is skipped while another one is in flight.
ReceiveMutant ==
  /\ source = "open" /\ wire # <<>> /\ Head(wire) # Hangup
  /\ view' = Head(wire)
  /\ IF Head(wire).status \in Terminal
       THEN /\ Close
            /\ \E f \in Fetches :
                 IF fetch[f].state = "free" THEN Ask(Head(wire).nr)
                 ELSE fetch' = [fetch EXCEPT ![f].since = Head(wire).nr]
       ELSE wire' = Tail(wire) /\ UNCHANGED <<serverVars, source, fetch>>
  /\ UNCHANGED <<workerVars, polling>>

\* onmessage: the frame is shown; a terminal one closes the source and the row is
\* fetched once more, for its result.
Receive ==
  /\ source = "open" /\ wire # <<>> /\ Head(wire) # Hangup
  /\ view' = Head(wire)
  /\ IF Head(wire).status \in Terminal
       THEN Close /\ Ask(Head(wire).nr)
       ELSE wire' = Tail(wire) /\ UNCHANGED <<serverVars, source, fetch>>
  /\ UNCHANGED <<workerVars, polling>>

\* onerror, also at the end of a stream nobody closed: poll.
StreamError ==
  /\ source = "open" /\ wire # <<>> /\ Head(wire) = Hangup
  /\ Close
  /\ polling' = TRUE
  /\ Ask(0)
  /\ UNCHANGED <<workerVars, view>>

\* The interval fires.
Poll ==
  /\ polling
  /\ Ask(0)
  /\ UNCHANGED <<workerVars, serverVars, wire, source, view, polling>>

\* GET /jobs/:id reads the row; its answer takes its time.
Reply(f) ==
  /\ fetch[f].state = "asked"
  /\ fetch' = [fetch EXCEPT ![f].state = "answered", ![f].answer = row]
  /\ UNCHANGED <<workerVars, serverVars, wire, source, view, polling>>

\* Mutant: the first answer ends the polling.
ShowMutant(f) ==
  /\ fetch[f].state = "answered"
  /\ view' = fetch[f].answer
  /\ polling' = FALSE
  /\ fetch' = [fetch EXCEPT ![f] = Free]
  /\ UNCHANGED <<workerVars, serverVars, wire, source>>

Show(f) ==
  /\ fetch[f].state = "answered"
  /\ view' = fetch[f].answer
  /\ polling' = (polling /\ view'.status \notin Terminal)
  /\ fetch' = [fetch EXCEPT ![f] = Free]
  /\ UNCHANGED <<workerVars, serverVars, wire, source>>

FetchFails(f) ==
  /\ fetch[f].state # "free"
  /\ fetch' = [fetch EXCEPT ![f] = Free]
  /\ UNCHANGED <<workerVars, serverVars, wire, source, view, polling>>

----------------------------------------------------------------------------
Work == Start \/ Skip \/ MarkDone \/ MarkFailed \/ Publish \/ Complete \/ Fail
Serve == ReadRow \/ Refuse \/ SendSnapshot \/ Subscribe
Listen == Receive \/ StreamError

StreamNext == \/ Work \/ Serve \/ Disconnect \/ Listen \/ Poll
              \/ \E f \in Fetches : Reply(f) \/ Show(f) \/ FetchFails(f)

StreamSpec == StreamInit /\ [][StreamNext]_streamVars

\* Everybody goes on, and fetches do not fail for ever.
FairStreamSpec == /\ StreamSpec
                  /\ WF_streamVars(Work) /\ WF_streamVars(Serve)
                  /\ WF_streamVars(Listen) /\ WF_streamVars(Poll)
                  /\ \A f \in Fetches : SF_streamVars(Reply(f)) /\ SF_streamVars(Show(f))
----------------------------------------------------------------------------
(* Properties. *)

\* The fetch that follows a terminal frame is answered with a row that is as new
\* as the frame or newer, so that it has the job's result or error: the worker
\* writes the row before it publishes, the page asks after it has received.
LastFetchIsFresh ==
  \A f \in Fetches : fetch[f].state = "answered" => fetch[f].answer.nr >= fetch[f].since

ShownTerminal == view # NoNews /\ view.status \in Terminal

\* Somebody will tell the page: its timer is set, or its stream is subscribed and
\* the end of the job, or of its current attempt, is still to be published.
Followed == \/ polling
            \/ /\ source = "open" /\ server = "listen"
               /\ row.status \notin Terminal \/ silent

\* The queue has given the job up before its row had an end, or before that end
\* was published to a page that does not poll.
Deserted == /\ worker = "over"
            /\ row.status \notin Terminal \/ (silent /\ ~polling)

\* A page that is followed shows an end of the job at last, although streams break,
\* frames are lost, fetches fail and overtake each other, and workers die; only a
\* job that is deserted does not have one to show.
FollowedIsShown == Followed ~> (ShownTerminal \/ Deserted)
=============================================================================
