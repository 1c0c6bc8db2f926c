----------------------------- MODULE MCServers -----------------------------
(* Instances of Servers for TLC.                                             *)
EXTENDS Servers, TLC

CONSTANTS h1, h2, c1, c2

MCSymmetry == Permutations({h1, h2}) \cup Permutations({c1, c2})

Edited(c) == req[c] # None \/ (form[c] # None /\ ~(form[c].password = None /\ form[c].host = form[c].server.host))
\* A form in which one field alone was changed, the host or the password.
Partial(f) == f # None /\ f.password # f.host /\ (f.password # None \/ f.host # f.server.host)

\* Bounds: a form is edited once, and no other is opened behind a save or after one
\* that was not orderly; the password typed is not that of the host the form shows,
\* one field alone is changed only while the other console has neither form nor
\* request; a list is fetched when it may be out of date; nothing is sent
\* when MaxVer lets nothing more be written, or after a save that was not orderly;
\* settings are read while a save is under way, no list is being fetched and something
\* is claimed of them, and the connection ends at once.
MCNext ==
  /\ Next
  /\ \A c \in Clients :
       /\ Edited(c) \/ ~orderly => form'[c] \in {form[c], None}
       /\ form'[c] # form[c] /\ form'[c] # None => form'[c].password # form'[c].server.host
       /\ Partial(form'[c]) /\ form'[c] # form[c] =>
            \A d \in Clients \ {c} : form[d] = None /\ req[d] = None
       /\ fetch'[c] = Asked /\ fetch[c] = None => invalid'[c] \/ list[c] # row
       /\ req[c] = None /\ req'[c] # None => orderly /\ row.ver < MaxVer
  /\ read' # None => read'.clean /\ orderly' /\ (read # None \/ \E c \in Clients : Saving(c))
  /\ read # None /\ read.left = <<>> => read' = None
  /\ read' # None => \A c \in Clients : fetch'[c] = None
MCSpec == Init /\ [][MCNext]_vars
=============================================================================
