------------------------------ MODULE Servers ------------------------------
(***************************************************************************)
(* One database server the tool knows: its row and the row of its          *)
(* credential, which no transaction joins; the consoles that list it, edit *)
(* it in a form and delete it; and the readers who want to connect to it,  *)
(* a job or the connection test.                                           *)
(*                                                                         *)
(* Of the settings only the host matters, of a password only which host it *)
(* is the password of.  A user changes the one, the other or both, and the *)
(* password left blank keeps the one stored; meant are the pairs of a host *)
(* and a password that the orderly saves meant to store.  A deleted server *)
(* has no host.  ver counts what happened to the row.                      *)
(*                                                                         *)
(* The credential is an envelope: the password under a data key of its     *)
(* own, that key under the master key of the configuration.                *)
(***************************************************************************)
EXTENDS Naturals

CONSTANTS Hosts, Clients, None, Asked,
          MasterKey,   \* CREDENTIAL_MASTER_KEY
          MaxVer       \* bound: changes of the row

ASSUME NoneAssumption == None \notin Hosts \cup {Asked}
ASSUME MaxVerAssumption == MaxVer \in Nat

VARIABLES
  row, cred,           \* the server, and the envelope of its credential
  list, invalid,       \* per console: the row its list shows; whether it was invalidated
  fetch,               \* the fetch of the list in flight: Asked, or what it will bring
  form,                \* the form that is open
  req,                 \* the PATCH or DELETE in flight
  wrote,               \* the version a console was told it has written
  read,                \* a reader of the connection's settings
  meant,               \* history: the pairs that saves meant to store
  orderly              \* no save was interrupted, overlapped or blindly stale

history == <<meant, orderly>>
rows    == <<row, cred>>
console == <<list, invalid, fetch, form, wrote>>
vars    == <<rows, console, req, read, history>>

Versions == 0..MaxVer
Row  == [host : Hosts \cup {None}, ver : Versions]
Form == [server : Row, host : Hosts, password : Hosts \cup {None}]
Req  == [op : {"patch", "delete"}, at : {"find", "row", "cred", "done"}, form : Form, ver : Versions]
Read == [left : {<<>>, <<"row">>, <<"cred">>}, host : Hosts \cup {None},
         cred : Hosts \cup {None}, clean : BOOLEAN]

\* AES-256-GCM: what one key encrypts no other key decrypts; None stands for the throw.
AesEncrypt(key, text) == [under |-> key, text |-> text]
AesDecrypt(key, data) == IF data.under = key THEN data.text ELSE None

WrapDek(dek)       == AesEncrypt(MasterKey, dek)
UnwrapDek(wrapped) == AesDecrypt(MasterKey, wrapped)

\* A data key is drawn for every envelope; the version of the row that the password goes
\* with, which it shares with no other, stands for it.
EncryptSecret(password, dek) ==
  [ciphertext |-> AesEncrypt(dek, password), dekWrapped |-> WrapDek(dek)]
DecryptSecret(enc) == AesDecrypt(UnwrapDek(enc.dekWrapped), enc.ciphertext)

EncryptedSecret == {EncryptSecret(h, dek) : h \in Hosts, dek \in Versions}

\* Whose password it is that getConnectionInfo would decrypt.
Password == IF cred = None THEN None ELSE DecryptSecret(cred)

ASSUME SentinelAssumption ==
  None \notin Row \cup Form \cup Req \cup Read \cup EncryptedSecret /\ Asked \notin Row

TypeOK ==
  /\ row \in Row /\ cred \in EncryptedSecret \cup {None}
  /\ list    \in [Clients -> Row \cup {None}]
  /\ invalid \in [Clients -> BOOLEAN]
  /\ fetch   \in [Clients -> Row \cup {None, Asked}]
  /\ form    \in [Clients -> Form \cup {None}]
  /\ req     \in [Clients -> Req \cup {None}]
  /\ wrote   \in [Clients -> Versions]
  /\ read    \in Read \cup {None}
  /\ meant   \subseteq Hosts \X (Hosts \cup {None})
  /\ orderly \in BOOLEAN
  \* The row and its credential come and go together.
  /\ (row.host = None) = (cred = None)

\* createServer inserts the two in one statement.
Init ==
  /\ \E h \in Hosts : /\ row = [host |-> h, ver |-> 0] /\ cred = EncryptSecret(h, 0)
                       /\ meant = {<<h, h>>}
  /\ list = [c \in Clients |-> None] /\ invalid = [c \in Clients |-> FALSE]
  /\ fetch = [c \in Clients |-> None] /\ form = [c \in Clients |-> None]
  /\ req = [c \in Clients |-> None] /\ wrote = [c \in Clients |-> 0]
  /\ read = None /\ orderly = TRUE

----------------------------------------------------------------------------
\* The list of a console: useServers.

Fetch(c) ==
  /\ fetch[c] = None
  /\ fetch' = [fetch EXCEPT ![c] = Asked]
  /\ UNCHANGED <<rows, list, invalid, form, wrote, req, read, history>>

ServeList(c) ==
  /\ fetch[c] = Asked
  /\ fetch' = [fetch EXCEPT ![c] = row]
  /\ UNCHANGED <<rows, list, invalid, form, wrote, req, read, history>>

Show(c) ==
  /\ fetch[c] \in Row
  /\ list' = [list EXCEPT ![c] = fetch[c]]
  /\ invalid' = [invalid EXCEPT ![c] = FALSE]
  /\ fetch' = [fetch EXCEPT ![c] = None]
  /\ UNCHANGED <<rows, form, wrote, req, read, history>>

\* Also the second attempt failed: the list stays as it was.
FetchFails(c) ==
  /\ fetch[c] # None
  /\ fetch' = [fetch EXCEPT ![c] = None]
  /\ UNCHANGED <<rows, list, invalid, form, wrote, req, read, history>>

----------------------------------------------------------------------------
\* The form and the confirmation: ServersPage, ServerFormModal.

\* The row a menu is opened on; no menu can be reached behind a form.
Listed(c) == list[c] # None /\ list[c].host # None /\ form[c] = None

\* The form takes all fields from the row of the list, the password is blank.
Open(c) ==
  /\ Listed(c)
  /\ form' = [form EXCEPT ![c] = [server |-> list[c], host |-> list[c].host, password |-> None]]
  /\ UNCHANGED <<rows, list, invalid, fetch, wrote, req, read, history>>

\* The fields are independent of each other.
Edit(c, h, p) ==
  /\ form[c] # None
  /\ form' = [form EXCEPT ![c].host = h, ![c].password = p]
  /\ UNCHANGED <<rows, list, invalid, fetch, wrote, req, read, history>>

\* Cancel, Escape or a click beside it, also while the answer is awaited.
Close(c) ==
  /\ form[c] # None
  /\ form' = [form EXCEPT ![c] = None]
  /\ UNCHANGED <<rows, list, invalid, fetch, wrote, req, read, history>>

Saving(c) == req[c] # None /\ req[c].at # "done"
\* Between the write of the row and that of its password.
Half == \E c \in Clients : req[c] # None /\ req[c].at = "cred"

\* What a save is to lead to.
Pair(f) == <<f.host, IF f.password = None THEN Password ELSE f.password>>

\* All the fields are sent, whether they were changed or not.  Old fields without the
\* password that goes with them are the blind, stale save.
Submit(c) ==
  /\ form[c] # None /\ req[c] = None
  /\ req' = [req EXCEPT ![c] = [op |-> "patch", at |-> "find", form |-> form[c], ver |-> 0]]
  /\ orderly' = (orderly /\ ~(\E d \in Clients : Saving(d))
                         /\ (form[c].server = row \/ form[c].password # None))
  /\ UNCHANGED <<rows, console, read, meant>>

\* handleDelete, of a row of the list.
Confirm(c) ==
  /\ Listed(c) /\ req[c] = None
  /\ req' = [req EXCEPT ![c] = [op |-> "delete", at |-> "find", ver |-> 0,
               form |-> [server |-> list[c], host |-> list[c].host, password |-> None]]]
  /\ orderly' = (orderly /\ ~(\E d \in Clients : Saving(d)))
  /\ UNCHANGED <<rows, console, read, meant>>

----------------------------------------------------------------------------
\* PATCH and DELETE /servers/:id.

Goto(c, l) == req' = [req EXCEPT ![c].at = l]

FindServer(c) ==
  /\ req[c] # None /\ req[c].at = "find" /\ row.host # None
  /\ Goto(c, "row")
  /\ UNCHANGED <<rows, console, read, history>>

\* A write of the row takes the reader by surprise that has only read half.
Surprised == IF read # None /\ read.left # <<>> THEN [read EXCEPT !.clean = FALSE] ELSE read

\* Mutant: a new password is not written, as if it had been left blank.
AfterRowMutant(f) == "done"
AfterRow(f) == IF f.password = None THEN "done" ELSE "cred"

WriteRow(c) ==
  /\ req[c] # None /\ req[c].op = "patch" /\ req[c].at = "row"
  /\ row.host # None /\ row.ver < MaxVer
  /\ row' = [host |-> req[c].form.host, ver |-> row.ver + 1]
  /\ req' = [req EXCEPT ![c].at = AfterRow(req[c].form), ![c].ver = row.ver + 1]
  /\ read' = Surprised
  /\ meant' = IF orderly THEN meant \cup {Pair(req[c].form)} ELSE meant
  /\ UNCHANGED <<cred, console, orderly>>

\* updateServerCredentialPassword; the row may have gone in the meantime.
WriteCred(c) ==
  /\ req[c] # None /\ req[c].at = "cred" /\ cred # None
  /\ cred' = EncryptSecret(req[c].form.password, req[c].ver)
  /\ Goto(c, "done")
  /\ UNCHANGED <<row, console, read, history>>

\* Mutant: the credential stays behind.
CascadeMutant == cred' = cred
Cascade == cred' = None

DeleteRow(c) ==
  /\ req[c] # None /\ req[c].op = "delete" /\ req[c].at = "row"
  /\ row.host # None /\ row.ver < MaxVer
  /\ row' = [host |-> None, ver |-> row.ver + 1] /\ Cascade
  /\ req' = [req EXCEPT ![c].at = "done", ![c].ver = row.ver + 1]
  /\ read' = Surprised
  /\ UNCHANGED <<console, history>>

\* Not found, a query rejects, or the API dies: the form stays open, and what has been
\* written stays written.
Fail(c) ==
  /\ req[c] # None
  /\ req' = [req EXCEPT ![c] = None]
  /\ orderly' = (orderly /\ req[c].at # "cred")
  /\ UNCHANGED <<rows, console, read, meant>>

\* Mutant: a fetch that is under way will do.
InvalidateMutant(c) ==
  /\ invalid' = [invalid EXCEPT ![c] = TRUE]
  /\ fetch' = [fetch EXCEPT ![c] = IF @ = None THEN Asked ELSE @]
\* invalidateQueries drops a fetch under way and starts another.
Invalidate(c) ==
  /\ invalid' = [invalid EXCEPT ![c] = TRUE]
  /\ fetch' = [fetch EXCEPT ![c] = Asked]

\* onSuccess, then onClose, which closes whatever form is open by now.
Answered(c) ==
  /\ req[c] # None /\ req[c].at = "done"
  /\ Invalidate(c)
  /\ wrote' = [wrote EXCEPT ![c] = req[c].ver]
  /\ form' = [form EXCEPT ![c] = None]
  /\ req' = [req EXCEPT ![c] = None]
  /\ UNCHANGED <<rows, list, read, history>>

----------------------------------------------------------------------------
\* getConnectionInfo: the server, then what it includes, are two queries; with the second
\* the password is decrypted.

\* Mutant: the other way round.
SelectsMutant == <<"cred", "row">>
Selects == <<"row", "cred">>

Select(r, what) ==
  IF what = "row" THEN [r EXCEPT !.host = row.host] ELSE [r EXCEPT !.cred = Password]

StartRead ==
  /\ read = None /\ row.host # None
  /\ read' = Select([left |-> <<Selects[2]>>, host |-> None, cred |-> None, clean |-> TRUE],
                    Selects[1])
  /\ UNCHANGED <<rows, console, req, history>>

\* A credential that has gone is the same as no server.
EndRead ==
  /\ read # None /\ read.left # <<>>
  /\ LET r == Select(read, read.left[1])
     IN read' = IF r.host = None \/ r.cred = None THEN None
                ELSE [r EXCEPT !.left = <<>>, !.clean = @ /\ orderly /\ ~Half]
  /\ UNCHANGED <<rows, console, req, history>>

\* The connection is used, and closed.
Disconnect ==
  /\ read # None /\ read.left = <<>>
  /\ read' = None
  /\ UNCHANGED <<rows, console, req, history>>

----------------------------------------------------------------------------
Browse(c) == Fetch(c) \/ ServeList(c) \/ Show(c) \/ FetchFails(c)
Use(c)    == Open(c) \/ (\E h \in Hosts, p \in Hosts \cup {None} : Edit(c, h, p)) \/ Close(c) \/ Submit(c) \/ Confirm(c)
Serve(c)  == FindServer(c) \/ WriteRow(c) \/ WriteCred(c) \/ DeleteRow(c) \/ Fail(c) \/ Answered(c)

Next == (\E c \in Clients : Browse(c) \/ Use(c) \/ Serve(c)) \/ StartRead \/ EndRead \/ Disconnect

Spec == Init /\ [][Next]_vars

----------------------------------------------------------------------------
(* Properties. *)

\* When nothing is being saved, the host and the password stored are a pair that some
\* user meant, not the new host of a save with the password of another, as long as every
\* save ran to its end, alone, and none sent old fields without a password.
SettingsArePaired ==
  orderly /\ row.host # None /\ (\A c \in Clients : ~Saving(c)) => <<row.host, Password>> \in meant

\* A host is approached with a password that some user meant for it, also by a reader
\* who began while an orderly save was half done, if that is complete by the second
\* query and the row did not change between the two.
ReadsArePaired ==
  read # None /\ read.left = <<>> /\ read.clean => <<read.host, read.cred>> \in meant

\* A console that has been told its change succeeded shows it, or something later, as
\* soon as its list is neither being fetched nor known to be out of date.
OwnWriteShown ==
  \A c \in Clients : list[c] # None /\ fetch[c] = None /\ ~invalid[c] => list[c].ver >= wrote[c]
=============================================================================
