--------------------------- MODULE ServersProofs ----------------------------
(***************************************************************************)
(* Proofs about Servers, for any hosts, any number of consoles and of      *)
(* changes.  Row and credential are written by two calls and read by two   *)
(* others; the invariant says what each half of a save has left behind.    *)
(***************************************************************************)
EXTENDS Servers, TLAPS

\* Only a password that was typed is written.
FormsFit == \A c \in Clients : req[c] # None /\ req[c].at = "cred" => req[c].form.password # None

\* What orderly saves keep: they come one at a time, and only in the middle of one are
\* host and password no pair, because the password of the pair is still to be written.
Alone       == \A c, d \in Clients : Saving(c) /\ Saving(d) => c = d
HalfWritten == \A c \in Clients : req[c] # None /\ req[c].at = "cred" => <<row.host, req[c].form.password>> \in meant
Paired      == ~Half /\ row.host # None => <<row.host, Password>> \in meant
InOrder     == orderly => Alone /\ HalfWritten /\ Paired

\* A reader to whom nothing happened has the host of the row, then its password.
ReadsFit ==
  read # None => /\ read.left \in {<<>>, <<"cred">>}
                 /\ read.clean /\ read.left = <<"cred">> => read.host = row.host
                 /\ read.clean /\ read.left = <<>> => <<read.host, read.cred>> \in meant

\* What a console was told it has written is not newer than what it will be shown.
Versioned ==
  \A c \in Clients : /\ wrote[c] <= row.ver
                     /\ req[c] # None => req[c].ver <= row.ver
                     /\ fetch[c] \in Row => wrote[c] <= fetch[c].ver
                     /\ list[c] # None /\ ~invalid[c] => wrote[c] <= list[c].ver

ServersInvariant == TypeOK /\ FormsFit /\ InOrder /\ ReadsFit /\ Versioned

----------------------------------------------------------------------------
\* The data key that was wrapped opens what it encrypted: whatever password is put into
\* an envelope, under whatever data key, is the one that comes out.
LEMMA EnvelopeOpens ==
  ASSUME NEW h \in Hosts, NEW dek \in Versions
  PROVE  /\ DecryptSecret(EncryptSecret(h, dek)) = h
         /\ EncryptSecret(h, dek) \in EncryptedSecret
         /\ EncryptSecret(h, dek) # None
<1>1. EncryptSecret(h, dek) \in EncryptedSecret
  BY DEF EncryptedSecret
<1>2. DecryptSecret(EncryptSecret(h, dek)) = h
  BY DEF DecryptSecret, EncryptSecret, UnwrapDek, WrapDek, AesDecrypt, AesEncrypt
<1> QED
  BY <1>1, <1>2, SentinelAssumption

\* No envelope that is stored fails to open.
LEMMA PasswordTyped ==
  ASSUME TypeOK
  PROVE  Password \in Hosts \cup {None}
<1>1. CASE cred = None
  BY <1>1 DEF Password
<1>2. CASE cred # None
  <2>1. PICK h \in Hosts, dek \in Versions : cred = EncryptSecret(h, dek)
    BY <1>2 DEF TypeOK, EncryptedSecret
  <2> QED
    BY <1>2, <2>1, EnvelopeOpens DEF Password
<1> QED
  BY <1>1, <1>2

----------------------------------------------------------------------------
\* The invariant holds when the system starts.
THEOREM InvariantInit == Init => ServersInvariant
<1> SUFFICES ASSUME Init PROVE ServersInvariant
  OBVIOUS
<1>1. PICK h \in Hosts : row = [host |-> h, ver |-> 0] /\ cred = EncryptSecret(h, 0)
  BY DEF Init
<1>2. h # None /\ row \in Row /\ row.host = h /\ row.ver = 0 /\ 0 \in Versions
  BY <1>1, NoneAssumption, MaxVerAssumption DEF Row, Versions
<1>6. cred \in EncryptedSecret /\ cred # None /\ Password = h
  BY <1>1, <1>2, EnvelopeOpens DEF Password
<1>3. \A c \in Clients : /\ list[c] = None /\ invalid[c] = FALSE /\ fetch[c] = None /\ form[c] = None
                         /\ req[c] = None /\ wrote[c] = 0
  BY DEF Init
<1>4. TypeOK
  BY <1>2, <1>6 DEF Init, TypeOK
<1>5. FormsFit /\ InOrder /\ ReadsFit /\ Versioned
  BY <1>2, <1>3, <1>6, SentinelAssumption DEF Init, FormsFit, InOrder, Alone, HalfWritten, Paired, Saving,
     ReadsFit, Versioned
<1> QED
  BY <1>4, <1>5 DEF ServersInvariant

\* The list, its fetch and its form say nothing about rows, saves and readers.
LEMMA BrowseKeeps ==
  ASSUME ServersInvariant, UNCHANGED <<rows, req, read, history>>
  PROVE  InOrder' /\ ReadsFit'
<1>1. UNCHANGED <<row, cred, req, read, meant, orderly>>
  BY DEF rows, history
<1>2. InOrder'
  BY <1>1 DEF ServersInvariant, InOrder, Alone, HalfWritten, Paired, Password, Half, Saving
<1>3. ReadsFit'
  BY <1>1 DEF ServersInvariant, ReadsFit
<1> QED
  BY <1>2, <1>3

LEMMA FetchStep ==
  ASSUME ServersInvariant, NEW c \in Clients, Fetch(c)
  PROVE  ServersInvariant'
<1>1. UNCHANGED <<row, cred, list, invalid, form, wrote, req, read, meant, orderly>>
  BY DEF Fetch, rows, history
<1>2. \A d \in Clients : fetch'[d] = IF d = c THEN Asked ELSE fetch[d]
  BY DEF Fetch, ServersInvariant, TypeOK
<1>3. TypeOK'
  BY <1>1 DEF Fetch, ServersInvariant, TypeOK
<1>4. Versioned'
  BY <1>1, <1>2, SentinelAssumption DEF ServersInvariant, Versioned
<1>5. FormsFit'
  BY <1>1 DEF ServersInvariant, FormsFit
<1> QED
  BY <1>1, <1>3, <1>4, <1>5, BrowseKeeps DEF ServersInvariant, rows, history

LEMMA ServeListStep ==
  ASSUME ServersInvariant, NEW c \in Clients, ServeList(c)
  PROVE  ServersInvariant'
<1>1. UNCHANGED <<row, cred, list, invalid, form, wrote, req, read, meant, orderly>>
  BY DEF ServeList, rows, history
<1>2. \A d \in Clients : fetch'[d] = IF d = c THEN row ELSE fetch[d]
  BY DEF ServeList, ServersInvariant, TypeOK
<1>3. TypeOK'
  BY <1>1 DEF ServeList, ServersInvariant, TypeOK
<1>4. Versioned'
  BY <1>1, <1>2 DEF ServersInvariant, Versioned
<1>5. FormsFit'
  BY <1>1 DEF ServersInvariant, FormsFit
<1> QED
  BY <1>1, <1>3, <1>4, <1>5, BrowseKeeps DEF ServersInvariant, rows, history

LEMMA ShowStep ==
  ASSUME ServersInvariant, NEW c \in Clients, Show(c)
  PROVE  ServersInvariant'
<1>1. UNCHANGED <<row, cred, form, wrote, req, read, meant, orderly>>
  BY DEF Show, rows, history
<1>2. \A d \in Clients : /\ list'[d] = IF d = c THEN fetch[c] ELSE list[d]
                         /\ invalid'[d] = IF d = c THEN FALSE ELSE invalid[d]
                         /\ fetch'[d] = IF d = c THEN None ELSE fetch[d]
  BY DEF Show, ServersInvariant, TypeOK
<1>3. TypeOK'
  BY <1>1 DEF Show, ServersInvariant, TypeOK
<1>4. Versioned'
  <2>1. fetch[c] \in Row /\ wrote[c] <= fetch[c].ver
    BY DEF Show, ServersInvariant, Versioned
  <2> SUFFICES ASSUME NEW d \in Clients
               PROVE  /\ wrote[d] <= row.ver
                      /\ req[d] # None => req[d].ver <= row.ver
                      /\ fetch'[d] \in Row => wrote[d] <= fetch'[d].ver
                      /\ list'[d] # None /\ ~invalid'[d] => wrote[d] <= list'[d].ver
    BY <1>1 DEF Versioned
  <2>2. CASE d = c
    BY <1>2, <2>1, <2>2, SentinelAssumption DEF ServersInvariant, Versioned
  <2>3. CASE d # c
    BY <1>2, <2>3 DEF ServersInvariant, Versioned
  <2> QED
    BY <2>2, <2>3
<1>5. FormsFit'
  BY <1>1 DEF ServersInvariant, FormsFit
<1> QED
  BY <1>1, <1>3, <1>4, <1>5, BrowseKeeps DEF ServersInvariant, rows, history

LEMMA FetchFailsStep ==
  ASSUME ServersInvariant, NEW c \in Clients, FetchFails(c)
  PROVE  ServersInvariant'
<1>1. UNCHANGED <<row, cred, list, invalid, form, wrote, req, read, meant, orderly>>
  BY DEF FetchFails, rows, history
<1>2. \A d \in Clients : fetch'[d] = IF d = c THEN None ELSE fetch[d]
  BY DEF FetchFails, ServersInvariant, TypeOK
<1>3. TypeOK'
  BY <1>1 DEF FetchFails, ServersInvariant, TypeOK
<1>4. Versioned'
  BY <1>1, <1>2, SentinelAssumption DEF ServersInvariant, Versioned
<1>5. FormsFit'
  BY <1>1 DEF ServersInvariant, FormsFit
<1> QED
  BY <1>1, <1>3, <1>4, <1>5, BrowseKeeps DEF ServersInvariant, rows, history

\* A form that is changed to one that fits changes nothing else.
LEMMA FormKeeps ==
  ASSUME ServersInvariant, NEW c \in Clients, NEW f \in Form \cup {None},
         form' = [form EXCEPT ![c] = f],
         UNCHANGED <<rows, list, invalid, fetch, wrote, req, read, history>>
  PROVE  ServersInvariant'
<1>1. UNCHANGED <<row, cred, list, invalid, fetch, wrote, req, read, meant, orderly>>
  BY DEF rows, history
<1>2. \A d \in Clients : form'[d] = IF d = c THEN f ELSE form[d]
  BY DEF ServersInvariant, TypeOK
<1>3. TypeOK'
  BY <1>1 DEF ServersInvariant, TypeOK
<1>4. FormsFit'
  BY <1>1, <1>2 DEF ServersInvariant, FormsFit
<1>5. Versioned'
  BY <1>1 DEF ServersInvariant, Versioned
<1> QED
  BY <1>3, <1>4, <1>5, BrowseKeeps DEF ServersInvariant

LEMMA OpenStep ==
  ASSUME ServersInvariant, NEW c \in Clients, Open(c)
  PROVE  ServersInvariant'
<1> DEFINE f == [server |-> list[c], host |-> list[c].host, password |-> None]
<1>1. list[c] \in Row /\ list[c].host \in Hosts
  BY DEF Open, Listed, ServersInvariant, TypeOK, Row
<1>2. f \in Form
  BY <1>1 DEF Form
<1> QED
  BY <1>2, FormKeeps DEF Open

LEMMA EditStep ==
  ASSUME ServersInvariant, NEW c \in Clients, NEW h \in Hosts, NEW p \in Hosts \cup {None}, Edit(c, h, p)
  PROVE  ServersInvariant'
<1> DEFINE f == [form[c] EXCEPT !.host = h, !.password = p]
<1>1. form[c] \in Form
  BY DEF Edit, ServersInvariant, TypeOK
<1>2. f \in Form
  BY <1>1 DEF Form
<1>3. form' = [form EXCEPT ![c] = f]
  BY DEF Edit, ServersInvariant, TypeOK
<1> HIDE DEF f
<1> QED
  BY <1>2, <1>3, FormKeeps DEF Edit

LEMMA CloseStep ==
  ASSUME ServersInvariant, NEW c \in Clients, Close(c)
  PROVE  ServersInvariant'
BY FormKeeps DEF Close

\* A save begins when none is under way, or orderly no longer holds.
LEMMA SaveBegins ==
  ASSUME ServersInvariant, NEW c \in Clients, NEW r \in Req,
         r.at = "find", r.ver = 0, req[c] = None,
         req' = [req EXCEPT ![c] = r], orderly' \in BOOLEAN,
         orderly' => orderly /\ ~(\E d \in Clients : Saving(d)),
         UNCHANGED <<rows, console, read, meant>>
  PROVE  ServersInvariant'
<1>1. UNCHANGED <<row, cred, list, invalid, fetch, form, wrote, read, meant>>
  BY DEF rows, console
<1>2. \A d \in Clients : req'[d] = IF d = c THEN r ELSE req[d]
  BY DEF ServersInvariant, TypeOK
<1>3. TypeOK'
  BY <1>1 DEF ServersInvariant, TypeOK
<1>4. FormsFit'
  BY <1>1, <1>2 DEF ServersInvariant, FormsFit
<1>5. Versioned'
  BY <1>1, <1>2 DEF ServersInvariant, TypeOK, Versioned, Row, Versions
<1>6. ReadsFit'
  BY <1>1 DEF ServersInvariant, ReadsFit
<1>7. InOrder'
  <2> SUFFICES ASSUME orderly' PROVE Alone' /\ HalfWritten' /\ Paired'
    BY DEF InOrder
  <2>1. \A d \in Clients : ~Saving(d)
    OBVIOUS
  <2>2. Alone'
    BY <1>2, <2>1 DEF Alone, Saving
  <2>3. HalfWritten'
    BY <1>1, <1>2, <2>1 DEF HalfWritten, Saving
  <2>4. Paired'
    BY <1>1, <1>2, <2>1 DEF ServersInvariant, InOrder, Paired, Password, Half, Saving
  <2> QED
    BY <2>2, <2>3, <2>4
<1> QED
  BY <1>3, <1>4, <1>5, <1>6, <1>7 DEF ServersInvariant

LEMMA SubmitStep ==
  ASSUME ServersInvariant, NEW c \in Clients, Submit(c)
  PROVE  ServersInvariant'
<1> DEFINE r == [op |-> "patch", at |-> "find", form |-> form[c], ver |-> 0]
<1>1. form[c] \in Form
  BY DEF Submit, ServersInvariant, TypeOK, FormsFit
<1>2. r \in Req
  BY <1>1, MaxVerAssumption DEF Req, Versions
<1>3. orderly' \in BOOLEAN
  BY DEF Submit, ServersInvariant, TypeOK
<1>4. orderly' => orderly /\ ~(\E d \in Clients : Saving(d))
  BY DEF Submit
<1>5. r.at = "find" /\ r.ver = 0 /\ r.form = form[c]
  OBVIOUS
<1>6. req[c] = None /\ req' = [req EXCEPT ![c] = r] /\ UNCHANGED <<rows, console, read, meant>>
  BY DEF Submit
<1> HIDE DEF r
<1> QED
  BY <1>1, <1>2, <1>3, <1>4, <1>5, <1>6, SaveBegins

LEMMA ConfirmStep ==
  ASSUME ServersInvariant, NEW c \in Clients, Confirm(c)
  PROVE  ServersInvariant'
<1> DEFINE f == [server |-> list[c], host |-> list[c].host, password |-> None]
           r == [op |-> "delete", at |-> "find", ver |-> 0, form |-> f]
<1>1. list[c] \in Row /\ list[c].host \in Hosts
  BY DEF Confirm, Listed, ServersInvariant, TypeOK, Row
<1>2. f \in Form
  BY <1>1 DEF Form
<1>3. r \in Req
  BY <1>2, MaxVerAssumption DEF Req, Versions
<1>4. orderly' \in BOOLEAN /\ (orderly' => orderly /\ ~(\E d \in Clients : Saving(d)))
  BY DEF Confirm, ServersInvariant, TypeOK
<1>5. r.at = "find" /\ r.ver = 0
  OBVIOUS
<1>6. req[c] = None /\ req' = [req EXCEPT ![c] = r] /\ UNCHANGED <<rows, console, read, meant>>
  BY DEF Confirm
<1> HIDE DEF r
<1> QED
  BY <1>3, <1>4, <1>5, <1>6, SaveBegins

----------------------------------------------------------------------------
\* A save goes on: only the place, perhaps the version, of its request changes.
LEMMA Advance ==
  ASSUME TypeOK, NEW c \in Clients, req[c] # None,
         NEW l \in {"find", "row", "cred", "done"}, NEW v \in Versions,
         req' = [req EXCEPT ![c] = [req[c] EXCEPT !.at = l, !.ver = v]]
  PROVE  /\ req[c] \in Req
         /\ req' \in [Clients -> Req \cup {None}]
         /\ \A d \in Clients : d # c => req'[d] = req[d]
         /\ req'[c] # None /\ req'[c].at = l /\ req'[c].ver = v
         /\ req'[c].op = req[c].op /\ req'[c].form = req[c].form
<1> DEFINE r == [req[c] EXCEPT !.at = l, !.ver = v]
<1>1. req[c] \in Req
  BY DEF TypeOK
<1>2. r \in Req /\ r.at = l /\ r.ver = v /\ r.op = req[c].op /\ r.form = req[c].form
  BY <1>1 DEF Req
<1> HIDE DEF r
<1>3. req' = [req EXCEPT ![c] = r]
  BY DEF r
<1>4. req'[c] = r /\ \A d \in Clients : d # c => req'[d] = req[d]
  BY <1>3 DEF TypeOK
<1>5. req' \in [Clients -> Req \cup {None}]
  BY <1>2, <1>3 DEF TypeOK
<1>6. r # None
  BY <1>2, SentinelAssumption
<1> QED
  BY <1>1, <1>2, <1>4, <1>5, <1>6

LEMMA GotoFacts ==
  ASSUME TypeOK, NEW c \in Clients, req[c] # None, NEW l \in {"find", "row", "cred", "done"}, Goto(c, l)
  PROVE  /\ req[c] \in Req
         /\ req' \in [Clients -> Req \cup {None}]
         /\ \A d \in Clients : d # c => req'[d] = req[d]
         /\ req'[c] # None /\ req'[c].at = l /\ req'[c].ver = req[c].ver
         /\ req'[c].op = req[c].op /\ req'[c].form = req[c].form
<1> DEFINE r == [req[c] EXCEPT !.at = l]
<1>1. req[c] \in Req
  BY DEF TypeOK
<1>2. r \in Req /\ r.at = l /\ r.ver = req[c].ver /\ r.op = req[c].op /\ r.form = req[c].form
  BY <1>1 DEF Req
<1>3. req' = [req EXCEPT ![c] = r]
  BY DEF Goto
<1> HIDE DEF r
<1>4. req'[c] = r /\ \A d \in Clients : d # c => req'[d] = req[d]
  BY <1>3 DEF TypeOK
<1>5. req' \in [Clients -> Req \cup {None}]
  BY <1>2, <1>3 DEF TypeOK
<1> QED
  BY <1>1, <1>2, <1>4, <1>5, SentinelAssumption

LEMMA FindServerStep ==
  ASSUME ServersInvariant, NEW c \in Clients, FindServer(c)
  PROVE  ServersInvariant'
<1>1. /\ UNCHANGED <<row, cred, list, invalid, fetch, form, wrote, read, meant, orderly>>
      /\ req[c] # None /\ req[c].at = "find"
  BY DEF FindServer, rows, history, console
<1>2. /\ req[c] \in Req
      /\ req' \in [Clients -> Req \cup {None}]
      /\ \A d \in Clients : d # c => req'[d] = req[d]
      /\ req'[c] # None /\ req'[c].at = "row" /\ req'[c].ver = req[c].ver
      /\ req'[c].op = req[c].op /\ req'[c].form = req[c].form
  BY GotoFacts DEF FindServer, ServersInvariant
<1>3. TypeOK'
  BY <1>1, <1>2 DEF ServersInvariant, TypeOK
<1>4. FormsFit'
  BY <1>1, <1>2 DEF ServersInvariant, FormsFit
<1>5. ReadsFit'
  BY <1>1 DEF ServersInvariant, ReadsFit
<1>6. Versioned'
  BY <1>1, <1>2 DEF ServersInvariant, Versioned
<1>7. \A d \in Clients : /\ (req'[d] # None) = (req[d] # None)
                         /\ (req'[d] # None /\ req'[d].at # "done") = Saving(d)
                         /\ (req'[d] # None /\ req'[d].at = "cred") = (req[d] # None /\ req[d].at = "cred")
  BY <1>1, <1>2 DEF Saving
<1>8. InOrder'
  <2> SUFFICES ASSUME orderly' PROVE Alone' /\ HalfWritten' /\ Paired'
    BY DEF InOrder
  <2>1. Alone /\ HalfWritten /\ Paired
    BY <1>1 DEF ServersInvariant, InOrder
  <2>2. Alone'
    BY <1>7, <2>1 DEF Alone, Saving
  <2>3. HalfWritten'
    BY <1>1, <1>2, <1>7, <2>1 DEF HalfWritten
  <2>4. Paired'
    BY <1>1, <1>7, <2>1 DEF Paired, Password, Half
  <2> QED
    BY <2>2, <2>3, <2>4
<1> QED
  BY <1>3, <1>4, <1>5, <1>6, <1>8 DEF ServersInvariant

\* What a write of the row does to a reader.
LEMMA SurprisedFacts ==
  ASSUME TypeOK, ReadsFit, read' = Surprised, meant \subseteq meant'
  PROVE  /\ read' \in Read \cup {None}
         /\ read' # None => /\ read'.left \in {<<>>, <<"cred">>}
                            /\ ~(read'.clean /\ read'.left = <<"cred">>)
                            /\ read'.clean /\ read'.left = <<>> => <<read'.host, read'.cred>> \in meant'
<1>1. CASE read # None /\ read.left # <<>>
  <2>1. read \in Read /\ read' = [read EXCEPT !.clean = FALSE]
    BY <1>1 DEF TypeOK, Surprised
  <2>2. read' \in Read /\ read'.clean = FALSE /\ read'.left = read.left
    BY <2>1 DEF Read
  <2> QED
    BY <1>1, <2>2 DEF ReadsFit
<1>2. CASE ~(read # None /\ read.left # <<>>)
  <2>1. read' = read
    BY <1>2 DEF Surprised
  <2>2. read' # None => read'.left = <<>> /\ read'.left # <<"cred">>
    BY <1>2, <2>1
  <2>3. read' # None => (read'.clean => <<read'.host, read'.cred>> \in meant')
    BY <2>1, <2>2 DEF ReadsFit
  <2>4. read' \in Read \cup {None}
    BY <2>1 DEF TypeOK
  <2> QED
    BY <2>2, <2>3, <2>4
<1> QED
  BY <1>1, <1>2

LEMMA WriteRowStep ==
  ASSUME ServersInvariant, NEW c \in Clients, WriteRow(c)
  PROVE  ServersInvariant'
<1>1. /\ UNCHANGED <<cred, list, invalid, fetch, form, wrote, orderly>>
      /\ req[c] # None /\ req[c].op = "patch" /\ req[c].at = "row" /\ row.host # None /\ row.ver < MaxVer
      /\ row' = [host |-> req[c].form.host, ver |-> row.ver + 1]
      /\ meant' = IF orderly THEN meant \cup {Pair(req[c].form)} ELSE meant
  BY DEF WriteRow, console, history
<1>2. req[c] \in Req /\ req[c].form \in Form /\ req[c].form.host \in Hosts
      /\ req[c].form.password \in Hosts \cup {None}
  BY <1>1 DEF ServersInvariant, TypeOK, Req, Form
<1>3. row \in Row /\ row.ver \in Nat /\ row.ver + 1 \in Versions
  BY <1>1, MaxVerAssumption DEF ServersInvariant, TypeOK, Row, Versions
<1>4. /\ row' \in Row /\ row'.host = req[c].form.host /\ row'.ver = row.ver + 1 /\ row'.host # None
  BY <1>1, <1>2, <1>3, NoneAssumption DEF Row
<1>5. AfterRow(req[c].form) \in {"find", "row", "cred", "done"}
  BY DEF AfterRow
<1>6. req' = [req EXCEPT ![c] = [req[c] EXCEPT !.at = AfterRow(req[c].form), !.ver = row.ver + 1]]
  BY DEF WriteRow, ServersInvariant, TypeOK
<1>7. /\ req' \in [Clients -> Req \cup {None}]
      /\ \A d \in Clients : d # c => req'[d] = req[d]
      /\ req'[c] # None /\ req'[c].at = AfterRow(req[c].form) /\ req'[c].ver = row.ver + 1
      /\ req'[c].op = req[c].op /\ req'[c].form = req[c].form
  BY <1>1, <1>3, <1>5, <1>6, Advance DEF ServersInvariant
<1>8. /\ read' \in Read \cup {None}
      /\ read' # None => /\ read'.left \in {<<>>, <<"cred">>}
                         /\ ~(read'.clean /\ read'.left = <<"cred">>)
                         /\ read'.clean /\ read'.left = <<>> => <<read'.host, read'.cred>> \in meant'
  BY <1>1, SurprisedFacts DEF WriteRow, ServersInvariant
<1>9. TypeOK'
  <2>1. Pair(req[c].form) \in Hosts \X (Hosts \cup {None})
    BY <1>2, PasswordTyped DEF Pair, ServersInvariant
  <2>2. meant' \subseteq Hosts \X (Hosts \cup {None})
    BY <1>1, <2>1 DEF ServersInvariant, TypeOK
  <2> QED
    BY <1>1, <1>4, <1>7, <1>8, <2>2 DEF ServersInvariant, TypeOK
<1>10. FormsFit'
  BY <1>1, <1>2, <1>7 DEF ServersInvariant, FormsFit, AfterRow
<1>11. ReadsFit'
  BY <1>8 DEF ReadsFit
<1>12. Versioned'
  BY <1>1, <1>3, <1>4, <1>7 DEF ServersInvariant, TypeOK, Versioned, Req, Versions
<1>13. InOrder'
  <2> SUFFICES ASSUME orderly' PROVE Alone' /\ HalfWritten' /\ Paired'
    BY DEF InOrder
  <2>1. Alone /\ HalfWritten /\ Paired
    BY <1>1 DEF ServersInvariant, InOrder
  <2>2. \A d \in Clients : d # c => req'[d] = req[d] /\ (req[d] = None \/ req[d].at = "done")
    BY <1>1, <1>7, <2>1 DEF Alone, Saving
  <2>3. Alone'
    BY <2>2 DEF Alone, Saving
  <2>4. HalfWritten'
    <3>1. Pair(req[c].form) \in meant' /\ row'.host = req[c].form.host
      BY <1>1, <1>4
    <3> QED
      BY <1>7, <2>2, <3>1 DEF HalfWritten, AfterRow, Pair
  <2>5. Paired'
    <3> SUFFICES ASSUME ~Half' PROVE <<row'.host, Password'>> \in meant'
      BY DEF Paired
    <3>1. req[c].form.password = None
      BY <1>7 DEF AfterRow, Half
    <3>2. Pair(req[c].form) = <<row'.host, Password'>>
      BY <1>1, <1>4, <3>1 DEF Pair, Password
    <3> QED
      BY <1>1, <3>2
  <2> QED
    BY <2>3, <2>4, <2>5
<1> QED
  BY <1>9, <1>10, <1>11, <1>12, <1>13 DEF ServersInvariant

LEMMA WriteCredStep ==
  ASSUME ServersInvariant, NEW c \in Clients, WriteCred(c)
  PROVE  ServersInvariant'
<1>1. /\ UNCHANGED <<row, list, invalid, fetch, form, wrote, read, meant, orderly>>
      /\ req[c] # None /\ req[c].at = "cred" /\ cred # None
      /\ cred' = EncryptSecret(req[c].form.password, req[c].ver)
  BY DEF WriteCred, console, history
<1>2. /\ req[c] \in Req
      /\ req' \in [Clients -> Req \cup {None}]
      /\ \A d \in Clients : d # c => req'[d] = req[d]
      /\ req'[c] # None /\ req'[c].at = "done" /\ req'[c].ver = req[c].ver
      /\ req'[c].op = req[c].op /\ req'[c].form = req[c].form
  BY GotoFacts DEF WriteCred, ServersInvariant
<1>3. req[c].form.password \in Hosts /\ req[c].form.password # None
  BY <1>1, <1>2 DEF ServersInvariant, FormsFit, Req, Form
<1>4. cred' \in EncryptedSecret /\ cred' # None /\ Password' = req[c].form.password
  <2>1. req[c].ver \in Versions
    BY <1>2 DEF Req
  <2> QED
    BY <1>1, <1>3, <2>1, EnvelopeOpens DEF Password
<1>5. TypeOK'
  BY <1>1, <1>2, <1>3, <1>4 DEF ServersInvariant, TypeOK
<1>6. FormsFit'
  BY <1>1, <1>2 DEF ServersInvariant, FormsFit
<1>7. ReadsFit'
  BY <1>1 DEF ServersInvariant, ReadsFit
<1>8. Versioned'
  BY <1>1, <1>2 DEF ServersInvariant, Versioned
<1>9. InOrder'
  <2> SUFFICES ASSUME orderly' PROVE Alone' /\ HalfWritten' /\ Paired'
    BY DEF InOrder
  <2>1. Alone /\ HalfWritten /\ Paired
    BY <1>1 DEF ServersInvariant, InOrder
  <2>2. \A d \in Clients : req'[d] = None \/ req'[d].at = "done"
    BY <1>1, <1>2, <2>1 DEF Alone, Saving
  <2>3. Alone' /\ HalfWritten'
    BY <2>2 DEF Alone, Saving, HalfWritten
  <2>4. Paired'
    BY <1>1, <1>3, <1>4, <2>1 DEF HalfWritten, Paired
  <2> QED
    BY <2>3, <2>4
<1> QED
  BY <1>5, <1>6, <1>7, <1>8, <1>9 DEF ServersInvariant

LEMMA DeleteRowStep ==
  ASSUME ServersInvariant, NEW c \in Clients, DeleteRow(c)
  PROVE  ServersInvariant'
<1>1. /\ UNCHANGED <<list, invalid, fetch, form, wrote, meant, orderly>>
      /\ req[c] # None /\ req[c].at = "row" /\ row.ver < MaxVer
      /\ row' = [host |-> None, ver |-> row.ver + 1] /\ cred' = None
  BY DEF DeleteRow, Cascade, console, history
<1>2. row \in Row /\ row.ver \in Nat /\ row.ver + 1 \in Versions
  BY <1>1, MaxVerAssumption DEF ServersInvariant, TypeOK, Row, Versions
<1>3. row' \in Row /\ row'.host = None /\ row'.ver = row.ver + 1
  BY <1>1, <1>2 DEF Row
<1>4. req' = [req EXCEPT ![c] = [req[c] EXCEPT !.at = "done", !.ver = row.ver + 1]]
  BY DEF DeleteRow, ServersInvariant, TypeOK
<1>5. /\ req[c] \in Req
      /\ req' \in [Clients -> Req \cup {None}]
      /\ \A d \in Clients : d # c => req'[d] = req[d]
      /\ req'[c] # None /\ req'[c].at = "done" /\ req'[c].ver = row.ver + 1
      /\ req'[c].op = req[c].op /\ req'[c].form = req[c].form
  BY <1>1, <1>2, <1>4, Advance DEF ServersInvariant
<1>6. /\ read' \in Read \cup {None}
      /\ read' # None => /\ read'.left \in {<<>>, <<"cred">>}
                         /\ ~(read'.clean /\ read'.left = <<"cred">>)
                         /\ read'.clean /\ read'.left = <<>> => <<read'.host, read'.cred>> \in meant'
  BY <1>1, SurprisedFacts DEF DeleteRow, ServersInvariant
<1>7. TypeOK'
  BY <1>1, <1>3, <1>5, <1>6 DEF ServersInvariant, TypeOK
<1>8. FormsFit'
  BY <1>1, <1>5 DEF ServersInvariant, FormsFit
<1>9. ReadsFit'
  BY <1>6 DEF ReadsFit
<1>10. Versioned'
  BY <1>1, <1>2, <1>3, <1>5 DEF ServersInvariant, TypeOK, Versioned, Req, Versions
<1>11. InOrder'
  <2> SUFFICES ASSUME orderly' PROVE Alone' /\ HalfWritten' /\ Paired'
    BY DEF InOrder
  <2>1. Alone
    BY <1>1 DEF ServersInvariant, InOrder
  <2>2. \A d \in Clients : req'[d] = None \/ req'[d].at = "done"
    BY <1>1, <1>5, <2>1 DEF Alone, Saving
  <2> QED
    BY <1>3, <2>2 DEF Alone, Saving, HalfWritten, Paired
<1> QED
  BY <1>7, <1>8, <1>9, <1>10, <1>11 DEF ServersInvariant

LEMMA FailStep ==
  ASSUME ServersInvariant, NEW c \in Clients, Fail(c)
  PROVE  ServersInvariant'
<1>1. /\ UNCHANGED <<row, cred, list, invalid, fetch, form, wrote, read, meant>>
      /\ req[c] # None /\ orderly' = (orderly /\ req[c].at # "cred")
  BY DEF Fail, rows, console
<1>2. \A d \in Clients : req'[d] = IF d = c THEN None ELSE req[d]
  BY DEF Fail, ServersInvariant, TypeOK
<1>3. req' \in [Clients -> Req \cup {None}] /\ orderly' \in BOOLEAN
  BY <1>1 DEF Fail, ServersInvariant, TypeOK
<1>4. TypeOK'
  BY <1>1, <1>3 DEF ServersInvariant, TypeOK
<1>5. FormsFit'
  BY <1>1, <1>2 DEF ServersInvariant, FormsFit
<1>6. ReadsFit'
  BY <1>1 DEF ServersInvariant, ReadsFit
<1>7. Versioned'
  BY <1>1, <1>2 DEF ServersInvariant, Versioned
<1>8. InOrder'
  <2> SUFFICES ASSUME orderly' PROVE Alone' /\ HalfWritten' /\ Paired'
    BY DEF InOrder
  <2>1. req[c].at # "cred" /\ Alone /\ HalfWritten /\ Paired
    BY <1>1 DEF ServersInvariant, InOrder
  <2>2. Alone' /\ HalfWritten'
    BY <1>1, <1>2, <2>1 DEF Alone, Saving, HalfWritten
  <2>3. Half => Half'
    BY <1>2, <2>1 DEF Half
  <2>4. Paired'
    BY <1>1, <2>1, <2>3 DEF Paired, Password
  <2> QED
    BY <2>2, <2>4
<1> QED
  BY <1>4, <1>5, <1>6, <1>7, <1>8 DEF ServersInvariant

LEMMA AnsweredStep ==
  ASSUME ServersInvariant, NEW c \in Clients, Answered(c)
  PROVE  ServersInvariant'
<1>1. UNCHANGED <<row, cred, list, read, meant, orderly>> /\ req[c] # None /\ req[c].at = "done"
  BY DEF Answered, rows, history
<1>2. \A d \in Clients : /\ req'[d] = IF d = c THEN None ELSE req[d]
                         /\ form'[d] = IF d = c THEN None ELSE form[d]
                         /\ invalid'[d] = IF d = c THEN TRUE ELSE invalid[d]
                         /\ fetch'[d] = IF d = c THEN Asked ELSE fetch[d]
                         /\ wrote'[d] = IF d = c THEN req[c].ver ELSE wrote[d]
  BY DEF Answered, Invalidate, ServersInvariant, TypeOK
<1>3. req[c] \in Req /\ req[c].ver \in Versions /\ req[c].ver <= row.ver
  BY <1>1 DEF ServersInvariant, TypeOK, Versioned, Req
<1>4. TypeOK'
  BY <1>1, <1>3 DEF Answered, Invalidate, ServersInvariant, TypeOK
<1>5. FormsFit'
  BY <1>2 DEF ServersInvariant, FormsFit
<1>6. ReadsFit'
  BY <1>1 DEF ServersInvariant, ReadsFit
<1>7. Versioned'
  BY <1>1, <1>2, <1>3, SentinelAssumption DEF ServersInvariant, Versioned
<1>8. InOrder'
  <2> SUFFICES ASSUME orderly' PROVE Alone' /\ HalfWritten' /\ Paired'
    BY DEF InOrder
  <2>1. Alone /\ HalfWritten /\ Paired
    BY <1>1 DEF ServersInvariant, InOrder
  <2>2. \A d \in Clients : req'[d] # None => req'[d] = req[d]
    BY <1>2
  <2>3. Alone'
    BY <2>1, <2>2 DEF Alone, Saving
  <2>4. HalfWritten'
    BY <1>1, <2>1, <2>2 DEF HalfWritten
  <2>5. Half => Half'
    BY <1>1, <1>2 DEF Half
  <2>6. Paired'
    BY <1>1, <2>1, <2>5 DEF Paired, Password
  <2> QED
    BY <2>3, <2>4, <2>6
<1> QED
  BY <1>4, <1>5, <1>6, <1>7, <1>8 DEF ServersInvariant

----------------------------------------------------------------------------
\* A reader changes nothing but itself.
LEMMA ReadKeeps ==
  ASSUME ServersInvariant, UNCHANGED <<rows, console, req, history>>,
         read' \in Read \cup {None}, ReadsFit'
  PROVE  ServersInvariant'
<1>1. UNCHANGED <<row, cred, list, invalid, fetch, form, wrote, req, meant, orderly>>
  BY DEF rows, history, console
<1>2. TypeOK'
  BY <1>1 DEF ServersInvariant, TypeOK
<1>3. FormsFit' /\ Versioned'
  BY <1>1 DEF ServersInvariant, FormsFit, Versioned
<1>4. InOrder'
  BY <1>1 DEF ServersInvariant, InOrder, Alone, HalfWritten, Paired, Password, Half, Saving
<1> QED
  BY <1>2, <1>3, <1>4 DEF ServersInvariant

LEMMA StartReadStep ==
  ASSUME ServersInvariant, StartRead
  PROVE  ServersInvariant'
<1> DEFINE r == [left |-> <<"cred">>, host |-> row.host, cred |-> None, clean |-> TRUE]
<1>1. read' = r
  BY DEF StartRead, Select, Selects
<1>2. row.host \in Hosts /\ UNCHANGED row
  BY DEF StartRead, ServersInvariant, TypeOK, Row, rows
<1>3. read' \in Read
  BY <1>1, <1>2 DEF Read
<1>4. ReadsFit'
  BY <1>1, <1>2 DEF ReadsFit
<1> QED
  BY <1>3, <1>4, ReadKeeps DEF StartRead

LEMMA EndReadStep ==
  ASSUME ServersInvariant, EndRead
  PROVE  ServersInvariant'
<1>1. read \in Read /\ read.left = <<"cred">> /\ read # None
  BY DEF EndRead, ServersInvariant, TypeOK, ReadsFit
<1> DEFINE r == [read EXCEPT !.cred = Password]
           w == [r EXCEPT !.left = <<>>, !.clean = @ /\ orderly /\ ~Half]
<1>2. read' = None \/ (r.host # None /\ r.cred # None /\ read' = w)
  BY <1>1 DEF EndRead, Select
<1>3. r \in Read /\ r.host = read.host /\ r.cred = Password /\ r.clean = read.clean
  BY <1>1, PasswordTyped DEF Read, ServersInvariant
<1>4. (read.clean /\ orderly /\ ~Half) \in BOOLEAN
  OBVIOUS
<1>5. w \in Read /\ w.host = read.host /\ w.cred = Password /\ w.left = <<>> /\ w.clean = (read.clean /\ orderly /\ ~Half)
  BY <1>3, <1>4 DEF Read
<1> HIDE DEF w
<1>6. read' \in Read \cup {None}
  BY <1>2, <1>5
<1>7. ReadsFit'
  <2>1. CASE read' = None
    BY <2>1 DEF ReadsFit
  <2>2. CASE read' # None
    <3>1. read' = w /\ read.host # None
      BY <1>2, <1>3, <2>2
    <3>2. ASSUME read.clean, orderly, ~Half PROVE <<read.host, Password>> \in meant
      <4>1. read.host = row.host
        BY <1>1, <3>2 DEF ServersInvariant, ReadsFit
      <4>2. row.host # None => <<row.host, Password>> \in meant
        BY <3>2 DEF ServersInvariant, InOrder, Paired
      <4> QED
        BY <3>1, <4>1, <4>2
    <3>3. read'.left = <<>> /\ read'.left # <<"cred">>
      <4>1. w.left = <<>>
        BY <1>5
      <4>2. <<>> # <<"cred">>
        OBVIOUS
      <4> QED
        BY <3>1, <4>1, <4>2
    <3>4. read'.clean => <<read'.host, read'.cred>> \in meant'
      <4>1. meant' = meant
        BY DEF EndRead, history
      <4> QED
        BY <1>5, <3>1, <3>2, <4>1
    <3> QED
      BY <3>3, <3>4 DEF ReadsFit
  <2> QED
    BY <2>1, <2>2
<1> QED
  BY <1>6, <1>7, ReadKeeps DEF EndRead

LEMMA DisconnectStep ==
  ASSUME ServersInvariant, Disconnect
  PROVE  ServersInvariant'
<1>1. read' = None /\ ReadsFit'
  BY DEF Disconnect, ReadsFit
<1> QED
  BY <1>1, ReadKeeps DEF Disconnect

----------------------------------------------------------------------------
\* Every action keeps the invariant.
THEOREM InvariantStep == ServersInvariant /\ [Next]_vars => ServersInvariant'
<1> SUFFICES ASSUME ServersInvariant, [Next]_vars PROVE ServersInvariant'
  OBVIOUS
<1>1. CASE \E c \in Clients : Browse(c)
  BY <1>1, FetchStep, ServeListStep, ShowStep, FetchFailsStep DEF Browse
<1>2. CASE \E c \in Clients : Use(c)
  BY <1>2, OpenStep, EditStep, CloseStep, SubmitStep, ConfirmStep DEF Use
<1>3. CASE \E c \in Clients : Serve(c)
  BY <1>3, FindServerStep, WriteRowStep, WriteCredStep, DeleteRowStep, FailStep, AnsweredStep DEF Serve
<1>4. CASE StartRead \/ EndRead \/ Disconnect
  BY <1>4, StartReadStep, EndReadStep, DisconnectStep
<1>5. CASE UNCHANGED vars
  <2>1. UNCHANGED <<rows, console, req, history>> /\ UNCHANGED <<read, row, meant>>
    BY <1>5 DEF vars, rows, history
  <2>2. read' \in Read \cup {None} /\ ReadsFit'
    BY <2>1 DEF ServersInvariant, TypeOK, ReadsFit
  <2> QED
    BY <2>1, <2>2, ReadKeeps
<1> QED
  BY <1>1, <1>2, <1>3, <1>4, <1>5 DEF Next

\* The invariant holds of every state that consoles, saves and readers can reach.
THEOREM AlwaysInvariant == Spec => []ServersInvariant
BY InvariantInit, InvariantStep, PTL DEF Spec

\* Rows, lists, forms, requests and reads are what they are declared to be, and a row
\* and its credential come and go together.
THEOREM TypeCorrect == Spec => []TypeOK
<1>1. ServersInvariant => TypeOK
  BY DEF ServersInvariant
<1> QED
  BY <1>1, AlwaysInvariant, PTL

\* After orderly saves, of any number of consoles, host and password are a pair that
\* one of them meant to store.
THEOREM SettingsStayPaired == Spec => []SettingsArePaired
<1>1. ServersInvariant => SettingsArePaired
  BY DEF ServersInvariant, InOrder, Paired, SettingsArePaired, Half, Saving
<1> QED
  BY <1>1, AlwaysInvariant, PTL

\* Whoever connects while a save is half done has a host and a password that one save
\* meant to go together, unless the row changed between the two queries.
THEOREM ReadsStayPaired == Spec => []ReadsArePaired
<1>1. ServersInvariant => ReadsArePaired
  BY DEF ServersInvariant, ReadsFit, ReadsArePaired
<1> QED
  BY <1>1, AlwaysInvariant, PTL

\* A console that shows an up-to-date list shows what it has written.
THEOREM OwnWritesShow == Spec => []OwnWriteShown
<1>1. ServersInvariant => OwnWriteShown
  <2> SUFFICES ASSUME ServersInvariant, NEW c \in Clients, list[c] # None, ~invalid[c]
               PROVE  list[c].ver >= wrote[c]
    BY DEF OwnWriteShown
  <2>1. list[c].ver \in Nat /\ wrote[c] \in Nat
    BY MaxVerAssumption DEF ServersInvariant, TypeOK, Row, Versions
  <2> QED
    BY <2>1 DEF ServersInvariant, Versioned
<1> QED
  BY <1>1, AlwaysInvariant, PTL
=============================================================================
