----------------------------- MODULE AuditChain -----------------------------
(***************************************************************************)
(* The audit log of one tenant: audit() reads the hash of the latest entry,*)
(* hashes its own entry with it and inserts the row; verifyAuditChain      *)
(* recomputes the chain from the rows.  Many processes append at once, the *)
(* API and the workers, with no transaction and no lock around the calls.  *)
(*                                                                         *)
(* Hash stands for SHA-256 of the previous hash and of canonical(), which  *)
(* covers the action, the meta and the instant of an entry; email stands   *)
(* for the columns it leaves out, actorEmail and ip.                       *)
(***************************************************************************)
EXTENDS Naturals, Sequences

CONSTANTS Writers,      \* executions of audit() that may overlap
          Actions, Emails,
          Metas,        \* meta as the code builds it
          Stored(_),    \* meta as jsonb returns it, its keys in jsonb's order
          Genesis,      \* the previous hash of the first entry
          Hash(_, _),   \* of a previous hash and of a canonical entry
          MaxTime,      \* bound on the clock
          MaxEntries,   \* bound on the length of the log
          NoDraft       \* what an idle writer has in hand

ASSUME MaxTimeAssumption == MaxTime \in Nat
ASSUME MaxEntriesAssumption == MaxEntries \in Nat

VARIABLES
  log,    \* the rows, in the order they were inserted, which is createdAt's
  now,    \* the clock of the processes and of the database, in milliseconds
  draft   \* per writer: the hash it read, then the entry it will insert

chainVars == <<log, now, draft>>

\* What canonical() serialises.
Canonical(e) == [action |-> e.action, meta |-> e.meta, at |-> e.at]

\* The hashes findFirst may return: createdAt has a millisecond's resolution, and
\* of the entries of one millisecond any may come first.
Heads == {log[i].hash : i \in {k \in DOMAIN log : log[k].at = log[Len(log)].at}}

ChainInit == /\ log = <<>>
             /\ now = 0
             /\ draft = [w \in Writers |-> NoDraft]

Take(w, d) == draft' = [draft EXCEPT ![w] = d]

\* Mutant: a head kept in memory, set before the insert it belongs to.
ReadHeadMutant(w) ==
  /\ draft[w] = NoDraft
  /\ \E h \in (IF log = <<>> THEN {Genesis} ELSE Heads)
              \cup {draft[x].hash : x \in {y \in Writers : /\ draft[y] # NoDraft
                                                          /\ "hash" \in DOMAIN draft[y]}} :
       Take(w, [read |-> h])
  /\ UNCHANGED <<log, now>>

ReadHead(w) ==
  /\ draft[w] = NoDraft
  /\ \E h \in (IF log = <<>> THEN {Genesis} ELSE Heads) : Take(w, [read |-> h])
  /\ UNCHANGED <<log, now>>

\* The rest of the function up to the insert: the instant is the process's own.
Prepare(w, action, meta, email) ==
  LET e == [action |-> action, meta |-> meta, email |-> email, at |-> now]
  IN  /\ draft[w] # NoDraft /\ "read" \in DOMAIN draft[w]
      /\ Take(w, [action |-> action, meta |-> meta, email |-> email, at |-> now,
                  prevHash |-> draft[w].read,
                  hash |-> Hash(draft[w].read, Canonical(e))])
      /\ UNCHANGED <<log, now>>

\* auditLog.create: the row's instant is the database's, its meta goes to jsonb.
Insert(w) ==
  /\ draft[w] # NoDraft /\ "hash" \in DOMAIN draft[w]
  /\ Len(log) < MaxEntries
  /\ log' = Append(log, [draft[w] EXCEPT !.meta = Stored(@), !.at = now])
  /\ Take(w, NoDraft)
  /\ UNCHANGED now

\* A call rejects, or the process dies: audit() swallows the error.
Lose(w) ==
  /\ draft[w] # NoDraft
  /\ Take(w, NoDraft)
  /\ UNCHANGED <<log, now>>

Tick == /\ now < MaxTime
        /\ now' = now + 1
        /\ UNCHANGED <<log, draft>>

ChainNext == \/ Tick
             \/ \E w \in Writers :
                  \/ ReadHead(w) \/ Insert(w) \/ Lose(w)
                  \/ \E a \in Actions, m \in Metas, e \in Emails : Prepare(w, a, m, e)

ChainSpec == ChainInit /\ [][ChainNext]_chainVars

----------------------------------------------------------------------------
\* Mutant: the verification trusts the link an entry states.
VerifyMutant(l) ==
  \A i \in DOMAIN l : l[i].hash = Hash(l[i].prevHash, Canonical(l[i]))

\* verifyAuditChain: every row links to the one before it and hashes to its hash.
\* It orders the rows by createdAt only.  Rows of one instant may come in any order;
\* here they come as they were inserted, the only order in which links can fit, as
\* an entry continues one that was there when its head was read.  So ties can make
\* the code reject a log that this accepts, and never the other way round.
Verify(l) ==
  \A i \in DOMAIN l :
    LET prevHash == IF i = 1 THEN Genesis ELSE l[i-1].hash
    IN  /\ l[i].hash = Hash(prevHash, Canonical(l[i]))
        /\ l[i].prevHash = prevHash

----------------------------------------------------------------------------
(* Properties. *)

\* Whatever races and losses, no entry hangs in the air: each one continues the
\* log from an entry that precedes it, or starts it.
EveryEntryContinues ==
  \A i \in DOMAIN log : \/ log[i].prevHash = Genesis
                        \/ \E k \in 1..(i - 1) : log[i].prevHash = log[k].hash

\* Replacing the i-th entry, or leaving it out.
Replaced(l, i, e) == [l EXCEPT ![i] = e]
Without(l, i) == SubSeq(l, 1, i - 1) \o SubSeq(l, i + 1, Len(l))

\* The hashes there are.
Hashes == {Genesis} \cup {log[k].hash : k \in DOMAIN log}

SameCanonical(d, e) == Canonical(d) = Canonical(e) /\ d.prevHash = e.prevHash

\* A log that verifies does not verify any more once an entry's action, meta,
\* instant or link is altered under its hash, or an entry but the last is removed.
TamperDetected ==
  Verify(log) =>
    \A i \in DOMAIN log :
      /\ \A a \in Actions, m \in Metas, t \in 0..MaxTime, p \in Hashes :
           LET e == [log[i] EXCEPT !.action = a, !.meta = m, !.at = t, !.prevHash = p]
           IN  ~SameCanonical(e, log[i]) => ~Verify(Replaced(log, i, e))
      /\ i < Len(log) => ~Verify(Without(log, i))

\* README: audit entries are hash-chained and verifiable.  Then a log nobody has
\* touched verifies.
UntamperedVerifies == Verify(log)
=============================================================================
