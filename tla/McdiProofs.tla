----------------------------- MODULE McdiProofs ------------------------------
(***************************************************************************)
(* The sequence number of the MCDI transport does its work for every       *)
(* modulus and every lateness below it: exec never takes the answer to     *)
(* another command for its own.                                            *)
(***************************************************************************)
EXTENDS Mcdi, WrapLemmas

\* A message of this load that was really sent: the request of a command
\* issued, or its answer, under the number the command was given.
Genuine(m) == m.n \in base+1..n /\ m.seq = (m.n - 1 - base) % SeqMod

\* No unload has left the MC with a request: every message is genuine, there is
\* none between an unload and the next load, and the response that exec finds
\* is not a whole cycle old.
Quits ==
  /\ \A m \in work : Genuine(m)
  /\ mailbox.kind # "none" => Genuine(mailbox)
  /\ ~mcdi_initialized => work = {} /\ ~rung
  /\ polling /\ mailbox.kind = "resp" => n - mailbox.n <= MaxLate

\* mcdi_seq counts the commands of this load.
SeqInv ==
  /\ TypeOK
  /\ mcdi_initialized => mcdi_seq = (IF polling THEN n - 1 - base ELSE n - base) % SeqMod
  /\ polling => n >= base + 1 /\ mcdi_initialized
  /\ ~owed => Quits
  /\ OwnResponse

\* exec numbers the commands of a load modulo SeqMod without a gap.
LEMMA AdvanceCounts ==
  ASSUME SeqInv, polling, Advance, n' = n, base' = base
  PROVE  /\ mcdi_seq' = (n' - base') % SeqMod /\ mcdi_seq' \in 0..SeqMod-1
         /\ polling' = FALSE
<1> USE McdiAssumption DEF McdiAssumption
<1>1. n - 1 - base \in Nat /\ n - base \in Nat /\ SeqMod \in Nat \ {0}
      /\ (n - 1 - base) + 1 = n - base
  BY DEF SeqInv, TypeOK
<1>2. mcdi_seq' = (((n - 1 - base) % SeqMod) + 1) % SeqMod
  BY DEF SeqInv, Advance
<1>3. mcdi_seq' = ((n - 1 - base) + 1) % SeqMod
  BY <1>1, <1>2, ModSucc
<1>4. QED
  BY <1>1, <1>3, DivMod DEF Advance

\* A response under the number exec waits for is the response to its command.
LEMMA MatchIsOwn ==
  ASSUME SeqInv, ~owed, polling, mailbox.kind = "resp", mailbox.seq = mcdi_seq
  PROVE  mailbox.n = n
<1> USE McdiAssumption DEF McdiAssumption
<1> DEFINE k == mailbox.n
<1>1. k \in base+1..n /\ n \in Nat /\ base \in Nat /\ n - k <= MaxLate
  BY DEF SeqInv, Quits, TypeOK, Genuine
<1>2. (k - 1 - base) % SeqMod = (n - 1 - base) % SeqMod
  BY DEF SeqInv, Quits, Genuine
<1> HIDE DEF k
<1>3. /\ k - 1 - base \in Nat /\ n - 1 - base \in Nat
      /\ k - 1 - base <= n - 1 - base
      /\ (n - 1 - base) - (k - 1 - base) < SeqMod
  BY <1>1
<1>4. k - 1 - base = n - 1 - base
  BY <1>2, <1>3, ModUnique
<1>5. QED
  BY <1>1, <1>4 DEF k

\* Every step of exec, of the MC, of an unload and of a load keeps the
\* invariant.
LEMMA SeqStep == SeqInv /\ [Next]_vars => SeqInv'
<1> SUFFICES ASSUME SeqInv, [Next]_vars PROVE SeqInv'
  OBVIOUS
<1> USE McdiAssumption DEF McdiAssumption
<1>1. CASE UNCHANGED vars
  BY <1>1 DEF SeqInv, Quits, TypeOK, Genuine, OwnResponse, vars, mc, load
<1>2. CASE send_locked
  <2>1. mailbox' \in Message /\ mailbox'.kind = "req" /\ mailbox'.n = n'
        /\ mailbox'.seq = mcdi_seq
    BY <1>2 DEF send_locked, Message, SeqInv, TypeOK
  <2>2. /\ n \in Nat /\ base \in 0..n /\ n' = n + 1 /\ base' = base
        /\ n' - 1 - base' = n - base /\ mcdi_seq = (n - base) % SeqMod
    BY <1>2 DEF send_locked, SeqInv, TypeOK, load
  <2>3. TypeOK'
    BY <1>2, <2>1, <2>2 DEF send_locked, SeqInv, TypeOK, mc, load
  <2>4. ~owed => \A m \in work : Genuine(m) /\ m.n \in Int
    BY DEF SeqInv, Quits, Genuine
  <2>5. ~owed => \A m \in work : Genuine(m)'
    BY <1>2, <2>2, <2>4 DEF Genuine
  <2>6. Genuine(mailbox)'
    BY <1>2, <2>1, <2>2 DEF Genuine, send_locked
  <2>7. QED
    BY <1>2, <2>1, <2>2, <2>3, <2>5, <2>6
       DEF send_locked, SeqInv, Quits, OwnResponse, mc, load
<1>3. CASE exec_response
  <2>1. mcdi_seq' = (n' - base') % SeqMod /\ mcdi_seq' \in 0..SeqMod-1 /\ ~polling'
    BY <1>3, AdvanceCounts DEF exec_response, load
  <2>2. ret' \in [n : 0..MaxCmds, of : 0..MaxCmds,
                  rc : {"none", "0", "E", "EPROTO", "ETIMEDOUT"}]
    BY <1>3 DEF exec_response, xlate_err, SeqInv, TypeOK, Message
  <2>3. TypeOK'
    BY <1>3, <2>1, <2>2 DEF exec_response, Advance, SeqInv, TypeOK, mc, load
  <2>4. OwnResponse'
    BY <1>3, MatchIsOwn DEF exec_response, OwnResponse, load
  <2>5. QED
    BY <1>3, <2>1, <2>3, <2>4 DEF exec_response, SeqInv, Quits, Genuine, mc, load
<1>4. CASE exec_timeout
  <2>1. mcdi_seq' = (n' - base') % SeqMod /\ mcdi_seq' \in 0..SeqMod-1 /\ ~polling'
    BY <1>4, AdvanceCounts DEF exec_timeout, load
  <2>2. ret' \in [n : 0..MaxCmds, of : 0..MaxCmds,
                  rc : {"none", "0", "E", "EPROTO", "ETIMEDOUT"}]
    BY <1>4 DEF exec_timeout, SeqInv, TypeOK
  <2>3. TypeOK'
    <3>1. /\ mailbox' \in Message /\ work' \subseteq Message /\ n' \in 0..MaxCmds
          /\ done' \in [1..MaxCmds -> {"none", "ok", "err", "short"}]
          /\ loads' \in 1..MaxLoads /\ base' \in 0..n'
      BY <1>4 DEF exec_timeout, mc, load, SeqInv, TypeOK
    <3>2. /\ mcdi_new_epoch' \in BOOLEAN /\ polling' \in BOOLEAN
          /\ rung' \in BOOLEAN /\ owed' \in BOOLEAN
          /\ mcdi_initialized' \in BOOLEAN
      BY <1>4, Zenon DEF exec_timeout, Advance, mc, load, SeqInv, TypeOK
    <3>3. timeouts' \in Nat
      BY <1>4 DEF exec_timeout, SeqInv, TypeOK
    <3>4. QED
      BY <2>1, <2>2, <3>1, <3>2, <3>3, Zenon DEF TypeOK
  <2>4. QED
    BY <1>4, <2>1, <2>3 DEF exec_timeout, SeqInv, Quits, Genuine, OwnResponse, mc, load
<1>5. CASE mcdi_fini
  <2>1. TypeOK'
    <3>1. mcdi_initialized' \in BOOLEAN /\ owed' \in BOOLEAN
      BY <1>5, Zenon DEF mcdi_fini, SeqInv, TypeOK
    <3>2. QED
      BY <1>5, <3>1 DEF mcdi_fini, SeqInv, TypeOK, mc
  <2>2. QED
    BY <1>5, <2>1 DEF mcdi_fini, SeqInv, Quits, Genuine, OwnResponse, mc
<1>6. CASE mcdi_init
  <2>1. mailbox' \in Message /\ mailbox'.kind = "none"
    BY <1>6 DEF mcdi_init, Fresh, Message
  <2>2. n \in Nat /\ n' = n /\ base' = n /\ mcdi_seq' = 0 /\ 0 = (n' - base') % SeqMod
    BY <1>6 DEF mcdi_init, SeqInv, TypeOK
  <2>3. ~polling
    BY <1>6 DEF mcdi_init, SeqInv
  <2>4. TypeOK'
    BY <1>6, <2>1, <2>2 DEF mcdi_init, SeqInv, TypeOK, mc
  <2>5. QED
    BY <1>6, <2>1, <2>2, <2>3, <2>4
       DEF mcdi_init, SeqInv, Quits, OwnResponse, mc
<1>7. CASE McFetch
  <2>1. TypeOK'
    <3>1. work' \subseteq Message
      BY <1>7 DEF McFetch, SeqInv, TypeOK
    <3>2. rung' \in BOOLEAN /\ polling' \in BOOLEAN /\ mcdi_new_epoch' \in BOOLEAN
          /\ mcdi_initialized' \in BOOLEAN /\ owed' \in BOOLEAN
      BY <1>7, Zenon DEF McFetch, SeqInv, TypeOK, load
    <3>3. /\ mailbox' \in Message /\ mcdi_seq' \in 0..SeqMod-1 /\ timeouts' \in Nat
          /\ n' \in 0..MaxCmds /\ loads' \in 1..MaxLoads /\ base' \in 0..n'
          /\ done' \in [1..MaxCmds -> {"none", "ok", "err", "short"}]
          /\ ret' = ret
      BY <1>7 DEF McFetch, SeqInv, TypeOK, load
    <3>4. QED
      BY <3>1, <3>2, <3>3, Zenon DEF SeqInv, TypeOK
  <2>2. /\ mailbox' = mailbox /\ n' = n /\ base' = base /\ owed' = owed
        /\ mcdi_initialized' = mcdi_initialized /\ rung /\ ~rung'
        /\ work' \subseteq work \cup {mailbox}
        /\ mailbox.kind # "req" => work' = work
    BY <1>7 DEF McFetch, load
  <2>3. Quits => Quits'
    <3>1. ASSUME Quits PROVE \A m \in work' : Genuine(m)'
      BY <2>2, <3>1 DEF Quits, Genuine
    <3>2. QED
      BY <1>7, <2>2, <3>1 DEF Quits, Genuine, McFetch
  <2>4. QED
    BY <1>7, <2>1, <2>2, <2>3 DEF McFetch, SeqInv, OwnResponse, load
<1>8. ASSUME NEW m \in work, NEW status \in Status, McRespond(m, status)
      PROVE  SeqInv'
  <2>1. m \in Message /\ (~owed => Genuine(m) /\ mcdi_initialized)
    BY DEF SeqInv, Quits, TypeOK
  <2>2. /\ mailbox' \in Message /\ mailbox'.n = m.n /\ mailbox'.seq = m.seq
        /\ mailbox'.kind = "resp"
    BY <1>8, <2>1 DEF McRespond, Message, Status
  <2>3. TypeOK'
    BY <1>8, <2>2 DEF McRespond, SeqInv, TypeOK, Status, load
  <2>4. QED
    BY <1>8, <2>1, <2>2, <2>3 DEF McRespond, SeqInv, Quits, Genuine, OwnResponse, load
<1>9. QED
  BY <1>1, <1>2, <1>3, <1>4, <1>5, <1>6, <1>7, <1>8 DEF Next, exec

\* The initial state satisfies the invariant.
LEMMA InitSeq == Init => SeqInv
<1> SUFFICES ASSUME Init PROVE SeqInv
  OBVIOUS
<1> USE McdiAssumption DEF McdiAssumption
<1>1. TypeOK
  <2>1. mailbox \in Message
    BY DEF Init, Fresh, Message
  <2>2. ret \in [n : 0..MaxCmds, of : 0..MaxCmds,
                 rc : {"none", "0", "E", "EPROTO", "ETIMEDOUT"}]
    BY DEF Init
  <2>3. /\ work \subseteq Message /\ timeouts \in Nat /\ n \in 0..MaxCmds
        /\ mcdi_seq \in 0..SeqMod-1 /\ loads \in 1..MaxLoads /\ base \in 0..n
        /\ done \in [1..MaxCmds -> {"none", "ok", "err", "short"}]
    BY DEF Init
  <2>4. /\ mcdi_new_epoch \in BOOLEAN /\ polling \in BOOLEAN /\ rung \in BOOLEAN
        /\ mcdi_initialized \in BOOLEAN /\ owed \in BOOLEAN
    BY Zenon DEF Init
  <2>5. QED
    BY <2>1, <2>2, <2>3, <2>4, Zenon DEF TypeOK
<1>2. mcdi_seq = (n - base) % SeqMod
  BY DEF Init
<1>3. QED
  BY <1>1, <1>2 DEF Init, Fresh, SeqInv, Quits, OwnResponse

\* SeqInv holds throughout.
LEMMA SeqInvariant == Spec => []SeqInv
BY InitSeq, SeqStep, PTL DEF Spec

\* exec never answers a command with the response to another, for every width
\* of the sequence number and any number of loads, provided no response is a
\* whole cycle late and no unload left the MC with a request.
THEOREM OwnResponseTheorem == Spec => []OwnResponse
<1>1. SeqInv => OwnResponse
  BY DEF SeqInv
<1>2. QED
  BY <1>1, SeqInvariant, PTL

\* Every variable keeps its type; the sequence number stays below SeqMod.
THEOREM McdiTypeTheorem == Spec => []TypeOK
<1>1. SeqInv => TypeOK
  BY DEF SeqInv
<1>2. QED
  BY <1>1, SeqInvariant, PTL

-----------------------------------------------------------------------------
(* What goes wrong without a time-out: nothing.                            *)

\* As long as no command has timed out, the MC has at most the command exec is
\* waiting for: announced, in work, or answered in the mailbox.
PromptInv ==
  timeouts = 0 =>
    /\ ~owed /\ ret.rc # "EPROTO"
    /\ ~polling => work = {}
    /\ rung => polling /\ work = {} /\ mailbox.kind = "req"
    /\ polling => mailbox.seq = mcdi_seq /\ \A m \in work : m = mailbox
    /\ polling /\ mailbox.kind = "resp" => work = {}

\* Every step keeps it: exec returns only with a response or a time-out.
LEMMA PromptStep == SeqInv /\ PromptInv /\ [Next]_vars => PromptInv'
<1> SUFFICES ASSUME SeqInv, PromptInv, [Next]_vars, timeouts' = 0 PROVE PromptInv'
  BY DEF PromptInv
<1> USE DEF PromptInv
<1>1. CASE UNCHANGED vars
  BY <1>1 DEF vars, mc, load
<1>2. CASE send_locked
  BY <1>2 DEF send_locked, load
<1>3. CASE exec_response
  <2>1. ret'.rc # "EPROTO"
    BY <1>3 DEF exec_response, xlate_err
  <2>2. QED
    BY <1>3, <2>1 DEF exec_response, Advance, mc, load
<1>4. CASE exec_timeout
  BY <1>4 DEF exec_timeout, SeqInv, TypeOK
<1>5. CASE mcdi_fini
  BY <1>5 DEF mcdi_fini, mc
<1>6. CASE mcdi_init
  BY <1>6 DEF mcdi_init, mc, SeqInv
<1>7. CASE McFetch
  <2>1. work' \subseteq {mailbox}
    BY <1>7 DEF McFetch
  <2>2. QED
    BY <1>7, <2>1 DEF McFetch, load
<1>8. ASSUME NEW m \in work, NEW status \in Status, McRespond(m, status)
      PROVE  PromptInv'
  <2>1. m = mailbox /\ work' = {} /\ polling /\ ~rung
    BY <1>8 DEF McRespond
  <2>2. mailbox'.seq = m.seq
    <3>1. m \in Message
      BY DEF SeqInv, TypeOK
    <3>2. QED
      BY <1>8, <3>1 DEF McRespond, Message
  <2>3. QED
    BY <1>8, <2>1, <2>2 DEF McRespond, load
<1>9. QED
  BY <1>1, <1>2, <1>3, <1>4, <1>5, <1>6, <1>7, <1>8 DEF Next, exec

\* The invariant holds throughout.
LEMMA PromptInvariant == Spec => []PromptInv
<1>1. Init => PromptInv
  BY DEF Init, PromptInv
<1>2. QED
  BY <1>1, PromptStep, SeqInvariant, PTL DEF Spec

\* A sequence mismatch is the after-effect of a time-out, for every number of
\* commands and loads.
THEOREM MismatchTheorem == Spec => []MismatchNeedsTimeout
<1>1. SeqInv /\ PromptInv => MismatchNeedsTimeout
  BY DEF SeqInv, TypeOK, PromptInv, MismatchNeedsTimeout
<1>2. QED
  BY <1>1, PromptInvariant, SeqInvariant, PTL

\* So is a mailbox freed under a request that the MC still has.
THEOREM FreedTheorem == Spec => []FreedUnderMcNeedsTimeout
<1>1. SeqInv /\ PromptInv => FreedUnderMcNeedsTimeout
  BY DEF SeqInv, TypeOK, PromptInv, FreedUnderMcNeedsTimeout
<1>2. QED
  BY <1>1, PromptInvariant, SeqInvariant, PTL

-----------------------------------------------------------------------------
(* What exec reports is what the MC did.                                   *)

\* Is a request for command k with the MC, or on its way to it?
Open(k) == \/ \E m \in work : m.n = k
           \/ mailbox.kind = "req" /\ mailbox.n = k /\ rung

\* The MC gets a request once: the doorbell that announces it is latched once
\* and the answer overwrites it.  So what it made of an answered command is
\* final, and the mailbox and the return value agree with it.
DoneInv ==
  ~owed =>
    /\ \A m \in work : ~(mailbox.kind = "req" /\ rung /\ mailbox.n = m.n)
    /\ \A m1, m2 \in work : m1.n = m2.n => m1 = m2
    /\ mailbox.kind = "resp" =>
         /\ mailbox.status \in Status /\ done[mailbox.n] = mailbox.status
         /\ ~Open(mailbox.n)
    /\ ret.rc = "0" => ret.n \in 1..n /\ done[ret.n] = "ok" /\ ~Open(ret.n)

\* Every step keeps it, if an error always comes with its code.
LEMMA DoneStep ==
  ASSUME ~ShortErrors, SeqInv, DoneInv, [Next]_vars
  PROVE  DoneInv'
<1> SUFFICES ASSUME ~owed' PROVE DoneInv'
  BY DEF DoneInv
<1> USE McdiAssumption DEF McdiAssumption
<1>0. /\ n \in Nat /\ base \in 0..n /\ done \in [1..MaxCmds -> {"none", "ok", "err", "short"}]
      /\ n \in 0..MaxCmds /\ mailbox \in Message /\ work \subseteq Message
      /\ Status = {"ok", "err"}
  BY DEF SeqInv, TypeOK, Status
<1>1. CASE UNCHANGED vars
  BY <1>1 DEF vars, mc, load, DoneInv, Open
<1>2. CASE send_locked
  <2>1. /\ mailbox'.kind = "req" /\ mailbox'.n = n + 1 /\ work' = work /\ done' = done
        /\ ret' = ret /\ n' = n + 1 /\ ~owed
    BY <1>2 DEF send_locked, load
  <2>2. \A m \in work : m.n # n + 1
    BY <1>0, <2>1 DEF SeqInv, Quits, Genuine
  <2>3. ret.rc = "0" => ret.n \in 1..n
    BY <2>1 DEF DoneInv
  <2>4. QED
    BY <1>0, <2>1, <2>2, <2>3 DEF DoneInv, Open
<1>3. CASE exec_response
  <2>1. /\ mailbox' = mailbox /\ work' = work /\ done' = done /\ rung' = rung /\ n' = n
        /\ ~owed /\ mailbox.kind = "resp" /\ polling
    BY <1>3 DEF exec_response, mc, load
  <2>2. ret'.rc = "0" => mailbox.status = "ok" /\ mailbox.seq = mcdi_seq /\ ret'.n = n
    BY <1>0, <1>3, <2>1 DEF exec_response, xlate_err, mc_err, DoneInv
  <2>3. ret'.rc = "0" => mailbox.n = n
    BY <2>1, <2>2, MatchIsOwn
  <2>4. n \in 1..n
    BY <1>0, <2>1 DEF SeqInv
  <2>5. QED
    BY <2>1, <2>2, <2>3, <2>4 DEF DoneInv, Open
<1>4. CASE exec_timeout
  BY <1>4 DEF exec_timeout, mc, load, DoneInv, Open
<1>5. CASE mcdi_fini
  BY <1>5 DEF mcdi_fini, mc, DoneInv, Open
<1>6. CASE mcdi_init
  <2>1. work = {} /\ ~rung /\ ~owed
    BY <1>6 DEF mcdi_init, SeqInv, Quits
  <2>2. QED
    BY <1>6, <2>1 DEF mcdi_init, mc, Fresh, DoneInv, Open
<1>7. CASE McFetch
  <2>1. /\ mailbox' = mailbox /\ done' = done /\ n' = n /\ ret' = ret /\ rung /\ ~rung' /\ ~owed
        /\ work' = IF mailbox.kind = "req" THEN work \cup {mailbox} ELSE work
    BY <1>7 DEF McFetch, load
  <2>2. QED
    BY <2>1 DEF DoneInv, Open
<1>8. ASSUME NEW m \in work, NEW status \in Status, McRespond(m, status)
      PROVE  DoneInv'
  <2>1. /\ work' = work \ {m} /\ rung' = rung /\ n' = n /\ ret' = ret /\ ~owed
        /\ done' = [done EXCEPT ![m.n] = status]
    BY <1>8 DEF McRespond, load
  <2>2. mailbox'.kind = "resp" /\ mailbox'.n = m.n /\ mailbox'.status = status
    BY <1>0, <1>8 DEF McRespond, Message
  <2>3. m.n \in 1..MaxCmds
    BY <1>0, <2>1 DEF SeqInv, Quits, Genuine
  <2>4. \A k \in work' : k.n # m.n
    BY <2>1 DEF DoneInv
  <2>5. ret.rc = "0" => ret.n # m.n
    BY <2>1 DEF DoneInv, Open
  <2>6. ret.rc = "0" => ret.n \in 1..n /\ done'[ret.n] = "ok" /\ ~Open(ret.n)'
    BY <1>0, <2>1, <2>2, <2>3, <2>5 DEF DoneInv, Open
  <2>7. QED
    BY <1>0, <2>1, <2>2, <2>3, <2>4, <2>6 DEF DoneInv, Open
<1>9. QED
  BY <1>1, <1>2, <1>3, <1>4, <1>5, <1>6, <1>7, <1>8 DEF Next, exec

\* exec reports success only for a command that the MC carried out, for every
\* width of the sequence number and any number of commands and loads, provided
\* an error response has room for its code (without one it reads code 0).
THEOREM SuccessTheorem ==
  ASSUME ~ShortErrors PROVE Spec => []SuccessMeansDone
<1>1. Init => DoneInv
  BY DEF Init, Fresh, DoneInv
<1>2. SeqInv /\ DoneInv /\ [Next]_vars => DoneInv'
  BY DoneStep
<1>3. DoneInv => SuccessMeansDone
  BY DEF DoneInv, SuccessMeansDone
<1>4. QED
  BY <1>1, <1>2, <1>3, SeqInvariant, PTL DEF Spec
=============================================================================
