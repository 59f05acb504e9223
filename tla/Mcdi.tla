-------------------------------- MODULE Mcdi ---------------------------------
(***************************************************************************)
(* The command transport of sfc7120_mcdi.c: sfc7120_mcdi_exec and the      *)
(* management controller (MC) share one mailbox.  exec writes a request,   *)
(* rings a doorbell and polls until the mailbox holds a response or the    *)
(* time is up; only the sequence number tells a late response from the one *)
(* it waits for.  mcdi_mtx makes the calls of exec one at a time.  An      *)
(* unload frees the mailbox; the next load may well get the same memory.   *)
(***************************************************************************)
EXTENDS Integers

CONSTANTS
  SeqMod,      \* MCDI_HDR_SEQ_MASK + 1
  MaxCmds,     \* bound: commands issued
  MaxLoads,    \* bound: loads of the module
  MaxLate,     \* the MC answers a command within this many later ones, or never
  ShortErrors  \* may an error response come without its code?

ASSUME McdiAssumption ==
  /\ SeqMod \in Nat \ {0} /\ MaxCmds \in Nat /\ MaxLoads \in Nat \ {0}
  /\ MaxLate \in Nat /\ MaxLate < SeqMod
  /\ ShortErrors \in BOOLEAN

VARIABLES
  mailbox,         \* the last thing written to it, by either side
  mcdi_seq, mcdi_new_epoch,
  mcdi_initialized,
  polling,         \* is exec waiting?
  rung, work,      \* MC: doorbell latched; requests it has read
  n,               \* history: commands issued; a command is known by its number
  done, timeouts,  \* history: what the MC made of each; time-outs so far
  ret,             \* history: the last return of exec, and whose response it took
  loads, base,     \* history: loads so far; commands issued before this one
  owed             \* history: an unload has left the MC with a request

mc   == <<rung, work, done>>
load == <<mcdi_initialized, loads, base, owed>>
vars == <<mailbox, mcdi_seq, mcdi_new_epoch, polling, mc, n, timeouts, ret, load>>

Status == {"ok", "err"} \cup (IF ShortErrors THEN {"short"} ELSE {})
Message == [kind : {"none", "req", "resp"}, n : 0..MaxCmds,
            seq : 0..SeqMod-1, status : {"none", "ok", "err", "short"}]

\* A zeroed mailbox, sequence 0, a new epoch.
Fresh == [kind |-> "none", n |-> 0, seq |-> 0, status |-> "none"]

Init ==
  /\ mailbox = Fresh /\ mcdi_seq = 0 /\ mcdi_new_epoch = TRUE
  /\ mcdi_initialized = TRUE /\ polling = FALSE
  /\ rung = FALSE /\ work = {}
  /\ n = 0 /\ done = [i \in 1..MaxCmds |-> "none"] /\ timeouts = 0
  /\ ret = [n |-> 0, rc |-> "none", of |-> 0]
  /\ loads = 1 /\ base = 0 /\ owed = FALSE

\* Mutant: the sequence number is advanced before it is sent.
send_locked_next ==
  /\ mcdi_initialized /\ ~polling /\ n < MaxCmds
  /\ n' = n + 1
  /\ mailbox' = [kind |-> "req", n |-> n + 1, seq |-> (mcdi_seq + 1) % SeqMod,
                 status |-> "none"]
  /\ rung' = TRUE
  /\ polling' = TRUE
  /\ UNCHANGED <<mcdi_seq, mcdi_new_epoch, work, done, timeouts, ret, load>>

\* sfc7120_mcdi_send_locked, called by exec with mcdi_mtx held.
send_locked ==
  /\ mcdi_initialized /\ ~polling /\ n < MaxCmds
  /\ n' = n + 1
  /\ mailbox' = [kind |-> "req", n |-> n + 1, seq |-> mcdi_seq,
                 status |-> "none"]
  /\ rung' = TRUE
  /\ polling' = TRUE
  /\ UNCHANGED <<mcdi_seq, mcdi_new_epoch, work, done, timeouts, ret, load>>

\* Mutant: the error code is not read.
mc_err_unread(status) == 0

\* The error code is the first word of the payload; there may be none.
mc_err(status) == IF status = "err" THEN 1 ELSE 0
xlate_err(code) == IF code = 0 THEN "0" ELSE "E"

\* Mutant: the sequence number is not masked.
Advance_unmasked ==
  /\ mcdi_seq' = mcdi_seq + 1
  /\ mcdi_new_epoch' = FALSE
  /\ polling' = FALSE

\* exec's last lines: the next command has a new sequence number.
Advance ==
  /\ mcdi_seq' = (mcdi_seq + 1) % SeqMod
  /\ mcdi_new_epoch' = FALSE
  /\ polling' = FALSE

\* Mutant: the sequence number is not checked.
exec_response_unchecked ==
  /\ polling /\ mailbox.kind = "resp"
  /\ ret' = [n |-> n, of |-> mailbox.n,
             rc |-> IF mailbox.status = "ok" THEN "0"
                    ELSE xlate_err(mc_err(mailbox.status))]
  /\ Advance
  /\ UNCHANGED <<mailbox, mc, n, timeouts, load>>

\* Mutant: does not wait for the response bit.
exec_response_unwaited ==
  /\ polling
  /\ ret' = [n |-> n, of |-> mailbox.n,
             rc |-> IF mailbox.seq # mcdi_seq THEN "EPROTO" ELSE "0"]
  /\ Advance
  /\ UNCHANGED <<mailbox, mc, n, timeouts, load>>

\* poll_response saw the response bit: check the sequence number, then the
\* error bit.
exec_response ==
  /\ polling /\ mailbox.kind = "resp"
  /\ ret' = [n |-> n, of |-> mailbox.n,
             rc |-> IF mailbox.seq # mcdi_seq THEN "EPROTO"
                    ELSE IF mailbox.status = "ok" THEN "0"
                    ELSE xlate_err(mc_err(mailbox.status))]
  /\ Advance
  /\ UNCHANGED <<mailbox, mc, n, timeouts, load>>

exec_timeout ==
  /\ polling /\ mailbox.kind # "resp"
  /\ ret' = [n |-> n, of |-> 0, rc |-> "ETIMEDOUT"]
  /\ timeouts' = timeouts + 1
  /\ Advance
  /\ UNCHANGED <<mailbox, mc, n, load>>

\* The memory is freed whatever the MC still has to do.
mcdi_fini ==
  /\ mcdi_initialized /\ ~polling
  /\ mcdi_initialized' = FALSE
  /\ owed' = (owed \/ rung \/ work # {})
  /\ UNCHANGED <<mailbox, mcdi_seq, mcdi_new_epoch, polling, mc, n, timeouts,
                 ret, loads, base>>

\* Sequence numbers start again from 0.
mcdi_init ==
  /\ ~mcdi_initialized /\ loads < MaxLoads
  /\ mcdi_initialized' = TRUE
  /\ mailbox' = Fresh /\ mcdi_seq' = 0 /\ mcdi_new_epoch' = TRUE
  /\ loads' = loads + 1 /\ base' = n
  /\ UNCHANGED <<polling, mc, n, timeouts, ret, owed>>

-----------------------------------------------------------------------------
(* The MC (external).                                                      *)

\* It reads the mailbox some time after the doorbell.
McFetch ==
  /\ rung /\ rung' = FALSE
  /\ work' = IF mailbox.kind = "req" THEN work \cup {mailbox} ELSE work
  /\ UNCHANGED <<mailbox, mcdi_seq, mcdi_new_epoch, polling, n, done,
                 timeouts, ret, load>>

\* It answers in any order, perhaps when exec has given up or the mailbox is
\* gone; then into whatever has its memory, at worst the next mailbox.
McRespond(m, status) ==
  /\ n - m.n <= MaxLate
  /\ work' = work \ {m}
  /\ done' = [done EXCEPT ![m.n] = status]
  /\ mailbox' = [m EXCEPT !.kind = "resp", !.status = status]
  /\ UNCHANGED <<mcdi_seq, mcdi_new_epoch, polling, rung, n, timeouts, ret, load>>

-----------------------------------------------------------------------------

exec == send_locked \/ exec_response \/ exec_timeout

Next == \/ exec \/ mcdi_fini \/ mcdi_init
        \/ McFetch
        \/ \E m \in work, status \in Status : McRespond(m, status)

Spec == Init /\ [][Next]_vars

-----------------------------------------------------------------------------
(* Properties.                                                             *)

TypeOK ==
  /\ mailbox \in Message /\ work \subseteq Message
  /\ mcdi_seq \in 0..SeqMod-1
  /\ mcdi_new_epoch \in BOOLEAN /\ polling \in BOOLEAN /\ rung \in BOOLEAN
  /\ mcdi_initialized \in BOOLEAN /\ owed \in BOOLEAN
  /\ n \in 0..MaxCmds /\ timeouts \in Nat /\ loads \in 1..MaxLoads /\ base \in 0..n
  /\ done \in [1..MaxCmds -> {"none", "ok", "err", "short"}]
  /\ ret \in [n : 0..MaxCmds, of : 0..MaxCmds,
              rc : {"none", "0", "E", "EPROTO", "ETIMEDOUT"}]

\* exec never takes the answer to an earlier command that timed out for the
\* answer to this one: the sequence number, although it wraps, tells them
\* apart as long as an answer is less than a whole cycle late; also after a
\* reload, which starts it again from 0, if the MC had answered before it.
OwnResponse == ~owed /\ ret.rc \in {"0", "E"} => ret.of = ret.n

\* exec reports success only for a command that the MC has carried out:
\* "Anything we don't recognize gets EIO".
SuccessMeansDone == ~owed /\ ret.rc = "0" => done[ret.n] = "ok"

\* A sequence mismatch is always the after-effect of a time-out, never of two
\* commands that were both answered in time.
MismatchNeedsTimeout == ret.rc = "EPROTO" => timeouts > 0

\* The mailbox is freed under a request the MC still has, to be read from or
\* answered into freed memory, only if some command timed out: exec itself
\* never returns with its request open, and attach and detach call
\* sfc7120_mcdi_fini between commands.
FreedUnderMcNeedsTimeout == owed => timeouts > 0
=============================================================================
