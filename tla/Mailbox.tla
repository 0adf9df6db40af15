------------------------------- MODULE Mailbox -------------------------------
(***************************************************************************)
(* One inbox of a team mailbox (teams/mailbox.py): a JSON file that         *)
(* several processes read, change and replace under a lock file.  A         *)
(* process that dies with the lock leaves it; ten seconds later a waiter    *)
(* judges it stale and unlinks it, in two steps.  A live holder is taken    *)
(* to need less than ten seconds, so only a dead one's lock grows stale.    *)
(***************************************************************************)
EXTENDS Naturals, Sequences, FiniteSets

CONSTANTS
    Users,         \* the processes that use the inbox
    Reader,        \* the one whose inbox it is: it consumes, the others write
    Letters,       \* the messages that may be sent
    LockAttempts,  \* MAILBOX_LOCK_ATTEMPTS
    NoUser         \* no lock file

ASSUME MailAssumption == /\ Reader \in Users
                         /\ LockAttempts \in Nat \ {0}
                         /\ NoUser \notin Users

VARIABLES
    inbox,   \* the file: a sequence of [id, read]
    lock,    \* whose token is in the lock file, or NoUser
    hand,    \* what each process is doing, and its copy of the inbox
    fate     \* of each letter: what its sender and its reader know

mailVars == <<inbox, lock, hand, fate>>

Resting == [pc |-> "idle", letter |-> {}, copy |-> <<>>, tries |-> 0]

MailInit ==
    /\ inbox = <<>>
    /\ lock = NoUser
    /\ hand = [u \in Users |-> Resting]
    /\ fate = [m \in Letters |-> [sent |-> "no", seen |-> 0]]

Unread(msgs) == {msgs[i].id : i \in {j \in DOMAIN msgs : ~msgs[j].read}}

\* What the function passed to _with_lock makes of the copy: a writer appends
\* its message unread, the reader marks all of them.
Mutated(u) ==
    IF u = Reader
    THEN [i \in DOMAIN hand[u].copy |-> [hand[u].copy[i] EXCEPT !.read = TRUE]]
    ELSE hand[u].copy \o <<[id |-> CHOOSE m \in hand[u].letter : TRUE, read |-> FALSE]>>

MailWrite(u, m) ==
    /\ u # Reader /\ hand[u].pc = "idle" /\ fate[m].sent = "no"
    /\ hand' = [hand EXCEPT ![u].pc = "try", ![u].letter = {m}]
    /\ fate' = [fate EXCEPT ![m].sent = "sending"]
    /\ UNCHANGED <<inbox, lock>>

MailConsume ==
    /\ hand[Reader].pc = "idle"
    /\ hand' = [hand EXCEPT ![Reader].pc = "try"]
    /\ UNCHANGED <<inbox, lock, fate>>

\* os.open with O_CREAT | O_EXCL.
MailAcquire(u) ==
    /\ hand[u].pc = "try" /\ lock = NoUser /\ hand[u].tries < LockAttempts
    /\ lock' = u
    /\ hand' = [hand EXCEPT ![u].pc = "held"]
    /\ UNCHANGED <<inbox, fate>>

\* A bug: any lock found is taken for stale.
MailContendHasty(u) ==
    /\ hand[u].pc = "try" /\ lock # NoUser /\ hand[u].tries < LockAttempts
    /\ hand' = [hand EXCEPT ![u].tries = @ + 1, ![u].pc = "break"]
    /\ UNCHANGED <<inbox, lock, fate>>

\* The lock exists: one attempt is used; a dead process's lock, once it is ten
\* seconds old, is marked for removal.
MailContend(u) ==
    /\ hand[u].pc = "try" /\ lock # NoUser /\ hand[u].tries < LockAttempts
    /\ \E next \in {"try"} \cup (IF hand[lock].pc = "dead" THEN {"break"} ELSE {}) :
         hand' = [hand EXCEPT ![u].tries = @ + 1, ![u].pc = next]
    /\ UNCHANGED <<inbox, lock, fate>>

\* unlink of what was judged stale: it removes whatever lock file is there now.
MailBreak(u) ==
    /\ hand[u].pc = "break"
    /\ lock' = NoUser
    /\ hand' = [hand EXCEPT ![u].pc = "try"]
    /\ UNCHANGED <<inbox, fate>>

\* A bug: it waits on instead of giving up.
MailTimeoutNever(u) == hand[u].pc = "try" /\ hand[u].tries = LockAttempts /\ UNCHANGED mailVars

\* MailboxLockTimeout: nothing is written and the caller is told.
MailTimeout(u) ==
    /\ hand[u].pc = "try" /\ hand[u].tries = LockAttempts
    /\ hand' = [hand EXCEPT ![u] = Resting]
    /\ fate' = [m \in Letters |->
                  IF m \in hand[u].letter THEN [fate[m] EXCEPT !.sent = "refused"] ELSE fate[m]]
    /\ UNCHANGED <<inbox, lock>>

MailRead(u) ==
    /\ hand[u].pc = "held"
    /\ hand' = [hand EXCEPT ![u].pc = "read", ![u].copy = inbox]
    /\ UNCHANGED <<inbox, lock, fate>>

\* os.replace of the inbox by the changed copy.
MailReplace(u) ==
    /\ hand[u].pc = "read"
    /\ inbox' = Mutated(u)
    /\ hand' = [hand EXCEPT ![u].pc = "stored",
                            ![u].letter = IF u = Reader THEN Unread(hand[u].copy) ELSE @,
                            ![u].copy = <<>>]
    /\ UNCHANGED <<lock, fate>>

\* The lock goes only when it still carries the owner's token; the call returns:
\* the sender knows, or every message goes into the agent's conversation.
MailRelease(u) ==
    /\ hand[u].pc = "stored"
    /\ lock' = IF lock = u THEN NoUser ELSE lock
    /\ hand' = [hand EXCEPT ![u] = Resting]
    /\ fate' = [m \in Letters |->
                  IF m \notin hand[u].letter THEN fate[m]
                  ELSE IF u = Reader THEN [fate[m] EXCEPT !.seen = @ + 1]
                  ELSE [fate[m] EXCEPT !.sent = "sent"]]
    /\ UNCHANGED inbox

\* A pane worker is killed: its launch is never repeated, so it does not return.
MailDie(u) ==
    /\ hand[u].pc \notin {"idle", "dead"}
    /\ hand' = [hand EXCEPT ![u] = [Resting EXCEPT !.pc = "dead"]]
    /\ UNCHANGED <<inbox, lock, fate>>

MailAdvance(u) ==
    \/ MailAcquire(u) \/ MailContend(u) \/ MailBreak(u) \/ MailTimeout(u)
    \/ MailRead(u) \/ MailReplace(u) \/ MailRelease(u)

MailNext ==
    \/ MailConsume
    \/ \E u \in Users : MailAdvance(u) \/ MailDie(u) \/ \E m \in Letters : MailWrite(u, m)

MailSpec == MailInit /\ [][MailNext]_mailVars /\ \A u \in Users : WF_mailVars(MailAdvance(u))

-----------------------------------------------------------------------------

MailTypeOK ==
    /\ inbox \in Seq([id : Letters, read : BOOLEAN])
    /\ lock \in Users \cup {NoUser}
    /\ \A u \in Users : /\ hand[u].pc \in {"idle", "try", "break", "held", "read", "stored", "dead"}
                        /\ hand[u].letter \subseteq Letters
                        /\ hand[u].tries \in 0..LockAttempts

Dead == {u \in Users : hand[u].pc = "dead"}
Inside == {u \in Users : hand[u].pc \in {"held", "read", "stored"}}
InInbox(m) == {i \in DOMAIN inbox : inbox[i].id = m}

\* Until a process dies, one process at a time is between its acquisition and
\* its release, so that no append or mark is made on a stale copy: a message the
\* sender was told of is in the file once, was shown to the agent at most once,
\* and is unread exactly until a consumer took it; a refused one is not there.
\* (After a death two waiters may both find the lock stale, and the second may
\* unlink the lock the first has just taken.)
MailExactlyOnce ==
    Dead = {} =>
      /\ Cardinality(Inside) <= 1
      /\ \A u \in Inside : lock = u
      /\ \A m \in Letters :
           /\ fate[m].seen <= 1
           /\ fate[m].sent = "sent" => Cardinality(InInbox(m)) = 1
           /\ fate[m].sent \in {"no", "refused"} => InInbox(m) = {}
           /\ \A i \in InInbox(m) :
                inbox[i].read <=> fate[m].seen = 1 \/ (hand[Reader].pc = "stored" /\ m \in hand[Reader].letter)

\* Nobody waits for ever for an inbox, not even behind a dead holder: every call
\* that asked for the lock returns or raises, unless its process dies.
MailCallsReturn ==
    \A u \in Users : []<>(hand[u].pc \in {"idle", "dead"})
=============================================================================
