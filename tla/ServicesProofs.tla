--------------------------- MODULE ServicesProofs ---------------------------
(***************************************************************************)
(* Theorems about the services of a team and of the tools, for any values   *)
(* of their constants: inboxes, the board, members in panes; the registry   *)
(* of tools, permissions, skills, the servers of tools and a connection to  *)
(* one.  Each has its inductive invariant in the form of ComponentProofs.   *)
(***************************************************************************)
EXTENDS Mailbox, TeamBoard, PaneWorkers, ToolRegistry, Permissions, SkillCatalog, McpServers,
        McpConnection, FiniteSetTheorems, SequenceTheorems, WellFoundedInduction, TLAPS

(* A function that was changed at one place. *)
LEMMA Assigned ==
  ASSUME NEW D, NEW S, NEW f \in [D -> S], NEW d \in D, NEW m \in S, NEW g,
         g = [f EXCEPT ![d] = m]
  PROVE  g \in [D -> S] /\ g[d] = m /\ \A e \in D \ {d} : g[e] = f[e]
OBVIOUS

-----------------------------------------------------------------------------
(* The mailbox.  A writer at work carries one letter, which nobody else       *)
(* carries.  While nobody has died, who is inside owns the lock and has read   *)
(* the inbox as it is, and a letter is in it from the moment it was stored.    *)
LetterRow == [id : Letters, read : BOOLEAN]
HandPlace == {"idle", "try", "break", "held", "read", "stored", "dead"}
HandRow == [pc : HandPlace, letter : SUBSET Letters, copy : Seq(LetterRow),
            tries : 0 .. LockAttempts]
FateRow == [sent : {"no", "sending", "sent", "refused"}, seen : Nat]
Calling == {"try", "break", "held", "read", "stored"}
Within == {"held", "read", "stored"}
Writers == Users \ {Reader}

MailTypes ==
  /\ inbox \in Seq(LetterRow) /\ lock \in Users \cup {NoUser}
  /\ hand \in [Users -> HandRow] /\ fate \in [Letters -> FateRow]

Carries(u, m) == u \in Writers /\ hand[u].pc \in Calling /\ hand[u].letter = {m}

CarriedOnce ==
  /\ \A u \in Writers : hand[u].pc \in Calling =>
       \E m \in Letters : hand[u].letter = {m} /\ fate[m].sent = "sending"
  /\ \A u, v \in Writers, m \in Letters : Carries(u, m) /\ Carries(v, m) => u = v
  /\ hand[Reader].pc # "stored" => hand[Reader].letter = {}

AloneInside ==
  \A u \in Users :
    /\ hand[u].pc # "break"
    /\ hand[u].pc \in Within => lock = u
    /\ hand[u].pc = "read" => hand[u].copy = inbox

StoredBy(m) == \E u \in Writers : hand[u].pc = "stored" /\ hand[u].letter = {m}
InHands(m) == hand[Reader].pc = "stored" /\ m \in hand[Reader].letter
InFile(m) == \E i \in DOMAIN inbox : inbox[i].id = m

LettersKept ==
  \A m \in Letters :
    /\ \A i, j \in DOMAIN inbox : inbox[i].id = m /\ inbox[j].id = m => i = j
    /\ InFile(m) <=> fate[m].sent = "sent" \/ StoredBy(m)
    /\ fate[m].seen \in {0, 1} /\ (InHands(m) => fate[m].seen = 0)
    /\ fate[m].seen = 1 \/ InHands(m) => InFile(m)
    /\ \A i \in DOMAIN inbox : inbox[i].id = m =>
         (inbox[i].read <=> fate[m].seen = 1 \/ InHands(m))

NoneDead == \A u \in Users : hand[u].pc # "dead"

MailInv == MailTypes /\ CarriedOnce /\ (NoneDead => AloneInside /\ LettersKept)

LEMMA MailInvInit == MailInit => MailInv
<1> SUFFICES ASSUME MailInit PROVE MailInv
  OBVIOUS
<1>1. Resting \in HandRow /\ Resting.pc = "idle" /\ Resting.letter = {}
  BY MailAssumption DEF Resting, HandRow, HandPlace
<1>2. /\ hand \in [Users -> HandRow]
      /\ \A u \in Users : hand[u].pc = "idle" /\ hand[u].letter = {}
  <2>1. hand = [u \in Users |-> Resting]
    BY DEF MailInit
  <2> QED BY <1>1, <2>1
<1>3. /\ fate \in [Letters -> FateRow]
      /\ \A m \in Letters : fate[m].sent = "no" /\ fate[m].seen = 0
  BY DEF MailInit, FateRow
<1>4. inbox = <<>> /\ lock = NoUser /\ DOMAIN inbox = {} /\ inbox \in Seq(LetterRow)
  BY DEF MailInit
<1>5. MailTypes
  BY <1>2, <1>3, <1>4 DEF MailTypes
<1>6. CarriedOnce
  BY <1>2, MailAssumption DEF CarriedOnce, Writers, Calling, Carries
<1>7. AloneInside
  BY <1>2 DEF AloneInside, Within
<1>8. LettersKept
  BY <1>2, <1>3, <1>4, MailAssumption DEF LettersKept, InFile, StoredBy, InHands, Writers
<1> QED BY <1>5, <1>6, <1>7, <1>8 DEF MailInv

(* The records of a process. *)
LEMMA HandPlaced ==
  ASSUME NEW r \in HandRow, NEW p \in HandPlace
  PROVE  LET q == [r EXCEPT !.pc = p]
         IN  q \in HandRow /\ q.pc = p /\ q.letter = r.letter /\ q.copy = r.copy
BY DEF HandRow

LEMMA HandCarries ==
  ASSUME NEW r \in HandRow, NEW m \in Letters
  PROVE  LET q == [r EXCEPT !.pc = "try", !.letter = {m}]
         IN  q \in HandRow /\ q.pc = "try" /\ q.letter = {m}
BY DEF HandRow, HandPlace

LEMMA HandTries ==
  ASSUME NEW r \in HandRow, NEW p \in HandPlace, NEW n \in 0 .. LockAttempts
  PROVE  LET q == [r EXCEPT !.tries = n, !.pc = p]
         IN  q \in HandRow /\ q.pc = p /\ q.letter = r.letter
BY DEF HandRow

LEMMA HandReads ==
  ASSUME NEW r \in HandRow, NEW c \in Seq(LetterRow)
  PROVE  LET q == [r EXCEPT !.pc = "read", !.copy = c]
         IN  q \in HandRow /\ q.pc = "read" /\ q.letter = r.letter /\ q.copy = c
BY DEF HandRow, HandPlace

LEMMA HandStores ==
  ASSUME NEW r \in HandRow, NEW l \in SUBSET Letters, NEW c \in Seq(LetterRow)
  PROVE  LET q == [r EXCEPT !.pc = "stored", !.letter = l, !.copy = c]
         IN  q \in HandRow /\ q.pc = "stored" /\ q.letter = l
<1>1. [r EXCEPT !.pc = "stored", !.letter = l] \in HandRow
  BY DEF HandRow, HandPlace
<1>2. PICK x \in HandRow : x = [r EXCEPT !.pc = "stored", !.letter = l]
  BY <1>1
<1>3. x.pc = "stored" /\ x.letter = l
  BY <1>2 DEF HandRow
<1>4. [r EXCEPT !.pc = "stored", !.letter = l, !.copy = c] = [x EXCEPT !.copy = c]
  BY <1>2, Zenon
<1>5. LET q == [x EXCEPT !.copy = c]
      IN  q \in HandRow /\ q.pc = "stored" /\ q.letter = l
  BY <1>3 DEF HandRow
<1> QED BY <1>4, <1>5, Zenon

LEMMA HandRests ==
  /\ Resting \in HandRow /\ Resting.pc = "idle" /\ Resting.letter = {}
  /\ LET q == [Resting EXCEPT !.pc = "dead"]
     IN  q \in HandRow /\ q.pc = "dead" /\ q.letter = {}
<1>1. Resting \in HandRow /\ Resting.pc = "idle" /\ Resting.letter = {}
  BY MailAssumption DEF Resting, HandRow, HandPlace
<1>2. "dead" \in HandPlace
  BY DEF HandPlace
<1> QED BY <1>1, <1>2, HandPlaced

(* One process moves and neither the inbox nor the fate of a letter changes. *)
HandMoves(u, q) ==
  /\ q \in HandRow /\ hand' = [hand EXCEPT ![u] = q] /\ UNCHANGED <<inbox, fate>>
  /\ lock' \in Users \cup {NoUser}
  /\ hand[u].pc # "dead" /\ q.pc # "stored"
  /\ IF q.pc = "dead"
     THEN q.letter = {}
     ELSE /\ hand[u].pc # "stored" /\ q.letter = hand[u].letter
          /\ u = Reader \/ (hand[u].pc \in Calling /\ q.pc \in Calling)
  /\ NoneDead /\ q.pc # "dead" =>
       /\ q.pc # "break" /\ (q.pc \in Within => lock' = u)
       /\ q.pc = "read" => q.copy = inbox
       /\ \A v \in Users \ {u} : hand[v].pc \in Within => lock' = v

LEMMA HandMovesKeeps ==
  ASSUME MailInv, NEW u \in Users, NEW q, HandMoves(u, q)
  PROVE  MailInv'
<1>0. /\ MailTypes /\ CarriedOnce /\ Reader \in Users /\ hand \in [Users -> HandRow]
      /\ q \in HandRow /\ hand' = [hand EXCEPT ![u] = q] /\ UNCHANGED <<inbox, fate>>
  BY MailAssumption DEF MailInv, MailTypes, HandMoves
<1>1. hand' \in [Users -> HandRow] /\ hand'[u] = q /\ \A v \in Users \ {u} : hand'[v] = hand[v]
  BY <1>0, Assigned
<1>2. MailTypes'
  BY <1>0, <1>1 DEF MailTypes, HandMoves
<1>3. \A v \in Writers, m \in Letters : Carries(v, m)' => Carries(v, m)
  <2>1. ASSUME NEW v \in Writers, NEW m \in Letters, Carries(v, m)' PROVE Carries(v, m)
    <3>1. CASE v = u
      BY <3>1, <2>1, <1>1 DEF HandMoves, Carries, Calling, Writers
    <3>2. CASE v # u
      BY <3>2, <2>1, <1>1 DEF Carries, Writers
    <3> QED BY <3>1, <3>2
  <2> QED BY <2>1
<1>4. CarriedOnce'
  <2>1. ASSUME NEW v \in Writers, hand'[v].pc \in Calling
        PROVE  \E m \in Letters : hand'[v].letter = {m} /\ fate'[m].sent = "sending"
    <3>1. hand[v].pc \in Calling /\ hand'[v].letter = hand[v].letter
      <4>1. CASE v = u
        BY <4>1, <2>1, <1>1 DEF HandMoves, Calling, Writers
      <4>2. CASE v # u
        BY <4>2, <2>1, <1>1 DEF Writers
      <4> QED BY <4>1, <4>2
    <3> QED BY <3>1, <1>0 DEF CarriedOnce
  <2>2. hand'[Reader].pc # "stored" => hand'[Reader].letter = {}
    BY <1>0, <1>1 DEF HandMoves, CarriedOnce
  <2> QED BY <2>1, <2>2, <1>0, <1>3 DEF CarriedOnce
<1>5. ASSUME NoneDead' PROVE AloneInside' /\ LettersKept'
  <2>1. NoneDead /\ q.pc # "dead"
    BY <1>5, <1>1 DEF NoneDead, HandMoves
  <2>2. AloneInside /\ LettersKept
    BY <2>1 DEF MailInv
  <2>3. AloneInside'
    BY <2>1, <2>2, <1>0, <1>1 DEF HandMoves, AloneInside
  <2>4. hand[u].pc # "stored" /\ hand'[u].pc # "stored"
    BY <2>1, <1>1 DEF HandMoves
  <2>5. \A m : (StoredBy(m)' <=> StoredBy(m)) /\ (InHands(m)' <=> InHands(m)) /\ (InFile(m)' <=> InFile(m))
    BY <2>4, <1>0, <1>1 DEF StoredBy, InHands, InFile, Writers
  <2>6. LettersKept'
    BY <2>2, <2>5, <1>0 DEF LettersKept
  <2> QED BY <2>3, <2>6
<1> QED BY <1>2, <1>4, <1>5 DEF MailInv

(* The call for the lock, the reading, and a death. *)
LEMMA LockSteps ==
  ASSUME MailInv, NEW u \in Users,
         \/ u = Reader /\ MailConsume
         \/ MailAcquire(u) \/ MailContend(u) \/ MailBreak(u) \/ MailRead(u) \/ MailDie(u)
  PROVE  MailInv'
<1>0. /\ MailTypes /\ CarriedOnce /\ Reader \in Users /\ NoUser \notin Users /\ LockAttempts \in Nat \ {0}
      /\ hand \in [Users -> HandRow] /\ hand[u] \in HandRow
      /\ lock \in Users \cup {NoUser} /\ inbox \in Seq(LetterRow)
  BY MailAssumption DEF MailInv, MailTypes
<1>1. /\ NoneDead => AloneInside
      /\ \A v \in Users : hand[v].pc \in HandPlace
  BY <1>0 DEF MailInv, HandRow
<1>2. CASE u = Reader /\ MailConsume
  <2> DEFINE q == [hand[u] EXCEPT !.pc = "try"]
  <2>1. hand[u].pc = "idle" /\ hand' = [hand EXCEPT ![u] = q] /\ UNCHANGED <<inbox, lock, fate>>
    BY <1>2, Zenon DEF MailConsume
  <2>2. "try" \in HandPlace
    BY DEF HandPlace
  <2>3. q \in HandRow /\ q.pc = "try" /\ q.letter = hand[u].letter
    BY <1>0, <2>2, HandPlaced
  <2> HIDE DEF q
  <2>4. HandMoves(u, q)
    BY <1>0, <1>1, <1>2, <2>1, <2>3 DEF HandMoves, AloneInside, Within
  <2> QED BY <2>4, HandMovesKeeps
<1>3. CASE MailAcquire(u)
  <2> DEFINE q == [hand[u] EXCEPT !.pc = "held"]
  <2>1. /\ hand[u].pc = "try" /\ lock = NoUser /\ lock' = u
        /\ hand' = [hand EXCEPT ![u] = q] /\ UNCHANGED <<inbox, fate>>
    BY <1>3, Zenon DEF MailAcquire
  <2>2. "held" \in HandPlace
    BY DEF HandPlace
  <2>3. q \in HandRow /\ q.pc = "held" /\ q.letter = hand[u].letter
    BY <1>0, <2>2, HandPlaced
  <2> HIDE DEF q
  <2>4. HandMoves(u, q)
    BY <1>0, <1>1, <2>1, <2>3 DEF HandMoves, AloneInside, Within, Calling
  <2> QED BY <2>4, HandMovesKeeps
<1>4. CASE MailContend(u)
  <2>1. /\ hand[u].pc = "try" /\ lock # NoUser /\ hand[u].tries < LockAttempts
        /\ UNCHANGED <<inbox, lock, fate>>
    BY <1>4 DEF MailContend
  <2>2. PICK next \in {"try"} \cup (IF hand[lock].pc = "dead" THEN {"break"} ELSE {}) :
          hand' = [hand EXCEPT ![u].tries = @ + 1, ![u].pc = next]
    BY <1>4 DEF MailContend
  <2>3. next \in HandPlace /\ next \in {"try", "break"} /\ (next = "break" => ~NoneDead)
    BY <1>0, <2>1, <2>2 DEF HandPlace, NoneDead
  <2>4. PICK n \in 0 .. LockAttempts : n = hand[u].tries + 1
    BY <1>0, <2>1 DEF HandRow
  <2> DEFINE q == [hand[u] EXCEPT !.tries = n, !.pc = next]
  <2>5. hand' = [hand EXCEPT ![u] = q]
    BY <2>2, <2>4, Zenon
  <2>6. q \in HandRow /\ q.pc = next /\ q.letter = hand[u].letter
    BY <1>0, <2>3, HandTries
  <2> HIDE DEF q
  <2>7. HandMoves(u, q)
    BY <1>0, <1>1, <2>1, <2>3, <2>5, <2>6 DEF HandMoves, AloneInside, Within, Calling
  <2> QED BY <2>7, HandMovesKeeps
<1>5. CASE MailBreak(u)
  <2> DEFINE q == [hand[u] EXCEPT !.pc = "try"]
  <2>1. hand[u].pc = "break" /\ lock' = NoUser /\ hand' = [hand EXCEPT ![u] = q] /\ UNCHANGED <<inbox, fate>>
    BY <1>5, Zenon DEF MailBreak
  <2>2. "try" \in HandPlace
    BY DEF HandPlace
  <2>3. q \in HandRow /\ q.pc = "try" /\ q.letter = hand[u].letter
    BY <1>0, <2>2, HandPlaced
  <2> HIDE DEF q
  <2>4. ~NoneDead
    BY <1>1, <2>1 DEF AloneInside
  <2>5. HandMoves(u, q)
    BY <1>0, <2>1, <2>3, <2>4 DEF HandMoves, Calling
  <2> QED BY <2>5, HandMovesKeeps
<1>6. CASE MailRead(u)
  <2> DEFINE q == [hand[u] EXCEPT !.pc = "read", !.copy = inbox]
  <2>1. hand[u].pc = "held" /\ hand' = [hand EXCEPT ![u] = q] /\ UNCHANGED <<inbox, lock, fate>>
    BY <1>6, Zenon DEF MailRead
  <2>2. q \in HandRow /\ q.pc = "read" /\ q.letter = hand[u].letter /\ q.copy = inbox
    BY <1>0, HandReads
  <2> HIDE DEF q
  <2>3. HandMoves(u, q)
    BY <1>0, <1>1, <2>1, <2>2 DEF HandMoves, AloneInside, Within, Calling
  <2> QED BY <2>3, HandMovesKeeps
<1>7. CASE MailDie(u)
  <2> DEFINE q == [Resting EXCEPT !.pc = "dead"]
  <2>1. hand[u].pc # "dead" /\ hand' = [hand EXCEPT ![u] = q] /\ UNCHANGED <<inbox, lock, fate>>
    BY <1>7, Zenon DEF MailDie
  <2>2. q \in HandRow /\ q.pc = "dead" /\ q.letter = {}
    BY HandRests
  <2> HIDE DEF q
  <2>3. HandMoves(u, q)
    BY <1>0, <2>1, <2>2 DEF HandMoves
  <2> QED BY <2>3, HandMovesKeeps
<1> QED BY <1>2, <1>3, <1>4, <1>5, <1>6, <1>7

(* A letter is given out. *)
LEMMA WriteStep ==
  ASSUME MailInv, NEW u \in Users, NEW m \in Letters, MailWrite(u, m)
  PROVE  MailInv'
<1>0. /\ MailTypes /\ CarriedOnce /\ Reader \in Users
      /\ hand \in [Users -> HandRow] /\ hand[u] \in HandRow
      /\ fate \in [Letters -> FateRow] /\ fate[m] \in FateRow
  BY MailAssumption DEF MailInv, MailTypes
<1> DEFINE q == [hand[u] EXCEPT !.pc = "try", !.letter = {m}]
           f == [fate[m] EXCEPT !.sent = "sending"]
<1>1. /\ u # Reader /\ hand[u].pc = "idle" /\ fate[m].sent = "no"
      /\ hand' = [hand EXCEPT ![u] = q] /\ fate' = [fate EXCEPT ![m] = f]
      /\ UNCHANGED <<inbox, lock>>
  BY Zenon DEF MailWrite
<1>2. q \in HandRow /\ q.pc = "try" /\ q.letter = {m}
  BY <1>0, HandCarries
<1>3. f \in FateRow /\ f.sent = "sending" /\ f.seen = fate[m].seen
  BY <1>0 DEF FateRow
<1> HIDE DEF q, f
<1>4. hand' \in [Users -> HandRow] /\ hand'[u] = q /\ \A v \in Users \ {u} : hand'[v] = hand[v]
  BY <1>0, <1>1, <1>2, Assigned
<1>5. /\ fate' \in [Letters -> FateRow] /\ fate'[m] = f
      /\ \A l \in Letters \ {m} : fate'[l] = fate[l]
  BY <1>0, <1>1, <1>3, Assigned
<1>6. MailTypes'
  BY <1>0, <1>1, <1>4, <1>5 DEF MailTypes
<1>7. \A v \in Writers : ~Carries(v, m)
  <2>1. ASSUME NEW v \in Writers, Carries(v, m) PROVE FALSE
    <3>1. PICK l \in Letters : hand[v].letter = {l} /\ fate[l].sent = "sending"
      BY <1>0, <2>1 DEF CarriedOnce, Carries
    <3>2. l = m
      BY <3>1, <2>1 DEF Carries
    <3> QED BY <3>1, <3>2, <1>1
  <2> QED BY <2>1
<1>8. CarriedOnce'
  <2>1. ASSUME NEW v \in Writers, hand'[v].pc \in Calling
        PROVE  \E l \in Letters : hand'[v].letter = {l} /\ fate'[l].sent = "sending"
    <3>1. CASE v = u
      BY <3>1, <1>2, <1>3, <1>4, <1>5
    <3>2. CASE v # u
      <4>1. hand'[v] = hand[v]
        BY <3>2, <1>4 DEF Writers
      <4>2. PICK l \in Letters : hand[v].letter = {l} /\ fate[l].sent = "sending"
        BY <4>1, <2>1, <1>0 DEF CarriedOnce
      <4>3. fate'[l].sent = "sending"
        BY <4>2, <1>3, <1>5
      <4> QED BY <4>1, <4>2, <4>3
    <3> QED BY <3>1, <3>2
  <2>2. \A v \in Writers, l \in Letters : Carries(v, l)' => (v = u /\ l = m) \/ (v # u /\ Carries(v, l))
    <3>1. ASSUME NEW v \in Writers, NEW l \in Letters, Carries(v, l)'
          PROVE  (v = u /\ l = m) \/ (v # u /\ Carries(v, l))
      BY <3>1, <1>2, <1>4 DEF Carries, Writers
    <3> QED BY <3>1
  <2>3. hand'[Reader] = hand[Reader]
    BY <1>0, <1>1, <1>4
  <2> QED BY <2>1, <2>2, <2>3, <1>0, <1>7 DEF CarriedOnce
<1>9. ASSUME NoneDead' PROVE AloneInside' /\ LettersKept'
  <2>1. NoneDead
    BY <1>9, <1>1, <1>4 DEF NoneDead
  <2>2. AloneInside /\ LettersKept
    BY <2>1 DEF MailInv
  <2>3. AloneInside'
    BY <2>2, <1>1, <1>2, <1>4 DEF AloneInside, Within
  <2>4. \A l : (StoredBy(l)' <=> StoredBy(l)) /\ (InHands(l)' <=> InHands(l)) /\ (InFile(l)' <=> InFile(l))
    BY <1>0, <1>1, <1>2, <1>4 DEF StoredBy, InHands, InFile, Writers
  <2>5. \A l \in Letters : fate'[l].seen = fate[l].seen /\ (fate'[l].sent = "sent" <=> fate[l].sent = "sent")
    BY <1>1, <1>3, <1>5
  <2>6. LettersKept'
    BY <2>2, <2>4, <2>5, <1>1 DEF LettersKept
  <2> QED BY <2>3, <2>6
<1> QED BY <1>6, <1>8, <1>9 DEF MailInv

(* A process goes back to rest. *)
LEMMA Rests ==
  ASSUME MailInv, NEW u \in Users, hand[u].pc \in Calling, hand' = [hand EXCEPT ![u] = Resting],
         fate' \in [Letters -> FateRow], UNCHANGED inbox, lock' \in Users \cup {NoUser},
         \A l \in Letters : (u = Reader \/ hand[u].letter # {l}) => fate'[l].sent = fate[l].sent
  PROVE  /\ MailTypes' /\ CarriedOnce'
         /\ hand'[u].pc = "idle" /\ hand'[u].letter = {}
         /\ \A v \in Users \ {u} : hand'[v] = hand[v]
         /\ NoneDead' => NoneDead
<1>0. /\ MailTypes /\ CarriedOnce /\ Reader \in Users /\ hand \in [Users -> HandRow]
  BY MailAssumption DEF MailInv, MailTypes
<1>1. /\ hand' \in [Users -> HandRow] /\ hand'[u] = Resting
      /\ \A v \in Users \ {u} : hand'[v] = hand[v]
  BY <1>0, HandRests, Assigned
<1>2. MailTypes'
  BY <1>0, <1>1 DEF MailTypes
<1>3. \A v \in Writers : hand'[v].pc \in Calling => v # u /\ hand'[v] = hand[v]
  BY <1>1, HandRests DEF Calling, Writers
<1>4. \A v \in Writers, l \in Letters : Carries(v, l)' => Carries(v, l)
  BY <1>3 DEF Carries
<1>5. ASSUME NEW v \in Writers, hand'[v].pc \in Calling
      PROVE  \E l \in Letters : hand'[v].letter = {l} /\ fate'[l].sent = "sending"
  <2>1. v # u /\ hand'[v] = hand[v]
    BY <1>3, <1>5
  <2>2. PICK l \in Letters : hand[v].letter = {l} /\ fate[l].sent = "sending"
    BY <2>1, <1>5, <1>0 DEF CarriedOnce
  <2>3. u = Reader \/ hand[u].letter # {l}
    <3> SUFFICES ASSUME u # Reader, hand[u].letter = {l} PROVE FALSE
      OBVIOUS
    <3>1. Carries(u, l) /\ Carries(v, l) /\ u \in Writers
      BY <2>1, <2>2, <1>5 DEF Carries, Writers
    <3> QED BY <3>1, <2>1, <1>0 DEF CarriedOnce
  <2> QED BY <2>1, <2>2, <2>3
<1>6. hand'[Reader].pc # "stored" => hand'[Reader].letter = {}
  BY <1>0, <1>1, HandRests DEF CarriedOnce
<1>7. CarriedOnce'
  BY <1>0, <1>4, <1>5, <1>6 DEF CarriedOnce
<1>8. NoneDead' => NoneDead
  BY <1>1 DEF NoneDead, Calling
<1> QED BY <1>1, <1>2, <1>7, <1>8, HandRests

LEMMA TimeoutStep ==
  ASSUME MailInv, NEW u \in Users, MailTimeout(u)
  PROVE  MailInv'
<1>0. /\ MailTypes /\ CarriedOnce /\ Reader \in Users
      /\ hand \in [Users -> HandRow] /\ fate \in [Letters -> FateRow]
      /\ lock \in Users \cup {NoUser}
  BY MailAssumption DEF MailInv, MailTypes
<1>1. /\ hand[u].pc = "try" /\ hand' = [hand EXCEPT ![u] = Resting] /\ UNCHANGED <<inbox, lock>>
      /\ fate' = [l \in Letters |->
                    IF l \in hand[u].letter THEN [fate[l] EXCEPT !.sent = "refused"] ELSE fate[l]]
  BY DEF MailTimeout
<1>2. \A l \in Letters : [fate[l] EXCEPT !.sent = "refused"] \in FateRow
  BY <1>0 DEF FateRow
<1>3. \A l \in Letters : /\ [fate[l] EXCEPT !.sent = "refused"].sent = "refused"
                         /\ [fate[l] EXCEPT !.sent = "refused"].seen = fate[l].seen
  BY <1>0 DEF FateRow
<1>4. /\ fate' \in [Letters -> FateRow]
      /\ \A l \in Letters : /\ fate'[l].seen = fate[l].seen
                            /\ l \in hand[u].letter => fate'[l].sent = "refused"
                            /\ l \notin hand[u].letter => fate'[l] = fate[l]
  BY <1>0, <1>1, <1>2, <1>3
<1>5. u = Reader => hand[u].letter = {}
  BY <1>0, <1>1 DEF CarriedOnce
<1>6. u # Reader => \E l \in Letters : hand[u].letter = {l} /\ fate[l].sent = "sending"
  BY <1>0, <1>1 DEF CarriedOnce, Writers, Calling
<1>7. /\ MailTypes' /\ CarriedOnce'
      /\ hand'[u].pc = "idle" /\ hand'[u].letter = {}
      /\ \A v \in Users \ {u} : hand'[v] = hand[v]
      /\ NoneDead' => NoneDead
  <2>1. \A l \in Letters : (u = Reader \/ hand[u].letter # {l}) => fate'[l].sent = fate[l].sent
    BY <1>4, <1>5, <1>6
  <2>2. hand[u].pc \in Calling
    BY <1>1 DEF Calling
  <2> QED BY <2>1, <2>2, <1>0, <1>1, <1>4, Rests
<1>8. ASSUME NoneDead' PROVE AloneInside' /\ LettersKept'
  <2>1. AloneInside /\ LettersKept
    BY <1>7, <1>8 DEF MailInv
  <2>2. AloneInside'
    BY <2>1, <1>1, <1>7 DEF AloneInside, Within
  <2>3. \A l : (StoredBy(l)' <=> StoredBy(l)) /\ (InHands(l)' <=> InHands(l)) /\ (InFile(l)' <=> InFile(l))
    BY <1>0, <1>1, <1>7 DEF StoredBy, InHands, InFile, Writers
  <2>4. \A l \in Letters : fate'[l].sent = "sent" <=> fate[l].sent = "sent"
    BY <1>4, <1>5, <1>6
  <2>5. LettersKept'
    BY <2>1, <2>3, <2>4, <1>1, <1>4 DEF LettersKept
  <2> QED BY <2>2, <2>5
<1> QED BY <1>7, <1>8 DEF MailInv

(* What the inbox becomes. *)
LEMMA LetterAdded ==
  ASSUME NEW s \in Seq(LetterRow), NEW m \in Letters, NEW x, x = [id |-> m, read |-> FALSE]
  PROVE  LET t == s \o <<x>>
         IN  /\ t \in Seq(LetterRow)
             /\ DOMAIN t = 1 .. Len(s) + 1 /\ DOMAIN s = 1 .. Len(s) /\ Len(s) \in Nat
             /\ t[Len(s) + 1] = x /\ \A i \in 1 .. Len(s) : t[i] = s[i]
<1>1. x \in LetterRow
  BY DEF LetterRow
<1> QED BY <1>1

LEMMA AllRead ==
  ASSUME NEW s \in Seq(LetterRow)
  PROVE  LET t == [i \in DOMAIN s |-> [s[i] EXCEPT !.read = TRUE]]
         IN  /\ t \in Seq(LetterRow) /\ DOMAIN t = DOMAIN s
             /\ \A i \in DOMAIN s : t[i].id = s[i].id /\ t[i].read
<1> DEFINE asRead(r) == [r EXCEPT !.read = TRUE]
           t == [i \in DOMAIN s |-> asRead(s[i])]
<1>1. \A i \in DOMAIN s : s[i] \in LetterRow
  OBVIOUS
<1>2. \A r \in LetterRow : asRead(r) \in LetterRow /\ asRead(r).id = r.id /\ asRead(r).read
  BY DEF LetterRow
<1> HIDE DEF asRead
<1>3. DOMAIN s = 1 .. Len(s) /\ Len(s) \in Nat
  OBVIOUS
<1>4. DOMAIN t = DOMAIN s /\ \A i \in DOMAIN s : t[i] = asRead(s[i])
  BY Zenon
<1>5. t \in Seq(LetterRow)
  BY <1>1, <1>2, <1>3
<1>6. \A i \in DOMAIN s : t[i].id = s[i].id /\ t[i].read
  BY <1>1, <1>2, <1>4
<1> QED BY <1>4, <1>5, <1>6, Zenon DEF asRead

LEMMA UnreadOf ==
  ASSUME NEW s \in Seq(LetterRow)
  PROVE  /\ Unread(s) \subseteq Letters
         /\ \A m \in Letters : m \in Unread(s) <=> \E i \in DOMAIN s : s[i].id = m /\ ~s[i].read
<1>1. \A i \in DOMAIN s : s[i] \in LetterRow
  OBVIOUS
<1>2. \A i \in DOMAIN s : s[i].id \in Letters
  BY <1>1 DEF LetterRow
<1> QED BY <1>2 DEF Unread

(* The process u has stored what it made of the inbox. *)
LEMMA Stores ==
  ASSUME MailInv, NEW u \in Users, hand[u].pc = "read", NEW q \in HandRow, q.pc = "stored",
         hand' = [hand EXCEPT ![u] = q], u # Reader => q.letter = hand[u].letter,
         inbox' \in Seq(LetterRow), UNCHANGED <<lock, fate>>
  PROVE  /\ MailTypes' /\ CarriedOnce' /\ (NoneDead' => NoneDead /\ AloneInside')
         /\ hand'[u] = q /\ \A v \in Users \ {u} : hand'[v] = hand[v]
         /\ NoneDead => hand[u].copy = inbox /\ \A v \in Users \ {u} : hand[v].pc # "stored"
<1>0. /\ MailTypes /\ CarriedOnce /\ Reader \in Users /\ hand \in [Users -> HandRow]
  BY MailAssumption DEF MailInv, MailTypes
<1>1. /\ hand' \in [Users -> HandRow] /\ hand'[u] = q
      /\ \A v \in Users \ {u} : hand'[v] = hand[v]
  BY <1>0, Assigned
<1>2. MailTypes'
  BY <1>0, <1>1 DEF MailTypes
<1>3. \A v \in Writers : hand'[v].pc \in Calling => hand[v].pc \in Calling /\ hand'[v].letter = hand[v].letter
  BY <1>1 DEF Calling, Writers
<1>4. \A v \in Writers, l \in Letters : Carries(v, l)' => Carries(v, l)
  BY <1>3 DEF Carries
<1>5. ASSUME NEW v \in Writers, hand'[v].pc \in Calling
      PROVE  \E l \in Letters : hand'[v].letter = {l} /\ fate'[l].sent = "sending"
  BY <1>3, <1>5, <1>0 DEF CarriedOnce
<1>6. hand'[Reader].pc # "stored" => hand'[Reader].letter = {}
  BY <1>0, <1>1 DEF CarriedOnce
<1>7. CarriedOnce'
  BY <1>0, <1>4, <1>5, <1>6 DEF CarriedOnce
<1>8. NoneDead' => NoneDead
  BY <1>1 DEF NoneDead
<1>9. ASSUME NoneDead PROVE /\ AloneInside' /\ hand[u].copy = inbox
                            /\ \A v \in Users \ {u} : hand[v].pc # "stored"
  <2>1. AloneInside /\ lock = u
    BY <1>9 DEF MailInv, AloneInside, Within
  <2>2. \A v \in Users \ {u} : hand[v].pc \notin Within
    BY <2>1 DEF AloneInside
  <2>3. AloneInside'
    BY <2>1, <2>2, <1>1 DEF AloneInside, Within
  <2> QED BY <2>1, <2>2, <2>3 DEF AloneInside, Within
<1> QED BY <1>1, <1>2, <1>7, <1>8, <1>9

LEMMA WriterStores ==
  ASSUME MailInv, NEW u \in Users, u # Reader, MailReplace(u)
  PROVE  MailInv'
<1>0. /\ MailTypes /\ CarriedOnce /\ Reader \in Users
      /\ hand \in [Users -> HandRow] /\ hand[u] \in HandRow /\ hand[u].copy \in Seq(LetterRow)
      /\ inbox \in Seq(LetterRow) /\ hand[u].letter \in SUBSET Letters
  BY MailAssumption DEF MailInv, MailTypes, HandRow
<1> DEFINE q == [hand[u] EXCEPT !.pc = "stored", !.letter = hand[u].letter, !.copy = <<>>]
<1>1. /\ hand[u].pc = "read" /\ hand' = [hand EXCEPT ![u] = q] /\ UNCHANGED <<lock, fate>>
      /\ inbox' = Mutated(u)
  BY Zenon DEF MailReplace
<1>2. q \in HandRow /\ q.pc = "stored" /\ q.letter = hand[u].letter
  <2>1. <<>> \in Seq(LetterRow)
    OBVIOUS
  <2>2. PICK l \in SUBSET Letters : l = hand[u].letter
    BY <1>0
  <2>3. q = [hand[u] EXCEPT !.pc = "stored", !.letter = l, !.copy = <<>>]
    BY <2>2, Zenon
  <2>4. LET z == [hand[u] EXCEPT !.pc = "stored", !.letter = l, !.copy = <<>>]
        IN  z \in HandRow /\ z.pc = "stored" /\ z.letter = l
    BY <1>0, <2>1, HandStores
  <2> HIDE DEF q
  <2> QED BY <2>2, <2>3, <2>4, Zenon
<1> HIDE DEF q
<1>3. PICK m \in Letters : hand[u].letter = {m} /\ fate[m].sent = "sending"
  BY <1>0, <1>1 DEF CarriedOnce, Writers, Calling
<1>4. PICK x : x = [id |-> m, read |-> FALSE]
  OBVIOUS
<1>5. inbox' = hand[u].copy \o <<x>>
  <2>1. (CHOOSE l \in hand[u].letter : TRUE) = m
    BY <1>3
  <2> QED BY <1>1, <1>4, <2>1 DEF Mutated
<1>6. inbox' \in Seq(LetterRow)
  BY <1>0, <1>4, <1>5, LetterAdded
<1>7. /\ MailTypes' /\ CarriedOnce' /\ (NoneDead' => NoneDead /\ AloneInside')
      /\ hand'[u] = q /\ \A v \in Users \ {u} : hand'[v] = hand[v]
      /\ NoneDead => hand[u].copy = inbox /\ \A v \in Users \ {u} : hand[v].pc # "stored"
  BY <1>1, <1>2, <1>6, Stores
<1>8. ASSUME NoneDead' PROVE LettersKept'
  <2> DEFINE n == Len(inbox)
  <2>1. /\ LettersKept /\ hand[u].copy = inbox
        /\ \A v \in Users : hand[v].pc # "stored"
    BY <1>1, <1>7, <1>8 DEF MailInv
  <2>2. /\ DOMAIN inbox' = 1 .. n + 1 /\ DOMAIN inbox = 1 .. n /\ n \in Nat
        /\ inbox'[n + 1] = x /\ \A i \in 1 .. n : inbox'[i] = inbox[i]
    BY <1>0, <1>4, <1>5, <2>1, LetterAdded
  <2> HIDE DEF n
  <2>3. x.id = m /\ x.read = FALSE
    BY <1>4
  <2>4. \A l \in Letters : ~StoredBy(l) /\ ~InHands(l) /\ ~InHands(l)'
    BY <2>1, <1>0, <1>7 DEF StoredBy, InHands, Writers
  <2>5. ~InFile(m) /\ fate[m].seen = 0
    BY <2>1, <2>4, <1>3 DEF LettersKept
  <2>6. \A l \in Letters : StoredBy(l)' <=> l = m
    <3>1. ASSUME NEW l \in Letters PROVE StoredBy(l)' <=> l = m
      <4>1. u \in Writers /\ hand'[u].pc = "stored" /\ hand'[u].letter = {m}
        BY <1>2, <1>3, <1>7 DEF Writers
      <4>2. \A v \in Writers : hand'[v].pc = "stored" => v = u
        BY <1>7, <2>1 DEF Writers
      <4> QED BY <4>1, <4>2 DEF StoredBy
    <3> QED BY <3>1
  <2>7. \A i \in DOMAIN inbox' : (i = n + 1 /\ inbox'[i] = x) \/ (i \in DOMAIN inbox /\ inbox'[i] = inbox[i])
    BY <2>2
  <2>8. \A i \in DOMAIN inbox : i \in DOMAIN inbox' /\ inbox'[i] = inbox[i]
    BY <2>2
  <2>9. \A i \in DOMAIN inbox : inbox[i].id # m
    BY <2>5 DEF InFile
  <2> SUFFICES ASSUME NEW l \in Letters
               PROVE  /\ \A i, j \in DOMAIN inbox' : inbox'[i].id = l /\ inbox'[j].id = l => i = j
                      /\ InFile(l)' <=> fate'[l].sent = "sent" \/ StoredBy(l)'
                      /\ fate'[l].seen \in {0, 1} /\ (InHands(l)' => fate'[l].seen = 0)
                      /\ fate'[l].seen = 1 \/ InHands(l)' => InFile(l)'
                      /\ \A i \in DOMAIN inbox' : inbox'[i].id = l =>
                           (inbox'[i].read <=> fate'[l].seen = 1 \/ InHands(l)')
    BY DEF LettersKept
  <2>10. /\ \A i, j \in DOMAIN inbox : inbox[i].id = l /\ inbox[j].id = l => i = j
         /\ InFile(l) <=> fate[l].sent = "sent"
         /\ fate[l].seen \in {0, 1}
         /\ fate[l].seen = 1 => InFile(l)
         /\ \A i \in DOMAIN inbox : inbox[i].id = l => (inbox[i].read <=> fate[l].seen = 1)
    BY <2>1, <2>4 DEF LettersKept
  <2>11. InFile(l)' <=> InFile(l) \/ l = m
    <3>1. n + 1 \in DOMAIN inbox'
      BY <2>2
    <3> QED BY <3>1, <2>2, <2>3, <2>7, <2>8 DEF InFile
  <2>12. \A i, j \in DOMAIN inbox' : inbox'[i].id = l /\ inbox'[j].id = l => i = j
    BY <2>3, <2>7, <2>9, <2>10
  <2>13. \A i \in DOMAIN inbox' : inbox'[i].id = l => (inbox'[i].read <=> fate'[l].seen = 1)
    <3>1. ASSUME NEW i \in DOMAIN inbox', inbox'[i].id = l PROVE inbox'[i].read <=> fate'[l].seen = 1
      <4>1. CASE inbox'[i] = x
        BY <4>1, <3>1, <2>3, <2>5, <1>1
      <4>2. CASE i \in DOMAIN inbox /\ inbox'[i] = inbox[i]
        BY <4>2, <3>1, <2>10, <1>1
      <4> QED BY <4>1, <4>2, <2>7
    <3> QED BY <3>1
  <2> QED BY <2>4, <2>6, <2>10, <2>11, <2>12, <2>13, <1>1
<1> QED BY <1>7, <1>8 DEF MailInv

LEMMA ReaderStores ==
  ASSUME MailInv, MailReplace(Reader)
  PROVE  MailInv'
<1>0. /\ MailTypes /\ Reader \in Users
      /\ hand \in [Users -> HandRow] /\ hand[Reader] \in HandRow /\ hand[Reader].copy \in Seq(LetterRow)
      /\ inbox \in Seq(LetterRow)
  BY MailAssumption DEF MailInv, MailTypes, HandRow
<1> DEFINE unread == Unread(hand[Reader].copy)
           q == [hand[Reader] EXCEPT !.pc = "stored", !.letter = unread, !.copy = <<>>]
<1>1. /\ hand[Reader].pc = "read" /\ hand' = [hand EXCEPT ![Reader] = q] /\ UNCHANGED <<lock, fate>>
      /\ inbox' = [i \in DOMAIN hand[Reader].copy |-> [hand[Reader].copy[i] EXCEPT !.read = TRUE]]
  BY Zenon DEF MailReplace, Mutated
<1>2. unread \in SUBSET Letters
  BY <1>0, UnreadOf
<1>3. q \in HandRow /\ q.pc = "stored" /\ q.letter = unread
  <2>1. <<>> \in Seq(LetterRow)
    OBVIOUS
  <2> HIDE DEF unread
  <2> QED BY <1>0, <1>2, <2>1, HandStores
<1> HIDE DEF q
<1>4. /\ inbox' \in Seq(LetterRow) /\ DOMAIN inbox' = DOMAIN hand[Reader].copy
      /\ \A i \in DOMAIN hand[Reader].copy : inbox'[i].id = hand[Reader].copy[i].id /\ inbox'[i].read
  BY <1>0, <1>1, AllRead
<1>5. /\ MailTypes' /\ CarriedOnce' /\ (NoneDead' => NoneDead /\ AloneInside')
      /\ hand'[Reader] = q /\ \A v \in Users \ {Reader} : hand'[v] = hand[v]
      /\ NoneDead => hand[Reader].copy = inbox /\ \A v \in Users \ {Reader} : hand[v].pc # "stored"
  BY <1>0, <1>1, <1>3, <1>4, Stores
<1>6. ASSUME NoneDead' PROVE LettersKept'
  <2>1. /\ LettersKept /\ hand[Reader].copy = inbox
        /\ \A v \in Users : hand[v].pc # "stored"
    BY <1>1, <1>5, <1>6 DEF MailInv
  <2>2. DOMAIN inbox' = DOMAIN inbox /\ \A i \in DOMAIN inbox : inbox'[i].id = inbox[i].id /\ inbox'[i].read
    BY <1>4, <2>1
  <2>3. \A l \in Letters : InHands(l)' <=> \E i \in DOMAIN inbox : inbox[i].id = l /\ ~inbox[i].read
    BY <1>0, <1>3, <1>5, <2>1, UnreadOf DEF InHands
  <2>4. \A l \in Letters : ~InHands(l) /\ ~StoredBy(l) /\ ~StoredBy(l)' /\ (InFile(l)' <=> InFile(l))
    <3>1. \A v \in Writers : hand'[v].pc # "stored"
      BY <1>5, <2>1 DEF Writers
    <3>2. \A l \in Letters : ~InHands(l) /\ ~StoredBy(l) /\ ~StoredBy(l)'
      BY <3>1, <1>0, <2>1 DEF InHands, StoredBy, Writers
    <3>3. \A l \in Letters : InFile(l)' <=> InFile(l)
      BY <2>2 DEF InFile
    <3> QED BY <3>2, <3>3
  <2> SUFFICES ASSUME NEW l \in Letters
               PROVE  /\ \A i, j \in DOMAIN inbox' : inbox'[i].id = l /\ inbox'[j].id = l => i = j
                      /\ InFile(l)' <=> fate'[l].sent = "sent" \/ StoredBy(l)'
                      /\ fate'[l].seen \in {0, 1} /\ (InHands(l)' => fate'[l].seen = 0)
                      /\ fate'[l].seen = 1 \/ InHands(l)' => InFile(l)'
                      /\ \A i \in DOMAIN inbox' : inbox'[i].id = l =>
                           (inbox'[i].read <=> fate'[l].seen = 1 \/ InHands(l)')
    BY DEF LettersKept
  <2>5. /\ \A i, j \in DOMAIN inbox : inbox[i].id = l /\ inbox[j].id = l => i = j
        /\ InFile(l) <=> fate[l].sent = "sent"
        /\ fate[l].seen \in {0, 1}
        /\ fate[l].seen = 1 => InFile(l)
        /\ \A i \in DOMAIN inbox : inbox[i].id = l => (inbox[i].read <=> fate[l].seen = 1)
    BY <2>1, <2>4 DEF LettersKept
  <2>6. InHands(l)' => InFile(l) /\ fate[l].seen = 0
    BY <2>3, <2>5 DEF InFile
  <2>7. \A i \in DOMAIN inbox : inbox[i].id = l => fate[l].seen = 1 \/ InHands(l)'
    BY <2>3, <2>5
  <2>8. \A i, j \in DOMAIN inbox' : inbox'[i].id = l /\ inbox'[j].id = l => i = j
    BY <2>2, <2>5
  <2>9. InFile(l)' <=> fate'[l].sent = "sent" \/ StoredBy(l)'
    BY <2>4, <2>5, <1>1
  <2>10. fate'[l].seen = 1 \/ InHands(l)' => InFile(l)'
    BY <2>4, <2>5, <2>6, <1>1
  <2>11. \A i \in DOMAIN inbox' : inbox'[i].id = l => (inbox'[i].read <=> fate'[l].seen = 1 \/ InHands(l)')
    BY <2>2, <2>7, <1>1
  <2> QED BY <2>5, <2>6, <2>8, <2>9, <2>10, <2>11, <1>1
<1> QED BY <1>5, <1>6 DEF MailInv

LEMMA ReleaseStep ==
  ASSUME MailInv, NEW u \in Users, MailRelease(u)
  PROVE  MailInv'
<1>0. /\ MailTypes /\ CarriedOnce /\ Reader \in Users
      /\ hand \in [Users -> HandRow] /\ fate \in [Letters -> FateRow]
      /\ lock \in Users \cup {NoUser}
  BY MailAssumption DEF MailInv, MailTypes
<1>1. /\ hand[u].pc = "stored" /\ hand' = [hand EXCEPT ![u] = Resting] /\ UNCHANGED inbox
      /\ lock' = IF lock = u THEN NoUser ELSE lock
      /\ fate' = [l \in Letters |->
                    IF l \notin hand[u].letter THEN fate[l]
                    ELSE IF u = Reader THEN [fate[l] EXCEPT !.seen = fate[l].seen + 1]
                    ELSE [fate[l] EXCEPT !.sent = "sent"]]
  BY DEF MailRelease
<1>2. \A l \in Letters : /\ [fate[l] EXCEPT !.sent = "sent"] \in FateRow
                         /\ [fate[l] EXCEPT !.sent = "sent"].sent = "sent"
                         /\ [fate[l] EXCEPT !.sent = "sent"].seen = fate[l].seen
  BY <1>0 DEF FateRow
<1>3. \A l \in Letters : /\ [fate[l] EXCEPT !.seen = fate[l].seen + 1] \in FateRow
                         /\ [fate[l] EXCEPT !.seen = fate[l].seen + 1].sent = fate[l].sent
                         /\ [fate[l] EXCEPT !.seen = fate[l].seen + 1].seen = fate[l].seen + 1
  BY <1>0 DEF FateRow
<1>4. /\ fate' \in [Letters -> FateRow]
      /\ \A l \in Letters :
           /\ l \notin hand[u].letter => fate'[l] = fate[l]
           /\ l \in hand[u].letter /\ u = Reader =>
                fate'[l].sent = fate[l].sent /\ fate'[l].seen = fate[l].seen + 1
           /\ l \in hand[u].letter /\ u # Reader =>
                fate'[l].sent = "sent" /\ fate'[l].seen = fate[l].seen
  <2>1. \A l \in Letters : fate[l] \in FateRow
    BY <1>0
  <2> QED BY <1>1, <1>2, <1>3, <2>1
<1>5. u # Reader => \E l \in Letters : hand[u].letter = {l} /\ fate[l].sent = "sending"
  BY <1>0, <1>1 DEF CarriedOnce, Writers, Calling
<1>6. /\ MailTypes' /\ CarriedOnce'
      /\ hand'[u].pc = "idle" /\ hand'[u].letter = {}
      /\ \A v \in Users \ {u} : hand'[v] = hand[v]
      /\ NoneDead' => NoneDead
  <2>1. \A l \in Letters : (u = Reader \/ hand[u].letter # {l}) => fate'[l].sent = fate[l].sent
    BY <1>4, <1>5
  <2>2. hand[u].pc \in Calling /\ lock' \in Users \cup {NoUser}
    BY <1>0, <1>1 DEF Calling
  <2> QED BY <2>1, <2>2, <1>0, <1>1, <1>4, Rests
<1>7. ASSUME NoneDead' PROVE AloneInside' /\ LettersKept'
  <2>1. AloneInside /\ LettersKept
    BY <1>6, <1>7 DEF MailInv
  <2>2. \A v \in Users \ {u} : hand[v].pc \notin Within
    BY <2>1, <1>1 DEF AloneInside, Within
  <2>3. AloneInside'
    BY <2>1, <2>2, <1>1, <1>6 DEF AloneInside, Within
  <2>4. \A l : ~StoredBy(l)' /\ ~InHands(l)' /\ (InFile(l)' <=> InFile(l))
    BY <2>2, <1>0, <1>1, <1>6 DEF StoredBy, InHands, InFile, Writers, Within
  <2> SUFFICES ASSUME NEW l \in Letters
               PROVE  /\ \A i, j \in DOMAIN inbox' : inbox'[i].id = l /\ inbox'[j].id = l => i = j
                      /\ InFile(l)' <=> fate'[l].sent = "sent" \/ StoredBy(l)'
                      /\ fate'[l].seen \in {0, 1} /\ (InHands(l)' => fate'[l].seen = 0)
                      /\ fate'[l].seen = 1 \/ InHands(l)' => InFile(l)'
                      /\ \A i \in DOMAIN inbox' : inbox'[i].id = l =>
                           (inbox'[i].read <=> fate'[l].seen = 1 \/ InHands(l)')
    BY <2>3 DEF LettersKept
  <2>5. /\ \A i, j \in DOMAIN inbox : inbox[i].id = l /\ inbox[j].id = l => i = j
        /\ InFile(l) <=> fate[l].sent = "sent" \/ StoredBy(l)
        /\ fate[l].seen \in {0, 1} /\ (InHands(l) => fate[l].seen = 0)
        /\ fate[l].seen = 1 \/ InHands(l) => InFile(l)
        /\ \A i \in DOMAIN inbox : inbox[i].id = l => (inbox[i].read <=> fate[l].seen = 1 \/ InHands(l))
    BY <2>1 DEF LettersKept
  <2>6. CASE u = Reader
    <3>1. ~StoredBy(l) /\ (InHands(l) <=> l \in hand[u].letter)
      BY <2>6, <2>2, <1>1 DEF StoredBy, InHands, Writers, Within
    <3>2. fate'[l].sent = fate[l].sent /\ (fate'[l].seen = 1 <=> fate[l].seen = 1 \/ InHands(l))
          /\ fate'[l].seen \in {0, 1}
      BY <2>5, <2>6, <3>1, <1>4
    <3> QED BY <3>1, <3>2, <2>4, <2>5, <1>1
  <2>7. CASE u # Reader
    <3>1. ~InHands(l)
      BY <2>7, <2>2, <1>0 DEF InHands, Within
    <3>2. StoredBy(l) <=> l \in hand[u].letter
      <4>1. u \in Writers /\ \A v \in Writers : hand[v].pc = "stored" => v = u
        BY <2>7, <2>2 DEF Writers, Within
      <4> QED BY <4>1, <2>7, <1>1, <1>5 DEF StoredBy
    <3>3. fate'[l].seen = fate[l].seen /\ (fate'[l].sent = "sent" <=> fate[l].sent = "sent" \/ StoredBy(l))
      BY <2>7, <3>2, <1>4
    <3> QED BY <3>1, <3>3, <2>4, <2>5, <1>1
  <2> QED BY <2>6, <2>7
<1> QED BY <1>6, <1>7 DEF MailInv

LEMMA MailInvNext == MailInv /\ [MailNext]_mailVars => MailInv'
<1> SUFFICES ASSUME MailInv, [MailNext]_mailVars PROVE MailInv'
  OBVIOUS
<1>0. Reader \in Users
  BY MailAssumption
<1>1. CASE MailConsume
  BY <1>0, <1>1, LockSteps
<1>2. ASSUME NEW u \in Users, MailAdvance(u) PROVE MailInv'
  <2>1. CASE MailAcquire(u) \/ MailContend(u) \/ MailBreak(u) \/ MailRead(u)
    BY <2>1, LockSteps, Zenon
  <2>2. CASE MailTimeout(u)
    BY <2>2, TimeoutStep
  <2>3. CASE MailReplace(u)
    BY <2>3, WriterStores, ReaderStores
  <2>4. CASE MailRelease(u)
    BY <2>4, ReleaseStep
  <2> QED BY <1>2, <2>1, <2>2, <2>3, <2>4, Zenon DEF MailAdvance
<1>3. ASSUME NEW u \in Users, MailDie(u) PROVE MailInv'
  BY <1>3, LockSteps, Zenon
<1>4. ASSUME NEW u \in Users, NEW m \in Letters, MailWrite(u, m) PROVE MailInv'
  BY <1>4, WriteStep
<1>5. CASE UNCHANGED mailVars
  <2>1. inbox' = inbox /\ lock' = lock /\ hand' = hand /\ fate' = fate
    BY <1>5 DEF mailVars
  <2>2. MailTypes' <=> MailTypes
    BY <2>1 DEF MailTypes
  <2>3. CarriedOnce' <=> CarriedOnce
    BY <2>1, Zenon DEF CarriedOnce, Carries
  <2>4. (NoneDead' <=> NoneDead) /\ (AloneInside' <=> AloneInside)
    BY <2>1, Zenon DEF NoneDead, AloneInside
  <2>5. LettersKept' <=> LettersKept
    <3>1. \A m \in Letters : /\ InFile(m)' <=> InFile(m)
                             /\ StoredBy(m)' <=> StoredBy(m)
                             /\ InHands(m)' <=> InHands(m)
      BY <2>1, Zenon DEF InFile, StoredBy, InHands
    <3> QED BY <2>1, <3>1 DEF LettersKept
  <2> QED BY <2>2, <2>3, <2>4, <2>5 DEF MailInv
<1> QED BY <1>1, <1>2, <1>3, <1>4, <1>5, Zenon DEF MailNext

LEMMA MailInvGives == MailInv => MailTypeOK /\ MailExactlyOnce
<1> SUFFICES ASSUME MailInv PROVE MailTypeOK /\ MailExactlyOnce
  OBVIOUS
<1>0. MailTypes
  BY DEF MailInv
<1>1. MailTypeOK
  BY <1>0 DEF MailTypes, MailTypeOK, HandRow, HandPlace, LetterRow
<1>2. ASSUME Dead = {}
      PROVE  /\ Cardinality(Inside) <= 1
             /\ \A u \in Inside : lock = u
             /\ \A m \in Letters :
                  /\ fate[m].seen <= 1
                  /\ fate[m].sent = "sent" => Cardinality(InInbox(m)) = 1
                  /\ fate[m].sent \in {"no", "refused"} => InInbox(m) = {}
                  /\ \A i \in InInbox(m) :
                       inbox[i].read <=> fate[m].seen = 1
                                         \/ (hand[Reader].pc = "stored" /\ m \in hand[Reader].letter)
  <2>1. AloneInside /\ LettersKept /\ CarriedOnce
    BY <1>2 DEF MailInv, NoneDead, Dead
  <2>2. \A u \in Inside : lock = u
    BY <2>1 DEF AloneInside, Inside, Within
  <2>3. Inside = {} \/ Inside = {lock}
    BY <2>2
  <2>4. Cardinality(Inside) <= 1
    <3>1. Cardinality(Inside) \in {0, 1}
      BY <2>3, FS_EmptySet, FS_Singleton
    <3> QED BY <3>1
  <2>5. ASSUME NEW m \in Letters
        PROVE  /\ fate[m].seen <= 1
               /\ fate[m].sent = "sent" => Cardinality(InInbox(m)) = 1
               /\ fate[m].sent \in {"no", "refused"} => InInbox(m) = {}
               /\ \A i \in InInbox(m) :
                    inbox[i].read <=> fate[m].seen = 1
                                      \/ (hand[Reader].pc = "stored" /\ m \in hand[Reader].letter)
    <3>1. /\ \A i, j \in InInbox(m) : i = j
          /\ InInbox(m) # {} <=> fate[m].sent = "sent" \/ StoredBy(m)
          /\ fate[m].seen \in {0, 1}
          /\ \A i \in InInbox(m) : inbox[i].read <=> fate[m].seen = 1 \/ InHands(m)
      BY <2>1 DEF LettersKept, InInbox, InFile
    <3>2. fate[m].sent \in {"no", "refused"} => ~StoredBy(m)
      <4>1. StoredBy(m) => fate[m].sent = "sending"
        <5> SUFFICES ASSUME NEW u \in Writers, hand[u].pc = "stored", hand[u].letter = {m}
                     PROVE  fate[m].sent = "sending"
          BY DEF StoredBy
        <5>1. PICK l \in Letters : hand[u].letter = {l} /\ fate[l].sent = "sending"
          BY <2>1 DEF CarriedOnce, Calling
        <5>2. l = m
          BY <5>1
        <5> QED BY <5>1, <5>2
      <4> QED BY <4>1
    <3>3. fate[m].sent = "sent" => Cardinality(InInbox(m)) = 1
      <4> SUFFICES ASSUME fate[m].sent = "sent" PROVE Cardinality(InInbox(m)) = 1
        OBVIOUS
      <4>1. PICK i : i \in InInbox(m)
        BY <3>1
      <4>2. InInbox(m) = {i}
        BY <3>1, <4>1
      <4> QED BY <4>2, FS_Singleton
    <3>4. fate[m].seen <= 1
      BY <3>1
    <3>5. fate[m].sent \in {"no", "refused"} => InInbox(m) = {}
      BY <3>1, <3>2
    <3> QED BY <3>1, <3>3, <3>4, <3>5 DEF InHands
  <2> QED BY <2>2, <2>4, <2>5
<1>3. MailExactlyOnce
  BY <1>2 DEF MailExactlyOnce
<1> QED BY <1>1, <1>3

-----------------------------------------------------------------------------
(* The board.  Whatever overlaps, a dependency that is shown is stored: a copy   *)
(* holds only edges that were there when it was made or that its call adds.     *)
(* Without an overlap one user at most is in the middle of a call, its copy is   *)
(* the row as it is with what the call changes, and the edges have no cycle     *)
(* with those it will add.                                                     *)
BoardUsers == Members \cup {Lead}
ItemRow == [used : BOOLEAN, shown : {"pending", "blocked", "in_progress", "completed"},
            status : {"queued", "running", "succeeded"}, who : Members \cup {NoOne},
            by : SUBSET Items]
AskRow == [status : {"same", "pending", "completed"}, who : SUBSET (Members \cup {NoOne}),
           by : SUBSET Items, blocks : SUBSET Items]
EditPlace == {"idle", "insert", "details", "status", "target", "link"}
EditRow == [pc : EditPlace, item : 0 .. MaxItems, ask : AskRow, copy : ItemRow]
DispatchRow == [phase : {"no", "launching", "working", "over"}, item : 0 .. MaxItems,
                was : Members \cup {NoOne}]

BoardTypes ==
  /\ items \in [Items -> ItemRow] /\ editing \in [BoardUsers -> EditRow]
  /\ dispatch \in [BoardDispatches -> DispatchRow] /\ owners \in [Items -> SUBSET Members]

EdgesKept ==
  /\ edges \subseteq Made \X Made
  /\ \A t \in Items : /\ items[t].by \subseteq Made
                      /\ t \notin Made => items[t].shown = "pending"
                      /\ t \in Made => \A d \in items[t].by : <<t, d>> \in edges
  /\ \A d \in BoardDispatches : dispatch[d].phase \in {"launching", "working"} => dispatch[d].item \in Made

EditSound(e) ==
  e.pc # "idle" =>
    /\ e.item \in Items /\ e.ask.by \subseteq Made /\ e.ask.blocks \subseteq Made
    /\ e.pc # "insert" => e.item \in Made
    /\ e.pc = "status" => e.ask.status # "same"
    /\ e.pc \in {"target", "link"} => e.ask.blocks # {}
    /\ e.pc \in {"details", "link"} => e.copy.by \subseteq Made
    /\ e.pc = "details" => \A d \in e.copy.by : <<e.item, d>> \in edges \/ d \in e.ask.by
    /\ e.pc = "link" => \A d \in e.copy.by : <<LinkTarget(e), d>> \in edges \/ d = e.item

WithAsk(t, ask, pairs) ==
  pairs \cup {<<t, d>> : d \in ask.by} \cup {<<b, t>> : b \in ask.blocks}

SameItem(c, r) == c.shown = r.shown /\ c.who = r.who

EditWhole(e) ==
  /\ e.pc # "idle" => ~Cyclic(WithAsk(e.item, e.ask, edges))
  /\ e.pc = "details" => /\ e.copy.by = items[e.item].by \cup e.ask.by
                         /\ e.ask.status = "same" => e.copy.shown = items[e.item].shown
                         /\ e.ask.status # "same" => e.copy.shown = e.ask.status
                         /\ e.ask.who = {} => e.copy.who = items[e.item].who
  /\ e.pc = "status" => items[e.item].shown = e.ask.status
  /\ e.pc = "link" => /\ e.copy.by = items[LinkTarget(e)].by \cup {e.item}
                      /\ SameItem(e.copy, items[LinkTarget(e)])

OneAtWork == \A u, v \in BoardUsers : editing[u].pc # "idle" /\ editing[v].pc # "idle" => u = v

BoardWhole ==
  /\ OneAtWork
  /\ \A t, d \in Items : <<t, d>> \in edges => d \in items[t].by
  /\ ~Cyclic(edges)
  /\ \A t \in Items : \/ items[t].status = StatusOf(items[t].shown)
                      \/ \E u \in BoardUsers : editing[u].pc = "status" /\ editing[u].item = t
  /\ \A t \in Items : \A w \in owners[t] : Current(t, w)
  /\ \A u \in BoardUsers : EditWhole(editing[u])

BoardInv == /\ BoardTypes /\ EdgesKept /\ (\A u \in BoardUsers : EditSound(editing[u]))
            /\ (~overlap => BoardWhole)

LEMMA CyclicGrows ==
  ASSUME NEW P, NEW Q, P \subseteq Q, Cyclic(P)
  PROVE  Cyclic(Q)
<1>1. PICK ring \in (SUBSET Items) \ {{}} : \A t \in ring : \E d \in ring : <<t, d>> \in P
  BY Zenon DEF Cyclic
<1>2. \A t \in ring : \E d \in ring : <<t, d>> \in Q
  BY <1>1
<1> QED BY <1>2, Zenon DEF Cyclic

LEMMA NoEdgesNoCycle == ~Cyclic({})
BY DEF Cyclic

LEMMA BoardRows ==
  /\ Unused \in ItemRow /\ Plain \in AskRow /\ AtRest \in EditRow
  /\ Unused.used = FALSE /\ Unused.shown = "pending" /\ Unused.status = "queued" /\ Unused.by = {}
  /\ Plain.status = "same" /\ Plain.who = {} /\ Plain.by = {} /\ Plain.blocks = {}
  /\ AtRest.pc = "idle"
<1>1. MaxItems \in Nat
  BY BoardAssumption
<1>2. Unused \in ItemRow /\ Unused.used = FALSE /\ Unused.shown = "pending"
      /\ Unused.status = "queued" /\ Unused.by = {}
  BY DEF Unused, ItemRow
<1>3. Plain \in AskRow /\ Plain.status = "same" /\ Plain.who = {} /\ Plain.by = {} /\ Plain.blocks = {}
  BY DEF Plain, AskRow
<1>4. AtRest.pc = "idle" /\ AtRest \in EditRow
  BY <1>1, <1>2, <1>3 DEF AtRest, EditRow, EditPlace
<1> QED BY <1>2, <1>3, <1>4

LEMMA BoardInvInit == BoardInit => BoardInv
<1> SUFFICES ASSUME BoardInit PROVE BoardInv
  OBVIOUS
<1>1. items = [t \in Items |-> Unused] /\ edges = {} /\ editing = [u \in BoardUsers |-> AtRest]
      /\ owners = [t \in Items |-> {}]
  BY DEF BoardInit, BoardUsers
<1>2. /\ dispatch \in [BoardDispatches -> DispatchRow]
      /\ \A d \in BoardDispatches : dispatch[d].phase = "no"
  BY BoardAssumption DEF BoardInit, DispatchRow
<1>3. BoardTypes
  BY <1>1, <1>2, BoardRows DEF BoardTypes
<1>4. EdgesKept
  BY <1>1, <1>2, BoardRows DEF EdgesKept, Made
<1>5. \A u \in BoardUsers : editing[u].pc = "idle"
  BY <1>1, BoardRows
<1>6. BoardWhole
  <2>1. \A t \in Items : items[t].status = StatusOf(items[t].shown)
    BY <1>1, BoardRows DEF StatusOf
  <2> QED BY <1>1, <1>5, <2>1, NoEdgesNoCycle DEF BoardWhole, OneAtWork, EditWhole
<1> QED BY <1>3, <1>4, <1>5, <1>6 DEF BoardInv, EditSound

(* What may be asked for. *)
LEMMA AskTypes ==
  ASSUME NEW t, NEW ask \in Asks(t)
  PROVE  ask \in AskRow
<1>1. CASE ask = Plain
  BY <1>1, BoardRows
<1>2. ASSUME NEW s \in {"pending", "completed"}, ask = [Plain EXCEPT !.status = s] PROVE ask \in AskRow
  BY <1>2, BoardRows DEF AskRow
<1>3. ASSUME NEW w \in Members \cup {NoOne}, ask = [Plain EXCEPT !.who = {w}] PROVE ask \in AskRow
  BY <1>3, BoardRows DEF AskRow
<1>4. ASSUME NEW d \in Items, ask = [Plain EXCEPT !.by = {d}] PROVE ask \in AskRow
  BY <1>4, BoardRows DEF AskRow
<1>5. ASSUME NEW b \in Items, ask = [Plain EXCEPT !.blocks = {b}] PROVE ask \in AskRow
  BY <1>5, BoardRows DEF AskRow
<1> QED BY <1>1, <1>2, <1>3, <1>4, <1>5 DEF Asks

LEMMA EditRenumbered ==
  ASSUME NEW e \in EditRow, NEW t \in Items
  PROVE  LET q == [e EXCEPT !.item = t]
         IN  q \in EditRow /\ q.pc = e.pc /\ q.item = t /\ q.ask = e.ask /\ q.copy = e.copy
BY BoardAssumption DEF EditRow, Items

LEMMA EditCopied ==
  ASSUME NEW e \in EditRow, NEW c \in ItemRow
  PROVE  LET q == [e EXCEPT !.pc = "link", !.copy = c]
         IN  q \in EditRow /\ q.pc = "link" /\ q.item = e.item /\ q.ask = e.ask /\ q.copy = c
BY DEF EditRow, EditPlace

LEMMA EditBegun ==
  ASSUME NEW t \in Items, NEW ask \in AskRow
  PROVE  LET q == [AtRest EXCEPT !.pc = "insert", !.item = t, !.ask = ask]
         IN  q \in EditRow /\ q.pc = "insert" /\ q.item = t /\ q.ask = ask
<1>1. t \in 0 .. MaxItems
  BY BoardAssumption DEF Items
<1> QED BY <1>1, BoardRows DEF EditRow, EditPlace, AtRest

(* A user moves: what must be shown. *)
LEMMA EditMoves ==
  ASSUME BoardInv, NEW u \in BoardUsers, NEW e \in EditRow, editing' = [editing EXCEPT ![u] = e],
         items' \in [Items -> ItemRow], dispatch' \in [BoardDispatches -> DispatchRow],
         owners' \in [Items -> SUBSET Members],
         EdgesKept', Made \subseteq Made', edges \subseteq edges', EditSound(e)',
         ~overlap' => BoardWhole'
  PROVE  BoardInv'
<1>0. BoardTypes /\ \A v \in BoardUsers : EditSound(editing[v])
  BY DEF BoardInv
<1>1. /\ editing' \in [BoardUsers -> EditRow] /\ editing'[u] = e
      /\ \A v \in BoardUsers \ {u} : editing'[v] = editing[v]
  BY <1>0, Assigned DEF BoardTypes
<1>2. BoardTypes'
  BY <1>1 DEF BoardTypes
<1>3. ASSUME NEW v \in BoardUsers PROVE EditSound(editing[v])' 
  <2>1. CASE v = u
    BY <1>1, <2>1 DEF EditSound, LinkTarget
  <2>2. CASE v # u
    BY <1>0, <1>1, <2>2 DEF EditSound, LinkTarget
  <2> QED BY <2>1, <2>2
<1> QED BY <1>2, <1>3 DEF BoardInv

LEMMA WholeMoves ==
  ASSUME BoardInv, BoardWhole, NEW u \in BoardUsers, NEW e \in EditRow,
         editing[u].pc # "idle" \/ Quiet, editing' = [editing EXCEPT ![u] = e], EditWhole(e)',
         \A t, d \in Items : <<t, d>> \in edges' => d \in items'[t].by, ~Cyclic(edges'),
         \A t \in Items : items'[t].status = StatusOf(items'[t].shown) \/ (e.pc = "status" /\ e.item = t),
         \A t \in Items : \A w \in owners'[t] : Current(t, w)'
  PROVE  BoardWhole'
<1>1. /\ editing' \in [BoardUsers -> EditRow] /\ editing'[u] = e
      /\ \A v \in BoardUsers \ {u} : editing'[v] = editing[v]
  BY Assigned DEF BoardInv, BoardTypes
<1>2. \A v \in BoardUsers \ {u} : editing[v].pc = "idle"
  <2>1. CASE Quiet
    BY <2>1 DEF Quiet, BoardInv, BoardTypes
  <2>2. CASE editing[u].pc # "idle"
    BY <2>2 DEF BoardWhole, OneAtWork
  <2> QED BY <2>1, <2>2
<1>3. OneAtWork'
  BY <1>1, <1>2 DEF OneAtWork
<1>4. ASSUME NEW v \in BoardUsers PROVE EditWhole(editing[v])'
  <2>1. CASE v = u
    BY <1>1, <2>1 DEF EditWhole, LinkTarget
  <2>2. CASE v # u
    BY <1>1, <1>2, <2>2 DEF EditWhole
  <2> QED BY <2>1, <2>2
<1>5. \A t \in Items : \/ items'[t].status = StatusOf(items'[t].shown)
                       \/ \E v \in BoardUsers : editing'[v].pc = "status" /\ editing'[v].item = t
  BY <1>1
<1> QED BY <1>3, <1>4, <1>5 DEF BoardWhole

LEMMA FreeStep ==
  ASSUME NEW u, Free(u)
  PROVE  ~overlap' => ~overlap /\ Quiet
BY Zenon DEF Free

(* A row changes by a claim or by a result: the edges stay. *)
LEMMA RowMoves ==
  ASSUME BoardInv, NEW t \in Items, NEW q \in ItemRow, items' = [items EXCEPT ![t] = q],
         q.used = items[t].used, q.by = items[t].by, t \notin Made => q.shown = "pending",
         UNCHANGED <<edges, editing>>,
         dispatch' \in [BoardDispatches -> DispatchRow], owners' \in [Items -> SUBSET Members],
         \A d \in BoardDispatches : dispatch'[d].phase \in {"launching", "working"} => dispatch'[d].item \in Made,
         ~overlap' => ~overlap /\ Quiet,
         ~overlap' /\ BoardWhole =>
           /\ q.status = StatusOf(q.shown)
           /\ \A w \in owners'[t] : q.shown = "in_progress" /\ q.who = w
           /\ \A s \in Items \ {t} : owners'[s] = owners[s]
  PROVE  BoardInv'
<1>0. BoardTypes /\ EdgesKept /\ \A v \in BoardUsers : EditSound(editing[v])
  BY DEF BoardInv
<1>1. /\ items' \in [Items -> ItemRow] /\ items'[t] = q
      /\ \A s \in Items \ {t} : items'[s] = items[s]
  BY <1>0, Assigned DEF BoardTypes
<1>2. Made' = Made /\ \A s \in Items : items'[s].by = items[s].by
  BY <1>1 DEF Made
<1>3. BoardTypes'
  BY <1>0, <1>1 DEF BoardTypes
<1>4. EdgesKept'
  BY <1>0, <1>1, <1>2 DEF EdgesKept
<1>5. \A v \in BoardUsers : EditSound(editing[v])'
  BY <1>0, <1>2 DEF EditSound, LinkTarget
<1>6. ASSUME ~overlap' PROVE BoardWhole'
  <2>1. BoardWhole /\ Quiet
    BY <1>6, Zenon DEF BoardInv
  <2>2. \A v \in BoardUsers : editing'[v].pc = "idle"
    BY <1>0, <2>1 DEF Quiet, BoardTypes
  <2>3. \A s \in Items : items'[s].status = StatusOf(items'[s].shown)
    <3>1. \A s \in Items : items[s].status = StatusOf(items[s].shown)
      BY <2>1, <2>2 DEF BoardWhole
    <3> QED BY <3>1, <1>1, <1>6, <2>1
  <2>4. \A s \in Items : \A w \in owners'[s] : Current(s, w)'
    <3>1. \A s \in Items : \A w \in owners[s] : items[s].shown = "in_progress" /\ items[s].who = w
      BY <2>1 DEF BoardWhole, Current
    <3>2. \A s \in Items : \A w \in owners'[s] : items'[s].shown = "in_progress" /\ items'[s].who = w
      BY <3>1, <1>1, <1>6, <2>1
    <3> QED BY <3>2 DEF Current
  <2>5. OneAtWork' /\ \A v \in BoardUsers : EditWhole(editing[v])'
    BY <2>2 DEF OneAtWork, EditWhole
  <2>6. /\ \A s, d \in Items : <<s, d>> \in edges' => d \in items'[s].by
        /\ ~Cyclic(edges')
    BY <2>1, <1>2 DEF BoardWhole
  <2> QED BY <2>3, <2>4, <2>5, <2>6 DEF BoardWhole
<1> QED BY <1>3, <1>4, <1>5, <1>6 DEF BoardInv

LEMMA AcceptableSafe ==
  ASSUME BoardInv, BoardWhole, NEW t \in Items, NEW ask, Acceptable(t, ask)
  PROVE  ~Cyclic(WithAsk(t, ask, edges))
<1>1. edges \subseteq Blocked
  <2> SUFFICES ASSUME NEW x \in edges PROVE x \in Blocked
    OBVIOUS
  <2>1. PICK s \in Made, d \in Made : x = <<s, d>>
    BY DEF BoardInv, EdgesKept
  <2>2. d \in items[s].by
    BY <2>1 DEF BoardWhole, Made
  <2> QED BY <2>1, <2>2 DEF Blocked
<1>2. WithAsk(t, ask, edges) \subseteq WithAsk(t, ask, Blocked)
  BY <1>1 DEF WithAsk
<1>3. ~Cyclic(WithAsk(t, ask, Blocked))
  BY DEF Acceptable, WithAsk
<1> QED BY <1>2, <1>3, CyclicGrows

(* The copy of an update. *)
LEMMA ChangedRow ==
  ASSUME BoardTypes, NEW t \in Items, NEW ask \in AskRow
  PROVE  LET c == Changed(t, ask)
         IN  /\ c \in ItemRow /\ c.by = items[t].by \cup ask.by
             /\ ask.status = "same" => c.shown = items[t].shown
             /\ ask.status # "same" => c.shown = ask.status
             /\ ask.who = {} => c.who = items[t].who
<1>1. items[t] \in ItemRow
  BY DEF BoardTypes
<1>2. PICK r \in ItemRow : r = items[t]
  BY <1>1
<1>3. PICK s : s = IF ask.status = "same" THEN r.shown ELSE ask.status
  OBVIOUS
<1>4. PICK w : w = IF ask.who = {} THEN r.who ELSE CHOOSE x \in ask.who : TRUE
  OBVIOUS
<1>5. PICK b : b = r.by \cup ask.by
  OBVIOUS
<1>6. s \in {"pending", "blocked", "in_progress", "completed"}
  BY <1>3 DEF AskRow, ItemRow
<1>7. w \in Members \cup {NoOne}
  <2>1. CASE ask.who = {}
    BY <1>4, <2>1 DEF ItemRow
  <2>2. CASE ask.who # {}
    <3>1. w \in ask.who
      BY <1>4, <2>2
    <3> QED BY <3>1 DEF AskRow
  <2> QED BY <2>1, <2>2
<1>8. b \in SUBSET Items
  BY <1>5 DEF AskRow, ItemRow
<1>9. Changed(t, ask) = [r EXCEPT !.shown = s, !.who = w, !.by = b]
  BY <1>2, <1>3, <1>4, <1>5, Zenon DEF Changed
<1>10. LET q == [r EXCEPT !.shown = s, !.who = w, !.by = b]
       IN  q \in ItemRow /\ q.shown = s /\ q.who = w /\ q.by = b
  BY <1>6, <1>7, <1>8 DEF ItemRow
<1>11. Changed(t, ask) \in ItemRow /\ Changed(t, ask).shown = s /\ Changed(t, ask).who = w
       /\ Changed(t, ask).by = b
  BY <1>9, <1>10, Zenon
<1> QED BY <1>2, <1>3, <1>4, <1>5, <1>11

LEMMA EditStarts ==
  ASSUME NEW t \in Items, NEW ask \in AskRow, NEW c \in ItemRow
  PROVE  LET q == [pc |-> "details", item |-> t, ask |-> ask, copy |-> c]
         IN  q \in EditRow /\ q.pc = "details" /\ q.item = t /\ q.ask = ask /\ q.copy = c
BY BoardAssumption DEF EditRow, EditPlace, Items

LEMMA UpdateStarts ==
  ASSUME BoardInv, NEW u \in BoardUsers, NEW t \in Made, NEW ask \in AskRow,
         ask.by \subseteq Made, ask.blocks \subseteq Made, StartUpdate(u, t, ask),
         UNCHANGED <<items, edges, owners>>, dispatch' \in [BoardDispatches -> DispatchRow],
         \A d \in BoardDispatches : dispatch'[d].phase \in {"launching", "working"} => dispatch'[d].item \in Made,
         ~overlap' => ~overlap /\ Quiet,
         BoardWhole => ~Cyclic(WithAsk(t, ask, edges))
  PROVE  BoardInv'
<1>0. BoardTypes /\ EdgesKept /\ t \in Items
  BY DEF BoardInv, Made
<1>c. PICK c : c = Changed(t, ask)
  OBVIOUS
<1>q. PICK q : q = [pc |-> "details", item |-> t, ask |-> ask, copy |-> c]
  OBVIOUS
<1>1. /\ c \in ItemRow /\ c.by = items[t].by \cup ask.by
      /\ ask.status = "same" => c.shown = items[t].shown
      /\ ask.status # "same" => c.shown = ask.status
      /\ ask.who = {} => c.who = items[t].who
  <2>1. LET x == Changed(t, ask)
        IN  /\ x \in ItemRow /\ x.by = items[t].by \cup ask.by
            /\ ask.status = "same" => x.shown = items[t].shown
            /\ ask.status # "same" => x.shown = ask.status
            /\ ask.who = {} => x.who = items[t].who
    BY <1>0, ChangedRow
  <2> QED BY <1>c, <2>1, Zenon
<1>2. editing' = [editing EXCEPT ![u] = q]
  BY <1>c, <1>q, Zenon DEF StartUpdate
<1>3. q \in EditRow /\ q.pc = "details" /\ q.item = t /\ q.ask = ask /\ q.copy = c
  <2>1. LET x == [pc |-> "details", item |-> t, ask |-> ask, copy |-> c]
        IN  x \in EditRow /\ x.pc = "details" /\ x.item = t /\ x.ask = ask /\ x.copy = c
    BY <1>0, <1>1, EditStarts
  <2> QED BY <1>q, <2>1, Zenon
<1>4. Made' = Made /\ EdgesKept'
  BY <1>0 DEF EdgesKept, Made
<1>5. EditSound(q)'
  <2>1. c.by \subseteq Made /\ \A d \in c.by : <<t, d>> \in edges \/ d \in ask.by
    BY <1>0, <1>1 DEF EdgesKept
  <2> QED BY <1>0, <1>3, <1>4, <2>1 DEF EditSound
<1>6. ASSUME ~overlap' PROVE BoardWhole'
  <2>1. BoardWhole /\ Quiet
    BY <1>6, Zenon DEF BoardInv
  <2>2. EditWhole(q)'
    <3>1. ~Cyclic(WithAsk(t, ask, edges))'
      BY <2>1 DEF WithAsk
    <3> QED BY <1>1, <1>3, <3>1 DEF EditWhole
  <2>3. \A s \in Items : items'[s].status = StatusOf(items'[s].shown)
    BY <1>0, <2>1 DEF BoardWhole, Quiet, BoardTypes
  <2>4. /\ \A s \in Items : \A w \in owners'[s] : Current(s, w)'
        /\ \A s, d \in Items : <<s, d>> \in edges' => d \in items'[s].by
        /\ ~Cyclic(edges')
    BY <2>1 DEF BoardWhole, Current
  <2> QED BY <1>2, <1>3, <2>1, <2>2, <2>3, <2>4, WholeMoves
<1>7. items' \in [Items -> ItemRow] /\ owners' \in [Items -> SUBSET Members] /\ edges \subseteq edges'
  BY <1>0 DEF BoardTypes
<1> QED BY <1>2, <1>3, <1>4, <1>5, <1>6, <1>7, EditMoves

LEMMA CreateStep ==
  ASSUME BoardInv, NEW u \in BoardUsers, BoardCreate(u)
  PROVE  BoardInv'
<1>0. BoardTypes /\ EdgesKept
  BY DEF BoardInv
<1>1. PICK ask \in Asks(NextId) :
        /\ ask.status = "same" /\ ask.who = {} /\ ask.blocks = {} /\ Acceptable(NextId, ask)
        /\ editing' = [editing EXCEPT ![u] = [AtRest EXCEPT !.pc = "insert", !.item = NextId, !.ask = ask]]
  BY DEF BoardCreate
<1>2. Free(u) /\ NextId \in Items /\ UNCHANGED <<items, edges, dispatch, owners>>
  BY DEF BoardCreate
<1>3. ask \in AskRow
  BY AskTypes
<1>t. PICK t \in Items : t = NextId
  BY <1>2
<1>q. PICK q : q = [AtRest EXCEPT !.pc = "insert", !.item = t, !.ask = ask]
  OBVIOUS
<1>4. q \in EditRow /\ q.pc = "insert" /\ q.item = t /\ q.ask = ask
  <2>1. LET x == [AtRest EXCEPT !.pc = "insert", !.item = t, !.ask = ask]
        IN  x \in EditRow /\ x.pc = "insert" /\ x.item = t /\ x.ask = ask
    BY <1>3, EditBegun
  <2> QED BY <1>q, <2>1, Zenon
<1>5. editing' = [editing EXCEPT ![u] = q]
  BY <1>1, <1>t, <1>q, Zenon
<1>6. Made' = Made /\ EdgesKept'
  BY <1>0, <1>2 DEF EdgesKept, Made
<1>7. EditSound(q)'
  BY <1>1, <1>4, <1>6 DEF EditSound, Acceptable
<1>8. ASSUME ~overlap' PROVE BoardWhole'
  <2>1. BoardWhole /\ Quiet
    BY <1>2, <1>8, FreeStep, Zenon DEF BoardInv
  <2>2. EditWhole(q)'
    <3>1. ~Cyclic(WithAsk(NextId, ask, edges))
      BY <2>1, <1>1, <1>2, AcceptableSafe
    <3>2. ~Cyclic(WithAsk(q.item, q.ask, edges))
      BY <3>1, <1>4, <1>t
    <3>3. ~Cyclic(WithAsk(q.item, q.ask, edges))'
      <4>1. edges' = edges
        BY <1>2
      <4> QED BY <3>2, <4>1
    <3> QED BY <1>4, <3>3 DEF EditWhole
  <2>3. \A s \in Items : items'[s].status = StatusOf(items'[s].shown)
    BY <1>0, <1>2, <2>1 DEF BoardWhole, Quiet, BoardTypes
  <2>4. /\ \A s \in Items : \A w \in owners'[s] : Current(s, w)'
        /\ \A s, d \in Items : <<s, d>> \in edges' => d \in items'[s].by
        /\ ~Cyclic(edges')
    BY <1>2, <2>1 DEF BoardWhole, Current
  <2> QED BY <1>4, <1>5, <2>1, <2>2, <2>3, <2>4, WholeMoves
<1>9. /\ items' \in [Items -> ItemRow] /\ owners' \in [Items -> SUBSET Members] /\ edges \subseteq edges'
      /\ dispatch' \in [BoardDispatches -> DispatchRow]
  BY <1>0, <1>2 DEF BoardTypes
<1> QED BY <1>4, <1>5, <1>6, <1>7, <1>8, <1>9, EditMoves

LEMMA BoardWholeKept ==
  ASSUME BoardWhole, UNCHANGED <<items, edges, editing, owners>>
  PROVE  BoardWhole'
<1>1. OneAtWork' /\ \A t, d \in Items : <<t, d>> \in edges' => d \in items'[t].by
  BY DEF BoardWhole, OneAtWork
<1>2. ~Cyclic(edges')
  BY DEF BoardWhole
<1>3. \A t \in Items : \/ items'[t].status = StatusOf(items'[t].shown)
                       \/ \E u \in BoardUsers : editing'[u].pc = "status" /\ editing'[u].item = t
  BY DEF BoardWhole
<1>4. \A t \in Items : \A w \in owners'[t] : Current(t, w)'
  BY DEF BoardWhole, Current
<1>5. ASSUME NEW u \in BoardUsers PROVE EditWhole(editing[u])'
  <2>1. EditWhole(editing[u])
    BY DEF BoardWhole
  <2>2. ~Cyclic(WithAsk(editing[u].item, editing[u].ask, edges)) =>
        ~Cyclic(WithAsk(editing[u].item, editing[u].ask, edges))'
    OBVIOUS
  <2> QED BY <2>1, <2>2 DEF EditWhole, LinkTarget, SameItem
<1> QED BY <1>1, <1>2, <1>3, <1>4, <1>5 DEF BoardWhole

LEMMA UpdateStep ==
  ASSUME BoardInv, NEW u \in BoardUsers, NEW t, BoardUpdate(u, t)
  PROVE  BoardInv'
<1>1. PICK ask \in Asks(t) : Acceptable(t, ask) /\ StartUpdate(u, t, ask)
  BY DEF BoardUpdate
<1>2. Free(u) /\ t \in Made /\ UNCHANGED <<items, edges, dispatch, owners>>
  BY DEF BoardUpdate
<1>3. ask \in AskRow
  BY AskTypes
<1>4. ask.by \subseteq Made /\ ask.blocks \subseteq Made
  BY <1>1 DEF Acceptable
<1>5. /\ dispatch' \in [BoardDispatches -> DispatchRow]
      /\ \A d \in BoardDispatches : dispatch'[d].phase \in {"launching", "working"} => dispatch'[d].item \in Made
  BY <1>2 DEF BoardInv, BoardTypes, EdgesKept
<1>6. ~overlap' => ~overlap /\ Quiet
  BY <1>2, FreeStep, Zenon
<1>7. BoardWhole => ~Cyclic(WithAsk(t, ask, edges))
  BY <1>1, <1>2, AcceptableSafe DEF Made
<1>8. UNCHANGED <<items, edges, owners>>
  BY <1>2
<1> QED BY <1>1, <1>2, <1>3, <1>4, <1>5, <1>6, <1>7, <1>8, UpdateStarts, Zenon

LEMMA LaunchFailsStep ==
  ASSUME BoardInv, NEW d \in BoardDispatches, BoardLaunchFails(d)
  PROVE  BoardInv'
<1>0. BoardTypes /\ EdgesKept
  BY DEF BoardInv
<1>1. Free(Lead) /\ dispatch[d].phase = "launching" /\ UNCHANGED <<items, edges, owners>>
  BY DEF BoardLaunchFails
<1>t. PICK t \in Made : t = dispatch[d].item
  BY <1>0, <1>1 DEF EdgesKept
<1>a. PICK ask : ask = [Plain EXCEPT !.status = "pending", !.who = {dispatch[d].was}]
  OBVIOUS
<1>2. ask \in AskRow /\ ask.by = {} /\ ask.blocks = {}
  <2>1. dispatch[d].was \in Members \cup {NoOne}
    BY <1>0 DEF BoardTypes, DispatchRow
  <2> QED BY <1>a, <2>1, BoardRows DEF AskRow
<1>3. StartUpdate(Lead, t, ask)
  BY <1>t, <1>a, Zenon DEF BoardLaunchFails
<1>4. dispatch' = [dispatch EXCEPT ![d].phase = "over"]
  BY DEF BoardLaunchFails
<1>5. /\ dispatch' \in [BoardDispatches -> DispatchRow]
      /\ \A x \in BoardDispatches : dispatch'[x].phase \in {"launching", "working"} => dispatch'[x].item \in Made
  <2>1. PICK q : q = [dispatch[d] EXCEPT !.phase = "over"]
    OBVIOUS
  <2>2. q \in DispatchRow /\ q.phase = "over"
    BY <1>0, <2>1 DEF BoardTypes, DispatchRow
  <2>3. dispatch' = [dispatch EXCEPT ![d] = q]
    BY <1>4, <2>1, Zenon
  <2> QED BY <1>0, <2>2, <2>3 DEF BoardTypes, EdgesKept
<1>6. ~overlap' => ~overlap /\ Quiet
  BY <1>1, FreeStep, Zenon
<1>7. BoardWhole => ~Cyclic(WithAsk(t, ask, edges))
  <2>1. WithAsk(t, ask, edges) \subseteq edges
    BY <1>2 DEF WithAsk
  <2> QED BY <2>1, CyclicGrows DEF BoardWhole
<1>8. ask.by \subseteq Made /\ ask.blocks \subseteq Made /\ Lead \in BoardUsers
  BY <1>2 DEF BoardUsers
<1> QED BY <1>1, <1>2, <1>3, <1>5, <1>6, <1>7, <1>8, UpdateStarts, Zenon

LEMMA StatusAgrees ==
  /\ StatusOf("in_progress") = "running" /\ StatusOf("completed") = "succeeded"
  /\ StatusOf("blocked") = "queued" /\ StatusOf("pending") = "queued"
BY DEF StatusOf

(* A claim: the item is ready, or it is taken again by who has it. *)
LEMMA ClaimedStep ==
  ASSUME BoardInv, NEW t \in Items, NEW w \in Members, Claimable(t, w), Claimed(t, w),
         ~overlap' => ~overlap /\ Quiet, UNCHANGED <<edges, editing>>,
         dispatch' \in [BoardDispatches -> DispatchRow],
         \A d \in BoardDispatches : dispatch'[d].phase \in {"launching", "working"} => dispatch'[d].item \in Made
  PROVE  BoardInv'
<1>0. BoardTypes /\ items[t] \in ItemRow /\ t \in Made
  BY DEF BoardInv, BoardTypes, Claimable
<1>q. PICK q : q = [items[t] EXCEPT !.shown = "in_progress", !.status = "running", !.who = w]
  OBVIOUS
<1>1. /\ q \in ItemRow /\ q.used = items[t].used /\ q.shown = "in_progress" /\ q.status = "running"
      /\ q.who = w /\ q.by = items[t].by
  BY <1>0, <1>q DEF ItemRow
<1>2. items' = [items EXCEPT ![t] = q]
  BY <1>q, Zenon DEF Claimed
<1>3. /\ owners' \in [Items -> SUBSET Members] /\ owners'[t] = owners[t] \cup {w}
      /\ \A s \in Items \ {t} : owners'[s] = owners[s]
  BY <1>0 DEF BoardTypes, Claimed
<1>4. ASSUME BoardWhole, NEW x \in owners'[t] PROVE q.shown = "in_progress" /\ q.who = x
  <2>1. CASE x = w
    BY <1>1, <2>1
  <2>2. CASE x \in owners[t]
    <3>1. items[t].shown = "in_progress" /\ items[t].who = x
      BY <1>4, <2>2 DEF BoardWhole, Current
    <3>2. items[t].who = w
      BY <3>1 DEF Claimable
    <3> QED BY <1>1, <3>1, <3>2
  <2> QED BY <1>3, <1>4, <2>1, <2>2
<1>5. q.status = StatusOf(q.shown)
  BY <1>1, StatusAgrees
<1> QED BY <1>0, <1>1, <1>2, <1>3, <1>4, <1>5, RowMoves

LEMMA ClaimStep ==
  ASSUME BoardInv, NEW u \in BoardUsers, NEW t \in Items, BoardClaim(u, t)
  PROVE  BoardInv'
<1>1. Free(u) /\ u \in Members /\ Claimable(t, u) /\ Claimed(t, u) /\ UNCHANGED <<edges, editing, dispatch>>
  BY DEF BoardClaim, BoardUsers
<1>2. ~overlap' => ~overlap /\ Quiet
  BY <1>1, FreeStep, Zenon
<1>3. /\ dispatch' \in [BoardDispatches -> DispatchRow]
      /\ \A d \in BoardDispatches : dispatch'[d].phase \in {"launching", "working"} => dispatch'[d].item \in Made
  BY <1>1 DEF BoardInv, BoardTypes, EdgesKept
<1> QED BY <1>1, <1>2, <1>3, ClaimedStep

LEMMA DispatchStep ==
  ASSUME BoardInv, NEW d \in BoardDispatches, NEW t \in Items, BoardDispatch(d, t)
  PROVE  BoardInv'
<1>0. BoardTypes /\ EdgesKept
  BY DEF BoardInv
<1>w. PICK w \in Members : w = WorkerOf[d]
  BY BoardAssumption
<1>1. /\ Free(Lead) /\ Claimable(t, w) /\ Claimed(t, w) /\ UNCHANGED <<edges, editing>>
      /\ dispatch' = [dispatch EXCEPT ![d] = [phase |-> "launching", item |-> t, was |-> items[t].who]]
  BY <1>w DEF BoardDispatch
<1>2. ~overlap' => ~overlap /\ Quiet
  BY <1>1, FreeStep, Zenon
<1>3. /\ dispatch' \in [BoardDispatches -> DispatchRow]
      /\ \A x \in BoardDispatches : dispatch'[x].phase \in {"launching", "working"} => dispatch'[x].item \in Made
  <2>1. PICK q : q = [phase |-> "launching", item |-> t, was |-> items[t].who]
    OBVIOUS
  <2>2. items[t].who \in Members \cup {NoOne} /\ t \in 0 .. MaxItems /\ t \in Made
    BY <1>0, <1>1, BoardAssumption DEF BoardTypes, ItemRow, Items, Claimable
  <2>3. q \in DispatchRow /\ q.item \in Made
    BY <2>1, <2>2 DEF DispatchRow
  <2>4. dispatch' = [dispatch EXCEPT ![d] = q]
    BY <1>1, <2>1, Zenon
  <2> QED BY <1>0, <2>3, <2>4 DEF BoardTypes, EdgesKept
<1> QED BY <1>1, <1>2, <1>3, ClaimedStep

(* A result: the row changes only while the worker is its assignee at work. *)
LEMMA FinishStep ==
  ASSUME BoardInv, NEW d \in BoardDispatches, NEW ok \in BOOLEAN, BoardFinish(d, ok)
  PROVE  BoardInv'
<1>0. BoardTypes /\ EdgesKept
  BY DEF BoardInv
<1>1. Free(Lead) /\ dispatch[d].phase = "working" /\ UNCHANGED <<edges, editing>>
  BY DEF BoardFinish
<1>t. PICK t \in Made : t = dispatch[d].item
  BY <1>0, <1>1 DEF EdgesKept
<1>w. PICK w : w = WorkerOf[d]
  OBVIOUS
<1>s. PICK s : s = IF ok THEN "completed" ELSE "blocked"
  OBVIOUS
<1>2. s \in {"completed", "blocked"}
  BY <1>s
<1>3. /\ items' = IF Current(t, w) THEN [items EXCEPT ![t].shown = s, ![t].status = StatusOf(s)] ELSE items
      /\ owners' = [owners EXCEPT ![t] = @ \ {w}]
      /\ dispatch' = [dispatch EXCEPT ![d].phase = "over"]
  BY <1>t, <1>w, <1>s, Zenon DEF BoardFinish
<1>4. ~overlap' => ~overlap /\ Quiet
  BY <1>1, FreeStep, Zenon
<1>5. /\ dispatch' \in [BoardDispatches -> DispatchRow]
      /\ \A x \in BoardDispatches : dispatch'[x].phase \in {"launching", "working"} => dispatch'[x].item \in Made
  <2>1. PICK q : q = [dispatch[d] EXCEPT !.phase = "over"]
    OBVIOUS
  <2>2. q \in DispatchRow /\ q.phase = "over"
    BY <1>0, <2>1 DEF BoardTypes, DispatchRow
  <2>3. dispatch' = [dispatch EXCEPT ![d] = q]
    BY <1>3, <2>1, Zenon
  <2> QED BY <1>0, <2>2, <2>3 DEF BoardTypes, EdgesKept
<1>6. t \in Items /\ items[t] \in ItemRow /\ items[t].used
  BY <1>0 DEF BoardTypes, Made
<1>7. /\ owners' \in [Items -> SUBSET Members] /\ owners'[t] = owners[t] \ {w}
      /\ \A x \in Items \ {t} : owners'[x] = owners[x]
  BY <1>0, <1>3, <1>6 DEF BoardTypes
<1>8. ASSUME BoardWhole, NEW x \in owners[t] PROVE items[t].shown = "in_progress" /\ items[t].who = x
  BY <1>6, <1>8 DEF BoardWhole, Current
<1>9. CASE Current(t, w)
  <2>q. PICK q : q = [items[t] EXCEPT !.shown = s, !.status = StatusOf(s)]
    OBVIOUS
  <2>1. /\ q \in ItemRow /\ q.used = items[t].used /\ q.shown = s /\ q.status = StatusOf(s)
        /\ q.who = items[t].who /\ q.by = items[t].by
    <3>1. StatusOf(s) \in {"queued", "running", "succeeded"}
      BY DEF StatusOf
    <3> QED BY <1>2, <1>6, <2>q, <3>1 DEF ItemRow
  <2>2. items' = [items EXCEPT ![t] = q]
    BY <1>3, <1>9, <2>q, Zenon
  <2>3. BoardWhole => owners'[t] = {}
    BY <1>7, <1>8, <1>9 DEF Current
  <2>4. q.status = StatusOf(q.shown)
    BY <2>1
  <2> QED BY <1>1, <1>4, <1>5, <1>6, <1>7, <2>1, <2>2, <2>3, <2>4, RowMoves DEF Made
<1>10. CASE ~Current(t, w)
  <2>q. PICK q : q = items[t]
    OBVIOUS
  <2>1. items' = [items EXCEPT ![t] = q]
    BY <1>0, <1>3, <1>10, <2>q DEF BoardTypes
  <2>2. q \in ItemRow /\ q.used = items[t].used /\ q.by = items[t].by
    BY <1>6, <2>q
  <2>3. BoardWhole => \A x \in owners'[t] : q.shown = "in_progress" /\ q.who = x
    BY <1>7, <1>8, <2>q
  <2>4. BoardWhole /\ Quiet => q.status = StatusOf(q.shown)
    BY <1>0, <1>6, <2>q DEF BoardWhole, Quiet, BoardTypes
  <2> QED BY <1>1, <1>4, <1>5, <1>6, <1>7, <2>1, <2>2, <2>3, <2>4, RowMoves DEF Made
<1> QED BY <1>9, <1>10

LEMMA LaunchedStep ==
  ASSUME BoardInv, NEW d \in BoardDispatches, BoardLaunched(d)
  PROVE  BoardInv'
<1>0. BoardTypes /\ EdgesKept /\ \A v \in BoardUsers : EditSound(editing[v])
  BY DEF BoardInv
<1>1. /\ dispatch[d].phase = "launching" /\ UNCHANGED <<items, edges, editing, owners, overlap>>
      /\ dispatch' = [dispatch EXCEPT ![d].phase = "working"]
  BY DEF BoardLaunched
<1>2. PICK q : q = [dispatch[d] EXCEPT !.phase = "working"]
  OBVIOUS
<1>3. q \in DispatchRow /\ q.phase = "working" /\ q.item = dispatch[d].item
  BY <1>0, <1>2 DEF BoardTypes, DispatchRow
<1>4. dispatch' = [dispatch EXCEPT ![d] = q]
  BY <1>1, <1>2, Zenon
<1>5. BoardTypes'
  BY <1>0, <1>1, <1>3, <1>4 DEF BoardTypes
<1>6. EdgesKept'
  BY <1>0, <1>1, <1>3, <1>4 DEF EdgesKept, Made, BoardTypes
<1>7. \A v \in BoardUsers : EditSound(editing[v])'
  BY <1>0, <1>1 DEF EditSound, LinkTarget, Made
<1>8. ~overlap' => BoardWhole'
  BY <1>1, BoardWholeKept, Zenon DEF BoardInv
<1> QED BY <1>5, <1>6, <1>7, <1>8 DEF BoardInv

(* The steps of a call. *)
RowGiven(t, r, D) ==
  /\ items' = [items EXCEPT ![t] = r] /\ edges' = edges \cup {<<t, d>> : d \in D}
  /\ UNCHANGED dispatch
  /\ r.used /\ r.by \subseteq Made
  /\ \A d \in r.by : <<t, d>> \in edges \/ d \in D

RowTaken(t, r, D) ==
  /\ items' \in [Items -> ItemRow] /\ items'[t] = r
  /\ \A s \in Items \ {t} : items'[s] = items[s]
  /\ t \in Made' /\ Made \subseteq Made' /\ edges \subseteq edges' /\ EdgesKept'
  /\ dispatch' \in [BoardDispatches -> DispatchRow]
  /\ BoardWhole /\ (\A d \in Items : <<t, d>> \in edges \/ d \in D => d \in r.by) =>
       \A s, d \in Items : <<s, d>> \in edges' => d \in items'[s].by

LEMMA RowWritten ==
  ASSUME BoardInv, NEW t \in Items, NEW r \in ItemRow, NEW D \in SUBSET Made, RowGiven(t, r, D)
  PROVE  RowTaken(t, r, D)
<1>g. /\ items' = [items EXCEPT ![t] = r] /\ edges' = edges \cup {<<t, d>> : d \in D}
      /\ UNCHANGED dispatch
      /\ r.used /\ r.by \subseteq Made
      /\ \A d \in r.by : <<t, d>> \in edges \/ d \in D
  BY DEF RowGiven
<1>0. BoardTypes /\ EdgesKept
  BY DEF BoardInv
<1>1. /\ items' \in [Items -> ItemRow] /\ items'[t] = r
      /\ \A s \in Items \ {t} : items'[s] = items[s]
  BY <1>g, <1>0, Assigned DEF BoardTypes
<1>2. t \in Made' /\ Made' = Made \cup {t}
  BY <1>g, <1>0, <1>1 DEF Made, BoardTypes
<1>3. EdgesKept'
  <2>1. edges' \subseteq Made' \X Made'
    BY <1>g, <1>0, <1>2 DEF EdgesKept
  <2>2. \A s \in Items : /\ items'[s].by \subseteq Made'
                         /\ s \notin Made' => items'[s].shown = "pending"
                         /\ s \in Made' => \A d \in items'[s].by : <<s, d>> \in edges'
    BY <1>g, <1>0, <1>1, <1>2 DEF EdgesKept
  <2>3. \A d \in BoardDispatches : dispatch'[d].phase \in {"launching", "working"} => dispatch'[d].item \in Made'
    BY <1>g, <1>0, <1>2 DEF EdgesKept
  <2> QED BY <2>1, <2>2, <2>3 DEF EdgesKept
<1>4. BoardWhole /\ (\A d \in Items : <<t, d>> \in edges \/ d \in D => d \in r.by) =>
        \A s, d \in Items : <<s, d>> \in edges' => d \in items'[s].by
  BY <1>g, <1>1 DEF BoardWhole
<1>5. dispatch' \in [BoardDispatches -> DispatchRow] /\ edges \subseteq edges'
  BY <1>g, <1>0 DEF BoardTypes
<1> QED BY <1>1, <1>2, <1>3, <1>4, <1>5 DEF RowTaken

LEMMA WrittenNext ==
  ASSUME BoardTypes, NEW u \in BoardUsers, EditSound(editing[u]), editing[u].pc # "idle",
         editing[u].item \in Made'
  PROVE  LET q == AfterWrite(u)
         IN  /\ q \in EditRow /\ q.pc \in {"idle", "target"}
             /\ q.pc = "target" => /\ q.item = editing[u].item /\ q.ask = editing[u].ask
                                   /\ q.ask.blocks # {}
<1>1. editing[u] \in EditRow
  BY DEF BoardTypes
<1>2. CASE editing[u].ask.blocks = {}
  BY <1>2, BoardRows DEF AfterWrite
<1>3. CASE editing[u].ask.blocks # {}
  <2>1. PICK e \in EditRow : e = editing[u]
    BY <1>1
  <2>2. PICK q : q = [e EXCEPT !.pc = "target"]
    OBVIOUS
  <2>3. q \in EditRow /\ q.pc = "target" /\ q.item = e.item /\ q.ask = e.ask
    BY <2>2 DEF EditRow, EditPlace
  <2>4. AfterWrite(u) = q
    BY <1>3, <2>1, <2>2, Zenon DEF AfterWrite
  <2> QED BY <1>3, <2>1, <2>3, <2>4
<1> QED BY <1>2, <1>3

(* What a user is at after a write is sound, and whole if the edges are. *)
LEMMA WrittenSound ==
  ASSUME BoardInv, NEW u \in BoardUsers, editing[u].pc # "idle", NEW q \in EditRow,
         q.pc \in {"idle", "target"}, editing[u].item \in Made', Made \subseteq Made',
         q.pc = "target" => q.item = editing[u].item /\ q.ask = editing[u].ask /\ q.ask.blocks # {},
         BoardWhole => edges' \subseteq WithAsk(editing[u].item, editing[u].ask, edges)
  PROVE  EditSound(q)' /\ (BoardWhole => EditWhole(q)' /\ ~Cyclic(edges'))
<1>0. BoardTypes /\ EditSound(editing[u])
  BY DEF BoardInv
<1>1. EditSound(q)'
  <2>1. /\ editing[u].item \in Items
        /\ editing[u].ask.by \subseteq Made' /\ editing[u].ask.blocks \subseteq Made'
    BY <1>0 DEF EditSound
  <2> QED BY <2>1 DEF EditSound
<1>2. ASSUME BoardWhole PROVE EditWhole(q)' /\ ~Cyclic(edges')
  <2>1. ~Cyclic(WithAsk(editing[u].item, editing[u].ask, edges))
    BY <1>2 DEF BoardWhole, EditWhole
  <2>2. WithAsk(editing[u].item, editing[u].ask, edges') \subseteq WithAsk(editing[u].item, editing[u].ask, edges)
    BY <1>2 DEF WithAsk
  <2>3. ~Cyclic(WithAsk(editing[u].item, editing[u].ask, edges')) /\ ~Cyclic(edges')
    BY <1>2, <2>1, <2>2, CyclicGrows
  <2>4. q.pc = "target" => ~Cyclic(WithAsk(q.item, q.ask, edges))'
    BY <2>3
  <2> QED BY <2>3, <2>4 DEF EditWhole
<1> QED BY <1>1, <1>2

LEMMA OnlyAtStatus ==
  ASSUME BoardWhole, NEW u \in BoardUsers, editing[u].pc # "idle"
  PROVE  /\ editing[u].pc # "status" => \A t \in Items : items[t].status = StatusOf(items[t].shown)
         /\ \A t \in Items \ {editing[u].item} : items[t].status = StatusOf(items[t].shown)
BY DEF BoardWhole, OneAtWork

LEMMA InsertStep ==
  ASSUME BoardInv, NEW u \in BoardUsers, BoardInsert(u)
  PROVE  BoardInv'
<1>0. BoardTypes /\ EdgesKept /\ EditSound(editing[u]) /\ editing[u] \in EditRow
  BY DEF BoardInv, BoardTypes
<1>1. editing[u].pc = "insert" /\ UNCHANGED <<dispatch, owners, overlap>>
  BY DEF BoardInsert
<1>t. PICK t \in Items : t = editing[u].item
  BY <1>0, <1>1 DEF EditSound
<1>a. PICK ask : ask = editing[u].ask
  OBVIOUS
<1>2. ask \in AskRow /\ ask.by \subseteq Made
  BY <1>0, <1>1, <1>a DEF EditSound, EditRow
<1>3. owners' \in [Items -> SUBSET Members]
  BY <1>0, <1>1 DEF BoardTypes
<1>4. CASE items[t].used
  <2>q. PICK q : q = IF NextId \in Items /\ Acceptable(NextId, ask)
                     THEN [editing[u] EXCEPT !.item = NextId] ELSE AtRest
    OBVIOUS
  <2>1. editing' = [editing EXCEPT ![u] = q] /\ items' = items /\ edges' = edges
    BY <1>4, <1>t, <1>a, <2>q, Zenon DEF BoardInsert
  <2>2. Made' = Made /\ EdgesKept'
    BY <1>0, <1>1, <2>1 DEF EdgesKept, Made
  <2>3. /\ items' \in [Items -> ItemRow] /\ edges \subseteq edges'
        /\ dispatch' \in [BoardDispatches -> DispatchRow]
    BY <1>0, <1>1, <2>1 DEF BoardTypes
  <2>4. q \in EditRow /\ EditSound(q)' /\ q.pc # "status" /\ (BoardWhole => EditWhole(q)')
    <3>1. CASE NextId \in Items /\ Acceptable(NextId, ask)
      <4>n. PICK n \in Items : n = NextId
        BY <3>1
      <4>1. q = [editing[u] EXCEPT !.item = n]
        BY <3>1, <2>q, <4>n, Zenon
      <4>2. q \in EditRow /\ q.pc = "insert" /\ q.item = n /\ q.ask = ask
        <5>1. PICK e \in EditRow : e = editing[u]
          BY <1>0
        <5>2. LET x == [e EXCEPT !.item = n]
              IN  x \in EditRow /\ x.pc = e.pc /\ x.item = n /\ x.ask = e.ask /\ x.copy = e.copy
          BY EditRenumbered
        <5> QED BY <1>1, <1>a, <4>1, <5>1, <5>2, Zenon
      <4>3. EditSound(q)'
        BY <2>2, <3>1, <4>2 DEF EditSound, Acceptable
      <4>4. ASSUME BoardWhole PROVE EditWhole(q)'
        <5>1. ~Cyclic(WithAsk(n, ask, edges))
          BY <3>1, <4>n, <4>4, AcceptableSafe
        <5>2. ~Cyclic(WithAsk(q.item, q.ask, edges))'
          BY <2>1, <4>2, <5>1
        <5> QED BY <4>2, <5>2 DEF EditWhole
      <4> QED BY <4>2, <4>3, <4>4
    <3>2. CASE ~(NextId \in Items /\ Acceptable(NextId, ask))
      <4>1. q = AtRest
        BY <3>2, <2>q, Zenon
      <4> QED BY <4>1, BoardRows DEF EditSound, EditWhole
    <3> QED BY <3>1, <3>2
  <2>5. ASSUME ~overlap' PROVE BoardWhole'
    <3>1. BoardWhole
      BY <1>1, <2>5 DEF BoardInv
    <3>2. \A s \in Items : items'[s].status = StatusOf(items'[s].shown)
      BY <1>1, <2>1, <3>1, OnlyAtStatus
    <3>3. /\ \A s \in Items : \A w \in owners'[s] : Current(s, w)'
          /\ \A s, d \in Items : <<s, d>> \in edges' => d \in items'[s].by
          /\ ~Cyclic(edges')
      BY <1>1, <2>1, <3>1 DEF BoardWhole, Current
    <3> QED BY <1>1, <2>1, <2>4, <3>1, <3>2, <3>3, WholeMoves
  <2> QED BY <1>3, <2>1, <2>2, <2>3, <2>4, <2>5, EditMoves
<1>5. CASE ~items[t].used
  <2>r. PICK r : r = [Unused EXCEPT !.used = TRUE, !.by = ask.by]
    OBVIOUS
  <2>1. r \in ItemRow /\ r.used /\ r.shown = "pending" /\ r.status = "queued" /\ r.by = ask.by
    BY <1>2, <2>r, BoardRows DEF ItemRow, Unused, Made, AskRow
  <2>q. PICK q : q = AfterWrite(u)
    OBVIOUS
  <2>2. /\ items' = [items EXCEPT ![t] = r] /\ edges' = edges \cup {<<t, d>> : d \in ask.by}
        /\ editing' = [editing EXCEPT ![u] = q]
    BY <1>5, <1>t, <1>a, <2>r, <2>q, Zenon DEF BoardInsert
  <2>3. /\ items' \in [Items -> ItemRow] /\ items'[t] = r
        /\ \A s \in Items \ {t} : items'[s] = items[s]
        /\ t \in Made' /\ Made \subseteq Made' /\ edges \subseteq edges' /\ EdgesKept'
        /\ dispatch' \in [BoardDispatches -> DispatchRow]
        /\ BoardWhole /\ (\A d \in Items : <<t, d>> \in edges \/ d \in ask.by => d \in r.by) =>
             \A s, d \in Items : <<s, d>> \in edges' => d \in items'[s].by
    <3>1. RowGiven(t, r, ask.by)
      BY <1>1, <1>2, <2>1, <2>2 DEF RowGiven
    <3>2. t \in Items /\ r \in ItemRow /\ ask.by \in SUBSET Made
      BY <1>1, <1>2, <2>1, <2>2 DEF Made
    <3>3. RowTaken(t, r, ask.by)
      BY <3>1, <3>2, RowWritten, Zenon
    <3> QED BY <3>3, Zenon DEF RowTaken
  <2>4. /\ q \in EditRow /\ q.pc \in {"idle", "target"}
        /\ q.pc = "target" => /\ q.item = editing[u].item /\ q.ask = editing[u].ask
                              /\ q.ask.blocks # {}
    BY <1>0, <1>1, <1>t, <2>3, <2>q, WrittenNext
  <2>5. edges' \subseteq WithAsk(t, ask, edges)
    BY <2>2 DEF WithAsk
  <2>6. EditSound(q)' /\ (BoardWhole => EditWhole(q)' /\ ~Cyclic(edges'))
    BY <1>1, <1>t, <1>a, <2>3, <2>4, <2>5, WrittenSound
  <2>7. ASSUME ~overlap' PROVE BoardWhole'
    <3>1. BoardWhole
      BY <1>1, <2>7 DEF BoardInv
    <3>2. \A d \in Items : <<t, d>> \in edges \/ d \in ask.by => d \in r.by
      BY <1>0, <1>5, <2>1 DEF EdgesKept, Made
    <3>3. \A s \in Items : items'[s].status = StatusOf(items'[s].shown)
      BY <1>1, <2>1, <2>3, <3>1, OnlyAtStatus, StatusAgrees
    <3>4. \A s \in Items : \A w \in owners'[s] : Current(s, w)'
      <4>1. \A w \in owners[t] : FALSE
        BY <1>0, <1>5, <3>1 DEF EdgesKept, Made, BoardWhole, Current
      <4>2. \A s \in Items : \A w \in owners[s] : Current(s, w)
        BY <3>1 DEF BoardWhole
      <4>3. owners' = owners
        BY <1>1
      <4> QED BY <4>1, <4>2, <4>3, <2>3 DEF Current
    <3> QED BY <1>1, <2>2, <2>3, <2>4, <2>6, <3>1, <3>2, <3>3, <3>4, WholeMoves
  <2> QED BY <1>3, <2>2, <2>3, <2>4, <2>6, <2>7, EditMoves
<1> QED BY <1>4, <1>5

LEMMA DetailsStep ==
  ASSUME BoardInv, NEW u \in BoardUsers, BoardDetails(u)
  PROVE  BoardInv'
<1>0. BoardTypes /\ EdgesKept /\ EditSound(editing[u]) /\ editing[u] \in EditRow
  BY DEF BoardInv, BoardTypes
<1>1. editing[u].pc = "details" /\ UNCHANGED <<dispatch, overlap>>
  BY DEF BoardDetails
<1>t. PICK t \in Items : t = editing[u].item
  BY <1>0, <1>1 DEF EditSound
<1>a. PICK ask : ask = editing[u].ask
  OBVIOUS
<1>c. PICK c : c = editing[u].copy
  OBVIOUS
<1>2. /\ ask \in AskRow /\ ask.by \subseteq Made /\ c \in ItemRow /\ c.by \subseteq Made
      /\ t \in Made /\ \A d \in c.by : <<t, d>> \in edges \/ d \in ask.by
  BY <1>0, <1>1, <1>t, <1>a, <1>c DEF EditSound, EditRow
<1>r. PICK r : r = [items[t] EXCEPT !.shown = c.shown, !.who = c.who, !.by = c.by]
  OBVIOUS
<1>3. /\ r \in ItemRow /\ r.used /\ r.status = items[t].status
      /\ r.shown = c.shown /\ r.who = c.who /\ r.by = c.by
  <2>1. items[t] \in ItemRow /\ items[t].used
    BY <1>0, <1>2 DEF BoardTypes, Made
  <2> QED BY <1>2, <1>r, <2>1 DEF ItemRow
<1>4. items' = [items EXCEPT ![t] = r] /\ edges' = edges \cup {<<t, d>> : d \in ask.by}
  BY <1>t, <1>a, <1>c, <1>r, Zenon DEF BoardDetails
<1>5. /\ items' \in [Items -> ItemRow] /\ items'[t] = r
      /\ \A s \in Items \ {t} : items'[s] = items[s]
      /\ t \in Made' /\ Made \subseteq Made' /\ edges \subseteq edges' /\ EdgesKept'
      /\ dispatch' \in [BoardDispatches -> DispatchRow]
      /\ BoardWhole /\ (\A d \in Items : <<t, d>> \in edges \/ d \in ask.by => d \in r.by) =>
           \A s, d \in Items : <<s, d>> \in edges' => d \in items'[s].by
  <2>1. RowGiven(t, r, ask.by)
    BY <1>1, <1>2, <1>3, <1>4 DEF RowGiven
  <2>2. t \in Items /\ r \in ItemRow /\ ask.by \in SUBSET Made
    BY <1>1, <1>2, <1>3, <1>4 DEF Made
  <2>3. RowTaken(t, r, ask.by)
    BY <2>1, <2>2, RowWritten, Zenon
  <2> QED BY <2>3, Zenon DEF RowTaken
<1>6. /\ owners' \in [Items -> SUBSET Members]
      /\ owners' = IF ask.status = "same" /\ ask.who = {} THEN owners ELSE [owners EXCEPT ![t] = {}]
  <2>1. owners' = IF ask.status = "same" /\ ask.who = {} THEN owners ELSE [owners EXCEPT ![t] = {}]
    BY <1>t, <1>a, Zenon DEF BoardDetails
  <2> QED BY <1>0, <2>1 DEF BoardTypes
<1>q. PICK q : q = IF ask.status = "same" THEN AfterWrite(u) ELSE [editing[u] EXCEPT !.pc = "status"]
  OBVIOUS
<1>7. editing' = [editing EXCEPT ![u] = q]
  BY <1>a, <1>q, Zenon DEF BoardDetails
<1>8. edges' \subseteq WithAsk(t, ask, edges)
  BY <1>4 DEF WithAsk
<1>9. /\ q \in EditRow /\ EditSound(q)' /\ (BoardWhole => EditWhole(q)' /\ ~Cyclic(edges'))
      /\ ask.status # "same" => q.pc = "status" /\ q.item = t
  <2>1. CASE ask.status = "same"
    <3>1. /\ q \in EditRow /\ q.pc \in {"idle", "target"}
          /\ q.pc = "target" => /\ q.item = editing[u].item /\ q.ask = editing[u].ask
                                /\ q.ask.blocks # {}
      <4>1. q = AfterWrite(u)
        BY <1>q, <2>1
      <4> QED BY <1>0, <1>1, <1>t, <1>5, <4>1, WrittenNext
    <3>2. EditSound(q)' /\ (BoardWhole => EditWhole(q)' /\ ~Cyclic(edges'))
      BY <1>1, <1>t, <1>a, <1>5, <1>8, <3>1, WrittenSound
    <3> QED BY <2>1, <3>1, <3>2
  <2>2. CASE ask.status # "same"
    <3>1. q \in EditRow /\ q.pc = "status" /\ q.item = t /\ q.ask = ask
      <4>1. PICK e \in EditRow : e = editing[u]
        BY <1>0
      <4>2. q = [e EXCEPT !.pc = "status"]
        BY <1>q, <2>2, <4>1, Zenon
      <4> QED BY <1>t, <1>a, <4>1, <4>2 DEF EditRow, EditPlace
    <3>2. EditSound(q)'
      <4>1. editing[u].ask.blocks \subseteq Made' /\ ask.by \subseteq Made'
        BY <1>0, <1>1, <1>2, <1>5 DEF EditSound
      <4> QED BY <1>a, <1>5, <2>2, <3>1, <4>1 DEF EditSound
    <3>3. ASSUME BoardWhole PROVE EditWhole(q)' /\ ~Cyclic(edges')
      <4>1. ~Cyclic(WithAsk(t, ask, edges)) /\ c.shown = ask.status
        BY <1>1, <1>t, <1>a, <1>c, <2>2, <3>3 DEF BoardWhole, EditWhole
      <4>2. WithAsk(t, ask, edges') \subseteq WithAsk(t, ask, edges)
        BY <1>8 DEF WithAsk
      <4>3. ~Cyclic(WithAsk(t, ask, edges')) /\ ~Cyclic(edges')
        BY <1>8, <4>1, <4>2, CyclicGrows
      <4>4. ~Cyclic(WithAsk(q.item, q.ask, edges))'
        BY <3>1, <4>3
      <4>5. items'[t].shown = ask.status
        BY <1>3, <1>5, <4>1
      <4> QED BY <3>1, <4>3, <4>4, <4>5 DEF EditWhole
    <3> QED BY <3>1, <3>2, <3>3
  <2> QED BY <2>1, <2>2
<1>10. ASSUME ~overlap' PROVE BoardWhole'
  <2>1. BoardWhole
    BY <1>1, <1>10 DEF BoardInv
  <2>2. /\ c.by = items[t].by \cup ask.by
        /\ ask.status = "same" => c.shown = items[t].shown
        /\ ask.who = {} => c.who = items[t].who
    BY <1>1, <1>t, <1>a, <1>c, <2>1 DEF BoardWhole, EditWhole
  <2>3. \A d \in Items : <<t, d>> \in edges \/ d \in ask.by => d \in r.by
    BY <1>3, <2>1, <2>2 DEF BoardWhole
  <2>4. \A s \in Items : items'[s].status = StatusOf(items'[s].shown) \/ (q.pc = "status" /\ q.item = s)
    <3>1. \A s \in Items : items[s].status = StatusOf(items[s].shown)
      BY <1>1, <2>1, OnlyAtStatus
    <3> QED BY <1>3, <1>5, <1>9, <2>2, <3>1
  <2>5. \A s \in Items : \A w \in owners'[s] : Current(s, w)'
    <3>1. \A s \in Items : \A w \in owners[s] : items[s].shown = "in_progress" /\ items[s].who = w
      BY <2>1 DEF BoardWhole, Current
    <3>2. \A s \in Items : \A w \in owners'[s] : items'[s].shown = "in_progress" /\ items'[s].who = w
      <4>1. CASE ask.status = "same" /\ ask.who = {}
        BY <1>3, <1>5, <1>6, <2>2, <3>1, <4>1
      <4>2. CASE ~(ask.status = "same" /\ ask.who = {})
        <5>1. owners'[t] = {} /\ \A s \in Items \ {t} : owners'[s] = owners[s]
          BY <1>0, <1>6, <4>2 DEF BoardTypes
        <5> QED BY <1>5, <3>1, <5>1
      <4> QED BY <4>1, <4>2
    <3> QED BY <3>2 DEF Current
  <2> QED BY <1>1, <1>5, <1>7, <1>9, <2>1, <2>3, <2>4, <2>5, WholeMoves
<1> QED BY <1>5, <1>6, <1>7, <1>9, <1>10, EditMoves

LEMMA StatusStep ==
  ASSUME BoardInv, NEW u \in BoardUsers, BoardStatus(u)
  PROVE  BoardInv'
<1>0. BoardTypes /\ EdgesKept /\ EditSound(editing[u]) /\ editing[u] \in EditRow
  BY DEF BoardInv, BoardTypes
<1>1. editing[u].pc = "status" /\ UNCHANGED <<dispatch, edges, owners, overlap>>
  BY DEF BoardStatus
<1>t. PICK t \in Items : t = editing[u].item
  BY <1>0, <1>1 DEF EditSound
<1>a. PICK ask : ask = editing[u].ask
  OBVIOUS
<1>s. PICK s : s = ask.status
  OBVIOUS
<1>2. s \in {"pending", "completed"} /\ t \in Made
  BY <1>0, <1>1, <1>t, <1>a, <1>s DEF EditSound, EditRow, AskRow
<1>r. PICK r : r = [items[t] EXCEPT !.shown = s, !.status = StatusOf(s)]
  OBVIOUS
<1>3. /\ r \in ItemRow /\ r.used /\ r.status = StatusOf(s) /\ r.shown = s
      /\ r.who = items[t].who /\ r.by = items[t].by
  <2>1. items[t] \in ItemRow /\ items[t].used
    BY <1>0, <1>2 DEF BoardTypes, Made
  <2>2. StatusOf(s) \in {"queued", "running", "succeeded"}
    BY DEF StatusOf
  <2> QED BY <1>2, <1>r, <2>1, <2>2 DEF ItemRow
<1>d. PICK D \in SUBSET Made : D = {}
  OBVIOUS
<1>4. items' = [items EXCEPT ![t] = r] /\ edges' = edges \cup {<<t, d>> : d \in D}
  <2>1. items' = [items EXCEPT ![t] = r]
    BY <1>t, <1>a, <1>s, <1>r, Zenon DEF BoardStatus
  <2> QED BY <1>1, <1>d, <2>1
<1>5. r.by \subseteq Made /\ \A d \in r.by : <<t, d>> \in edges \/ d \in D
  BY <1>0, <1>2, <1>3 DEF EdgesKept
<1>6. /\ items' \in [Items -> ItemRow] /\ items'[t] = r
      /\ \A x \in Items \ {t} : items'[x] = items[x]
      /\ t \in Made' /\ Made \subseteq Made' /\ edges \subseteq edges' /\ EdgesKept'
      /\ dispatch' \in [BoardDispatches -> DispatchRow]
      /\ BoardWhole /\ (\A d \in Items : <<t, d>> \in edges \/ d \in D => d \in r.by) =>
           \A x, d \in Items : <<x, d>> \in edges' => d \in items'[x].by
  <2>1. RowGiven(t, r, D)
    BY <1>1, <1>3, <1>4, <1>5 DEF RowGiven
  <2>2. t \in Items /\ r \in ItemRow /\ D \in SUBSET Made
    BY <1>1, <1>3, <1>4, <1>5 DEF Made
  <2>3. RowTaken(t, r, D)
    BY <2>1, <2>2, RowWritten, Zenon
  <2> QED BY <2>3, Zenon DEF RowTaken
<1>q. PICK q : q = AfterWrite(u)
  OBVIOUS
<1>7. editing' = [editing EXCEPT ![u] = q]
  BY <1>q, Zenon DEF BoardStatus
<1>8. /\ q \in EditRow /\ q.pc \in {"idle", "target"}
      /\ q.pc = "target" => /\ q.item = editing[u].item /\ q.ask = editing[u].ask
                            /\ q.ask.blocks # {}
  BY <1>0, <1>1, <1>t, <1>6, <1>q, WrittenNext
<1>9. EditSound(q)' /\ (BoardWhole => EditWhole(q)' /\ ~Cyclic(edges'))
  <2>1. edges' \subseteq WithAsk(editing[u].item, editing[u].ask, edges)
    BY <1>1 DEF WithAsk
  <2> QED BY <1>1, <1>t, <1>6, <1>8, <2>1, WrittenSound
<1>10. ASSUME ~overlap' PROVE BoardWhole'
  <2>1. BoardWhole
    BY <1>1, <1>10 DEF BoardInv
  <2>2. items[t].shown = s
    BY <1>1, <1>t, <1>a, <1>s, <2>1 DEF BoardWhole, EditWhole
  <2>3. \A d \in Items : <<t, d>> \in edges \/ d \in D => d \in r.by
    BY <1>d, <1>3, <2>1 DEF BoardWhole
  <2>4. \A x \in Items : items'[x].status = StatusOf(items'[x].shown)
    BY <1>1, <1>t, <1>3, <1>6, <2>1, OnlyAtStatus
  <2>5. \A x \in Items : \A w \in owners'[x] : Current(x, w)'
    <3>1. \A x \in Items : \A w \in owners[x] : Current(x, w)
      BY <2>1 DEF BoardWhole
    <3> QED BY <1>1, <1>3, <1>6, <2>2, <3>1 DEF Current
  <2> QED BY <1>1, <1>6, <1>7, <1>8, <1>9, <2>1, <2>3, <2>4, <2>5, WholeMoves
<1>11. owners' \in [Items -> SUBSET Members]
  BY <1>0, <1>1 DEF BoardTypes
<1> QED BY <1>6, <1>7, <1>8, <1>9, <1>10, <1>11, EditMoves

LEMMA TargetStep ==
  ASSUME BoardInv, NEW u \in BoardUsers, BoardTarget(u)
  PROVE  BoardInv'
<1>0. BoardTypes /\ EdgesKept /\ EditSound(editing[u]) /\ editing[u] \in EditRow
  BY DEF BoardInv, BoardTypes
<1>1. editing[u].pc = "target" /\ UNCHANGED <<items, edges, dispatch, owners, overlap>>
  BY DEF BoardTarget
<1>t. PICK t \in Made : t = editing[u].item
  BY <1>0, <1>1 DEF EditSound
<1>e. PICK e \in EditRow : e = editing[u]
  BY <1>0
<1>b. PICK b : b = LinkTarget(e)
  OBVIOUS
<1>2. b \in e.ask.blocks /\ b \in Made /\ b \in Items
  <2>1. e.ask.blocks # {} /\ e.ask.blocks \subseteq Made
    BY <1>0, <1>1, <1>e DEF EditSound
  <2>2. b \in e.ask.blocks
    BY <1>b, <2>1 DEF LinkTarget
  <2> QED BY <2>1, <2>2 DEF Made
<1>c. PICK c : c = [items[b] EXCEPT !.by = @ \cup {t}]
  OBVIOUS
<1>3. c \in ItemRow /\ c.by = items[b].by \cup {t} /\ c.shown = items[b].shown /\ c.who = items[b].who
  <2>1. items[b] \in ItemRow /\ t \in Items
    BY <1>0, <1>2 DEF BoardTypes, Made
  <2> QED BY <1>c, <2>1 DEF ItemRow
<1>q. PICK q : q = [e EXCEPT !.pc = "link", !.copy = c]
  OBVIOUS
<1>4. editing' = [editing EXCEPT ![u] = q]
  BY <1>t, <1>e, <1>b, <1>c, <1>q, Zenon DEF BoardTarget
<1>5. q \in EditRow /\ q.pc = "link" /\ q.item = e.item /\ q.ask = e.ask /\ q.copy = c
  <2>1. LET x == [e EXCEPT !.pc = "link", !.copy = c]
        IN  x \in EditRow /\ x.pc = "link" /\ x.item = e.item /\ x.ask = e.ask /\ x.copy = c
    BY <1>3, EditCopied
  <2> QED BY <1>q, <2>1, Zenon
<1>6. LinkTarget(q) = b
  BY <1>b, <1>5 DEF LinkTarget
<1>7. Made' = Made /\ EdgesKept'
  BY <1>0, <1>1 DEF EdgesKept, Made
<1>8. EditSound(q)'
  <2>1. /\ q.item \in Items /\ q.item \in Made' /\ q.ask.by \subseteq Made' /\ q.ask.blocks \subseteq Made'
        /\ q.ask.blocks # {}
    BY <1>0, <1>1, <1>e, <1>5, <1>7 DEF EditSound
  <2>2. q.copy.by \subseteq Made' /\ \A d \in q.copy.by : <<b, d>> \in edges' \/ d = q.item
    BY <1>0, <1>1, <1>t, <1>e, <1>2, <1>3, <1>5, <1>7 DEF EdgesKept
  <2>3. LinkTarget(q)' = b
    BY <1>6 DEF LinkTarget
  <2> QED BY <1>5, <2>1, <2>2, <2>3 DEF EditSound
<1>9. ASSUME ~overlap' PROVE BoardWhole'
  <2>1. BoardWhole
    BY <1>1, <1>9 DEF BoardInv
  <2>2. EditWhole(q)'
    <3>1. ~Cyclic(WithAsk(e.item, e.ask, edges))
      BY <1>1, <1>e, <2>1 DEF BoardWhole, EditWhole
    <3>2. ~Cyclic(WithAsk(q.item, q.ask, edges))'
      BY <1>1, <1>5, <3>1
    <3>3. LinkTarget(q)' = b
      BY <1>6 DEF LinkTarget
    <3>4. q.copy.by = items'[b].by \cup {q.item} /\ SameItem(q.copy, items'[b])
      BY <1>1, <1>t, <1>e, <1>3, <1>5 DEF SameItem
    <3> QED BY <1>5, <3>2, <3>3, <3>4 DEF EditWhole, SameItem
  <2>3. \A s \in Items : items'[s].status = StatusOf(items'[s].shown)
    BY <1>1, <2>1, OnlyAtStatus
  <2>4. /\ \A s \in Items : \A w \in owners'[s] : Current(s, w)'
        /\ \A s, d \in Items : <<s, d>> \in edges' => d \in items'[s].by
        /\ ~Cyclic(edges')
    BY <1>1, <2>1 DEF BoardWhole, Current
  <2> QED BY <1>1, <1>4, <1>5, <2>1, <2>2, <2>3, <2>4, WholeMoves
<1>10. /\ items' \in [Items -> ItemRow] /\ owners' \in [Items -> SUBSET Members] /\ edges \subseteq edges'
       /\ dispatch' \in [BoardDispatches -> DispatchRow]
  BY <1>0, <1>1 DEF BoardTypes
<1> QED BY <1>4, <1>5, <1>7, <1>8, <1>9, <1>10, EditMoves

LEMMA LinkStep ==
  ASSUME BoardInv, NEW u \in BoardUsers, BoardLink(u)
  PROVE  BoardInv'
<1>0. BoardTypes /\ EdgesKept /\ EditSound(editing[u]) /\ editing[u] \in EditRow
  BY DEF BoardInv, BoardTypes
<1>1. editing[u].pc = "link" /\ UNCHANGED <<dispatch, owners, overlap>>
  BY DEF BoardLink
<1>t. PICK t \in Made : t = editing[u].item
  BY <1>0, <1>1 DEF EditSound
<1>b. PICK b : b = LinkTarget(editing[u])
  OBVIOUS
<1>c. PICK c : c = editing[u].copy
  OBVIOUS
<1>2. b \in editing[u].ask.blocks /\ b \in Made /\ b \in Items
  <2>1. editing[u].ask.blocks # {} /\ editing[u].ask.blocks \subseteq Made
    BY <1>0, <1>1 DEF EditSound
  <2>2. b \in editing[u].ask.blocks
    BY <1>b, <2>1 DEF LinkTarget
  <2> QED BY <2>1, <2>2 DEF Made
<1>3. c \in ItemRow /\ c.by \subseteq Made /\ \A d \in c.by : <<b, d>> \in edges \/ d = t
  BY <1>0, <1>1, <1>t, <1>b, <1>c DEF EditSound, EditRow
<1>r. PICK r : r = [items[b] EXCEPT !.shown = c.shown, !.who = c.who, !.by = c.by]
  OBVIOUS
<1>4. /\ r \in ItemRow /\ r.used /\ r.status = items[b].status
      /\ r.shown = c.shown /\ r.who = c.who /\ r.by = c.by
  <2>1. items[b] \in ItemRow /\ items[b].used
    BY <1>0, <1>2 DEF BoardTypes, Made
  <2> QED BY <1>3, <1>r, <2>1 DEF ItemRow
<1>d. PICK D \in SUBSET Made : D = {t}
  OBVIOUS
<1>5. items' = [items EXCEPT ![b] = r] /\ edges' = edges \cup {<<b, d>> : d \in D}
      /\ editing' = [editing EXCEPT ![u] = AtRest]
  <2>1. items' = [items EXCEPT ![b] = r]
    BY <1>b, <1>c, <1>r, Zenon DEF BoardLink
  <2>2. edges' = edges \cup {<<b, t>>}
    BY <1>t, <1>b, Zenon DEF BoardLink
  <2>3. {<<b, d>> : d \in D} = {<<b, t>>}
    BY <1>d
  <2> QED BY <2>1, <2>2, <2>3 DEF BoardLink
<1>6. /\ items' \in [Items -> ItemRow] /\ items'[b] = r
      /\ \A s \in Items \ {b} : items'[s] = items[s]
      /\ b \in Made' /\ Made \subseteq Made' /\ edges \subseteq edges' /\ EdgesKept'
      /\ dispatch' \in [BoardDispatches -> DispatchRow]
      /\ BoardWhole /\ (\A d \in Items : <<b, d>> \in edges \/ d \in D => d \in r.by) =>
           \A s, d \in Items : <<s, d>> \in edges' => d \in items'[s].by
  <2>1. RowGiven(b, r, D)
    BY <1>d, <1>1, <1>2, <1>3, <1>4, <1>5 DEF RowGiven
  <2>2. b \in Items /\ r \in ItemRow /\ D \in SUBSET Made
    BY <1>d, <1>1, <1>2, <1>3, <1>4, <1>5 DEF Made
  <2>3. RowTaken(b, r, D)
    BY <2>1, <2>2, RowWritten, Zenon
  <2> QED BY <2>3, Zenon DEF RowTaken
<1>q. PICK q \in EditRow : q = AtRest /\ q.pc = "idle"
  BY BoardRows
<1>7. EditSound(q)' /\ (BoardWhole => EditWhole(q)' /\ ~Cyclic(edges'))
  <2>1. edges' \subseteq WithAsk(editing[u].item, editing[u].ask, edges)
    BY <1>d, <1>t, <1>2, <1>5 DEF WithAsk
  <2> QED BY <1>1, <1>t, <1>q, <1>6, <2>1, WrittenSound
<1>8. ASSUME ~overlap' PROVE BoardWhole'
  <2>1. BoardWhole
    BY <1>1, <1>8 DEF BoardInv
  <2>2. c.by = items[b].by \cup {t} /\ c.shown = items[b].shown /\ c.who = items[b].who
    BY <1>1, <1>t, <1>b, <1>c, <2>1 DEF BoardWhole, EditWhole, SameItem
  <2>3. \A d \in Items : <<b, d>> \in edges \/ d \in D => d \in r.by
    BY <1>d, <1>2, <1>4, <2>1, <2>2 DEF BoardWhole
  <2>4. \A s \in Items : items'[s].status = StatusOf(items'[s].shown)
    BY <1>1, <1>4, <1>6, <2>1, <2>2, OnlyAtStatus
  <2>5. \A s \in Items : \A w \in owners'[s] : Current(s, w)'
    <3>1. \A s \in Items : \A w \in owners[s] : Current(s, w)
      BY <2>1 DEF BoardWhole
    <3> QED BY <1>1, <1>4, <1>6, <2>2, <3>1 DEF Current
  <2> QED BY <1>1, <1>q, <1>5, <1>6, <1>7, <2>1, <2>3, <2>4, <2>5, WholeMoves
<1>9. owners' \in [Items -> SUBSET Members]
  BY <1>0, <1>1 DEF BoardTypes
<1> QED BY <1>q, <1>5, <1>6, <1>7, <1>8, <1>9, EditMoves

LEMMA BoardInvNext == BoardInv /\ [BoardNext]_boardVars => BoardInv'
<1> SUFFICES ASSUME BoardInv, [BoardNext]_boardVars PROVE BoardInv'
  OBVIOUS
<1>1. ASSUME NEW u \in Members \cup {Lead}, BoardStep(u) PROVE BoardInv'
  BY <1>1, InsertStep, DetailsStep, StatusStep, TargetStep, LinkStep, Zenon DEF BoardStep, BoardUsers
<1>2. ASSUME NEW u \in Members \cup {Lead}, NEW t \in Items, BoardClaim(u, t) PROVE BoardInv'
  BY <1>2, ClaimStep DEF BoardUsers
<1>3. ASSUME NEW u \in Members \cup {Lead}, BoardCreate(u) PROVE BoardInv'
  BY <1>3, CreateStep DEF BoardUsers
<1>4. ASSUME NEW u \in Members \cup {Lead}, NEW t \in Items, BoardUpdate(u, t) PROVE BoardInv'
  BY <1>4, UpdateStep DEF BoardUsers
<1>5. ASSUME NEW d \in BoardDispatches, BoardLaunched(d) PROVE BoardInv'
  BY <1>5, LaunchedStep
<1>6. ASSUME NEW d \in BoardDispatches, BoardLaunchFails(d) PROVE BoardInv'
  BY <1>6, LaunchFailsStep
<1>7. ASSUME NEW d \in BoardDispatches, NEW t \in Items, BoardDispatch(d, t) PROVE BoardInv'
  BY <1>7, DispatchStep
<1>8. ASSUME NEW d \in BoardDispatches, NEW ok \in BOOLEAN, BoardFinish(d, ok) PROVE BoardInv'
  BY <1>8, FinishStep
<1>9. CASE UNCHANGED boardVars
  <2>1. UNCHANGED <<items, edges, editing, dispatch, owners, overlap>>
    BY <1>9 DEF boardVars
  <2>2. BoardTypes'
    BY <2>1 DEF BoardInv, BoardTypes
  <2>3. EdgesKept'
    BY <2>1 DEF BoardInv, EdgesKept, Made
  <2>4. \A v \in BoardUsers : EditSound(editing[v])'
    BY <2>1 DEF BoardInv, EditSound, LinkTarget, Made
  <2>5. ~overlap' => BoardWhole'
    BY <2>1, BoardWholeKept, Zenon DEF BoardInv
  <2> QED BY <2>2, <2>3, <2>4, <2>5 DEF BoardInv
<1> QED BY <1>1, <1>2, <1>3, <1>4, <1>5, <1>6, <1>7, <1>8, <1>9, Zenon DEF BoardNext

LEMMA BoardInvGives == BoardInv => BoardTypeOK /\ BoardSound /\ OneOwner
<1> SUFFICES ASSUME BoardInv PROVE BoardTypeOK /\ BoardSound /\ OneOwner
  OBVIOUS
<1>0. BoardTypes /\ EdgesKept
  BY DEF BoardInv
<1>1. BoardTypeOK
  BY <1>0 DEF BoardTypeOK, BoardTypes, EdgesKept, ItemRow, DispatchRow
<1>2. Blocked \subseteq edges
  BY <1>0 DEF Blocked, Made, EdgesKept
<1>3. ASSUME Quiet, ~overlap
      PROVE  /\ \A t \in Items : items[t].status = StatusOf(items[t].shown)
             /\ edges = Blocked /\ ~Cyclic(edges)
             /\ \A t \in Items : \A w \in owners[t] : Current(t, w)
  <2>1. BoardWhole
    BY <1>3, Zenon DEF BoardInv
  <2>2. \A t \in Items : items[t].status = StatusOf(items[t].shown)
    BY <1>0, <1>3, <2>1 DEF BoardWhole, Quiet, BoardTypes
  <2>3. edges \subseteq Blocked
    <3> SUFFICES ASSUME NEW x \in edges PROVE x \in Blocked
      OBVIOUS
    <3>1. PICK s \in Made, d \in Made : x = <<s, d>>
      BY <1>0 DEF EdgesKept
    <3>2. d \in items[s].by
      BY <2>1, <3>1 DEF BoardWhole, Made
    <3> QED BY <3>1, <3>2 DEF Blocked
  <2> QED BY <1>2, <2>1, <2>2, <2>3 DEF BoardWhole
<1>4. ASSUME ~overlap, NEW t \in Items PROVE Cardinality(owners[t]) <= 1
  <2>1. \A w \in owners[t] : w = items[t].who
    BY <1>4, Zenon DEF BoardInv, BoardWhole, Current
  <2>2. CASE owners[t] = {}
    BY <2>2, FS_EmptySet
  <2>3. CASE owners[t] # {}
    <3>1. owners[t] = {items[t].who}
      BY <2>1, <2>3
    <3>2. Cardinality({items[t].who}) = 1
      BY FS_Singleton
    <3>3. Cardinality(owners[t]) = 1
      BY <3>1, <3>2, Zenon
    <3> QED BY <3>3
  <2> QED BY <2>2, <2>3
<1>5. BoardSound
  BY <1>2, <1>3, Zenon DEF BoardSound
<1>6. OneOwner
  BY <1>4, Zenon DEF OneOwner
<1> QED BY <1>1, <1>5, <1>6

-----------------------------------------------------------------------------
(* A worker in a pane.  Whoever has got beyond the claim file is its claimant,  *)
(* so what one process at its end has reported is not written over.  While the  *)
(* lead owns the worker a terminal report is applied once, by the pass that     *)
(* then kills; if the worker has ended by then, the member stays inactive.      *)
PaneReport == {"none", "starting", "running", "idle", "stopped", "failed"}
PaneClaimed == {"claimed", "loop", "working", "resting", "idle", "closing", "closed", "ended"}
PanePlace == {"none", "init", "checked", "refused", "killed"} \cup PaneClaimed
LeadRow == [phase : {"registered", "prepared", "launched"}, alive : BOOLEAN, team : BOOLEAN,
            owned : BOOLEAN, sees : BOOLEAN, last : PaneReport]
PollRow == [at : {"idle", "due", "read", "beat", "kill"}, saw : PaneReport]

PaneTypes ==
  /\ lead \in LeadRow /\ report \in [status : PaneReport, fresh : BOOLEAN]
  /\ claim \in Processes \cup {Nobody} /\ worker \in [Processes -> PanePlace]
  /\ active \in BOOLEAN /\ poll \in PollRow /\ begun \in [Processes -> 0 .. MaxPrompts]

ClaimantOnly ==
  \A w \in Processes :
    /\ worker[w] \in PaneClaimed \/ begun[w] > 0 => claim = w
    /\ worker[w] \in {"claimed", "loop"} => begun[w] < MaxPrompts
    /\ worker[w] \in {"closed", "ended"} => report.status \in Terminal
    /\ lead.phase = "registered" => worker[w] = "none"

LeadInOrder ==
  /\ lead.owned => lead.phase = "launched" /\ lead.team /\ lead.alive
  /\ ~lead.team => lead.phase = "launched"
  /\ lead.phase # "launched" => lead.last = "none" /\ poll.at = "idle"
  /\ poll.at # "idle" => lead.owned \/ ~lead.team
  /\ lead.owned /\ lead.last \in Terminal => poll.at = "kill"

EndedInactive ==
  (\E w \in Processes : worker[w] = "ended") =>
    /\ lead.owned /\ poll.at = "kill" => ~active
    /\ lead.alive /\ lead.team /\ ~lead.owned /\ lead.phase = "launched" => ~active

PaneInv == PaneTypes /\ ClaimantOnly /\ LeadInOrder /\ EndedInactive

LEMMA PaneInvInit == PaneInit => PaneInv
<1> SUFFICES ASSUME PaneInit PROVE PaneInv
  OBVIOUS
<1>1. PaneTypes
  BY PaneAssumption DEF PaneInit, PaneTypes, LeadRow, PollRow, PaneReport, PanePlace
<1>2. \A w \in Processes : worker[w] = "none" /\ begun[w] = 0
  BY DEF PaneInit
<1>3. ClaimantOnly
  BY <1>2 DEF ClaimantOnly, PaneClaimed
<1>4. LeadInOrder /\ EndedInactive
  BY <1>2 DEF PaneInit, LeadInOrder, EndedInactive, Terminal
<1> QED BY <1>1, <1>3, <1>4 DEF PaneInv

(* The lead or its supervisor moves; the workers go on, or are killed. *)
LEMMA LeadMoves ==
  ASSUME PaneInv, lead' \in LeadRow, poll' \in PollRow, active' \in BOOLEAN,
         claim' = claim, begun' = begun,
         report' = report \/ (lead.phase = "registered" /\ UpdateState("starting")),
         KillPane, lead'.phase = "registered" => lead.phase = "registered" /\ worker' = worker,
         LeadInOrder',
         (\E w \in Processes : worker[w] = "ended") => EndedInactive'
  PROVE  PaneInv'
<1>0. PaneTypes /\ ClaimantOnly
  BY DEF PaneInv
<1>1. /\ worker' \in [Processes -> PanePlace]
      /\ \A w \in Processes : worker'[w] = worker[w] \/ worker'[w] = "killed"
  <2>1. CASE worker' = worker
    BY <1>0, <2>1 DEF PaneTypes
  <2>2. CASE worker' = [w \in Processes |-> IF worker[w] \in PaneOver THEN worker[w] ELSE "killed"]
    BY <1>0, <2>2 DEF PaneTypes, PanePlace
  <2> QED BY <2>1, <2>2 DEF KillPane
<1>2. report' \in [status : PaneReport, fresh : BOOLEAN]
  <2>1. [status |-> "starting", fresh |-> TRUE] \in [status : PaneReport, fresh : BOOLEAN]
    BY DEF PaneReport
  <2> QED BY <1>0, <2>1, Zenon DEF PaneTypes, UpdateState
<1>3. PaneTypes'
  BY <1>0, <1>1, <1>2 DEF PaneTypes
<1>4. ClaimantOnly'
  <2> SUFFICES ASSUME NEW w \in Processes
               PROVE  /\ worker'[w] \in PaneClaimed \/ begun'[w] > 0 => claim' = w
                      /\ worker'[w] \in {"claimed", "loop"} => begun'[w] < MaxPrompts
                      /\ worker'[w] \in {"closed", "ended"} => report'.status \in Terminal
                      /\ lead'.phase = "registered" => worker'[w] = "none"
    BY DEF ClaimantOnly
  <2>1. worker'[w] \in PaneClaimed => worker[w] = worker'[w] /\ lead.phase # "registered"
    BY <1>0, <1>1 DEF ClaimantOnly, PaneClaimed
  <2>2. worker'[w] \in PaneClaimed => report' = report
    BY <2>1
  <2> QED BY <1>0, <1>1, <2>1, <2>2 DEF ClaimantOnly, PaneClaimed
<1>5. EndedInactive'
  <2>1. (\E w \in Processes : worker'[w] = "ended") => \E w \in Processes : worker[w] = "ended"
    BY <1>1
  <2> QED BY <2>1 DEF EndedInactive
<1> QED BY <1>3, <1>4, <1>5 DEF PaneInv

LEMMA StandingKills == worker' = worker => KillPane
BY DEF KillPane

LEMMA LeadSees ==
  ASSUME NEW r \in LeadRow, NEW seen \in BOOLEAN, NEW status \in PaneReport
  PROVE  LET q == [r EXCEPT !.sees = seen, !.last = status]
         IN  /\ q \in LeadRow /\ q.phase = r.phase /\ q.owned = r.owned
             /\ q.alive = r.alive /\ q.team = r.team /\ q.last = status
BY DEF LeadRow

LEMMA LeadSteps ==
  ASSUME PaneInv, \/ PanePrepare \/ PaneRegister \/ PaneSpawnFails \/ PanePoll
                  \/ PaneDeleteTeam \/ PaneClose \/ PaneLeadDies
  PROVE  PaneInv'
<1>0. /\ PaneTypes /\ ClaimantOnly /\ LeadInOrder /\ EndedInactive
      /\ lead \in LeadRow /\ poll \in PollRow /\ active \in BOOLEAN
  BY DEF PaneInv, PaneTypes
<1>1. CASE PanePrepare
  <2>1. /\ lead.phase = "registered" /\ lead' = [lead EXCEPT !.phase = "prepared"]
        /\ UpdateState("starting") /\ UNCHANGED <<claim, worker, active, poll, begun>>
    BY <1>1 DEF PanePrepare
  <2>2. lead' \in LeadRow /\ lead'.phase = "prepared" /\ lead'.owned = lead.owned
        /\ lead'.team = lead.team /\ lead'.last = lead.last
    BY <1>0, <2>1 DEF LeadRow
  <2>3. LeadInOrder'
    BY <1>0, <2>1, <2>2 DEF LeadInOrder
  <2>4. EndedInactive'
    BY <1>0, <2>1, <2>2, <2>3 DEF EndedInactive, ClaimantOnly, LeadInOrder
  <2> QED BY <1>0, <2>1, <2>2, <2>3, <2>4, StandingKills, LeadMoves, Zenon
<1>2. CASE PaneRegister
  <2>1. /\ lead.phase = "prepared" /\ lead.alive
        /\ lead' = [lead EXCEPT !.phase = "launched", !.owned = TRUE]
        /\ UNCHANGED <<report, claim, worker, active, poll, begun>>
    BY <1>2 DEF PaneRegister
  <2>2. lead' \in LeadRow /\ lead'.phase = "launched" /\ lead'.owned /\ lead'.alive
        /\ lead'.team = lead.team /\ lead'.last = lead.last
    BY <1>0, <2>1 DEF LeadRow
  <2>3. LeadInOrder'
    BY <1>0, <2>1, <2>2 DEF LeadInOrder, Terminal
  <2>4. EndedInactive'
    BY <1>0, <2>1, <2>2 DEF EndedInactive, LeadInOrder
  <2> QED BY <1>0, <2>1, <2>2, <2>3, <2>4, StandingKills, LeadMoves, Zenon
<1>3. CASE PaneSpawnFails
  <2>1. /\ lead.phase = "prepared" /\ lead' = [lead EXCEPT !.phase = "launched", !.sees = FALSE]
        /\ KillPane /\ active' = FALSE /\ UNCHANGED <<report, claim, poll, begun>>
    BY <1>3 DEF PaneSpawnFails
  <2>2. lead' \in LeadRow /\ lead'.phase = "launched" /\ lead'.owned = lead.owned
        /\ lead'.alive = lead.alive /\ lead'.team = lead.team /\ lead'.last = lead.last
    BY <1>0, <2>1 DEF LeadRow
  <2>3. LeadInOrder'
    BY <1>0, <2>1, <2>2 DEF LeadInOrder
  <2>4. EndedInactive'
    BY <2>1 DEF EndedInactive
  <2> QED BY <1>0, <2>1, <2>2, <2>3, <2>4, LeadMoves, Zenon
<1>4. CASE PanePollStart \/ PanePollRead \/ PanePollBeat
  <2>1. /\ lead' = lead /\ UNCHANGED <<report, claim, worker, active, begun>>
        /\ poll.at # "kill" /\ poll'.at # "kill" /\ poll' \in PollRow
        /\ poll'.at # "idle" => poll.at # "idle" \/ lead.owned
    <3>1. CASE PanePollStart
      BY <1>0, <3>1 DEF PanePollStart, PollRow, PaneReport
    <3>2. CASE PanePollRead
      <4>1. /\ lead' = lead /\ UNCHANGED <<report, claim, worker, active, begun>>
            /\ poll.at = "due" /\ poll' = [at |-> "read", saw |-> IF report.fresh THEN report.status ELSE "failed"]
        BY <3>2 DEF PanePollRead
      <4>2. report.status \in PaneReport /\ "failed" \in PaneReport
        BY DEF PaneInv, PaneTypes, PaneReport
      <4> QED BY <4>1, <4>2 DEF PollRow
    <3>3. CASE PanePollBeat
      BY <1>0, <3>3 DEF PanePollBeat, PollRow, PaneReport
    <3> QED BY <1>4, <3>1, <3>2, <3>3
  <2>2. LeadInOrder' /\ EndedInactive'
    BY <1>0, <2>1 DEF LeadInOrder, EndedInactive
  <2> QED BY <1>0, <2>1, <2>2, StandingKills, LeadMoves, Zenon
<1>5. CASE PanePollApply
  <2> DEFINE live == poll.saw \in {"starting", "running"}
  <2>1. /\ poll.at = "read" /\ UNCHANGED <<report, claim, worker, begun>>
        /\ active' = (IF lead.last = poll.saw THEN active ELSE live)
        /\ lead' = [lead EXCEPT !.sees = live, !.last = poll.saw]
        /\ poll' = [poll EXCEPT !.at = IF poll.saw \in Terminal THEN "kill" ELSE "beat"]
    <3>1. /\ poll.at = "read" /\ UNCHANGED <<report, claim, worker, begun>>
          /\ lead' = [lead EXCEPT !.sees = live, !.last = poll.saw]
          /\ poll' = [poll EXCEPT !.at = IF poll.saw \in Terminal THEN "kill" ELSE "beat"]
      BY <1>5 DEF PanePollApply
    <3>2. active' = (IF lead.last = poll.saw THEN active ELSE live)
      BY <1>5, Zenon DEF PanePollApply
    <3> QED BY <3>1, <3>2, Zenon
  <2>2. /\ lead' \in LeadRow /\ lead'.phase = lead.phase /\ lead'.owned = lead.owned
        /\ lead'.alive = lead.alive /\ lead'.team = lead.team /\ lead'.last = poll.saw
    <3>1. live \in BOOLEAN
      OBVIOUS
    <3> HIDE DEF live
    <3>2. poll.saw \in PaneReport
      BY <1>0 DEF PollRow
    <3>3. LET q == [lead EXCEPT !.sees = live, !.last = poll.saw]
          IN  /\ q \in LeadRow /\ q.phase = lead.phase /\ q.owned = lead.owned
              /\ q.alive = lead.alive /\ q.team = lead.team /\ q.last = poll.saw
      <4>1. PICK r \in LeadRow : r = lead
        BY <1>0
      <4>2. PICK v \in PaneReport : v = poll.saw
        BY <3>2
      <4>3. LET q == [r EXCEPT !.sees = live, !.last = v]
            IN  /\ q \in LeadRow /\ q.phase = r.phase /\ q.owned = r.owned
                /\ q.alive = r.alive /\ q.team = r.team /\ q.last = v
        BY <3>1, LeadSees, Zenon
      <4> QED BY <4>1, <4>2, <4>3, Zenon
    <3> QED BY <2>1, <3>3, Zenon
  <2>3. poll' \in PollRow /\ poll'.at = IF poll.saw \in Terminal THEN "kill" ELSE "beat"
    BY <1>0, <2>1 DEF PollRow
  <2>4. LeadInOrder'
    BY <1>0, <2>1, <2>2, <2>3 DEF LeadInOrder
  <2>5. EndedInactive'
    <3>0. lead.owned /\ poll'.at = "kill" => lead.last # poll.saw /\ ~live
      BY <1>0, <2>1, <2>3 DEF LeadInOrder, Terminal
    <3>1. lead.owned /\ poll'.at = "kill" => ~active'
      BY <2>1, <3>0, Zenon
    <3>2. lead.owned \/ ~lead.team
      BY <1>0, <2>1 DEF LeadInOrder
    <3> QED BY <3>1, <3>2, <2>2 DEF EndedInactive
  <2>6. active' \in BOOLEAN
    <3>1. live \in BOOLEAN
      OBVIOUS
    <3> HIDE DEF live
    <3> QED BY <1>0, <2>1, <3>1, Zenon
  <2> QED BY <1>0, <2>1, <2>2, <2>3, <2>4, <2>5, <2>6, StandingKills, LeadMoves, Zenon
<1>6. CASE PanePollKill
  <2>1. /\ poll.at = "kill" /\ KillPane /\ lead' = [lead EXCEPT !.owned = FALSE]
        /\ poll' = [at |-> "idle", saw |-> "none"] /\ UNCHANGED <<report, claim, active, begun>>
    BY <1>6 DEF PanePollKill
  <2>2. /\ lead' \in LeadRow /\ lead'.phase = lead.phase /\ ~lead'.owned
        /\ lead'.alive = lead.alive /\ lead'.team = lead.team /\ lead'.last = lead.last
        /\ poll' \in PollRow /\ poll'.at = "idle"
    BY <1>0, <2>1 DEF LeadRow, PollRow, PaneReport
  <2>3. LeadInOrder'
    BY <1>0, <2>1, <2>2 DEF LeadInOrder
  <2>4. lead.phase = "launched" /\ ((\E w \in Processes : worker[w] = "ended") => EndedInactive')
    BY <1>0, <2>1, <2>2 DEF EndedInactive, LeadInOrder
  <2> QED BY <1>0, <2>1, <2>2, <2>3, <2>4, LeadMoves, Zenon
<1>7. CASE PaneDeleteTeam
  <2>1. /\ lead.phase = "launched" /\ lead' = [lead EXCEPT !.team = FALSE, !.owned = FALSE]
        /\ KillPane /\ active' = FALSE /\ UNCHANGED <<report, claim, poll, begun>>
    BY <1>7 DEF PaneDeleteTeam
  <2>2. lead' \in LeadRow /\ lead'.phase = lead.phase /\ ~lead'.owned /\ ~lead'.team
        /\ lead'.last = lead.last
    BY <1>0, <2>1 DEF LeadRow
  <2>3. LeadInOrder'
    BY <1>0, <2>1, <2>2 DEF LeadInOrder
  <2>4. EndedInactive'
    BY <2>1 DEF EndedInactive
  <2> QED BY <1>0, <2>1, <2>2, <2>3, <2>4, LeadMoves, Zenon
<1>8. CASE PaneClose \/ PaneLeadDies
  <2>1. /\ \/ lead' = [lead EXCEPT !.alive = FALSE, !.owned = FALSE, !.sees = ~lead.owned /\ lead.sees]
           \/ lead' = [lead EXCEPT !.alive = FALSE, !.owned = FALSE]
        /\ lead.phase # "registered" /\ KillPane /\ active' \in BOOLEAN
        /\ UNCHANGED <<report, claim, begun>>
        /\ poll' = [at |-> "idle", saw |-> "none"]
    BY <1>0, <1>8 DEF PaneClose, PaneLeadDies, KillPane
  <2>2. /\ lead' \in LeadRow /\ lead'.phase = lead.phase /\ ~lead'.owned /\ ~lead'.alive
        /\ lead'.team = lead.team /\ lead'.last = lead.last
        /\ poll' \in PollRow /\ poll'.at = "idle"
    BY <1>0, <2>1 DEF LeadRow, PollRow, PaneReport
  <2>3. LeadInOrder'
    BY <1>0, <2>1, <2>2 DEF LeadInOrder
  <2>4. EndedInactive'
    BY <2>2 DEF EndedInactive
  <2> QED BY <1>0, <2>1, <2>2, <2>3, <2>4, LeadMoves, Zenon
<1> QED BY <1>1, <1>2, <1>3, <1>4, <1>5, <1>6, <1>7, <1>8 DEF PanePoll

(* A worker moves from one place to the next. *)
LEMMA WorkerMoves ==
  ASSUME PaneInv, NEW w \in Processes, NEW a, NEW b \in PanePlace, Goes(w, a, b),
         lead.phase # "registered", UNCHANGED <<lead, poll>>,
         report' \in [status : PaneReport, fresh : BOOLEAN], claim' \in Processes \cup {Nobody},
         active' \in BOOLEAN, begun' \in [Processes -> 0 .. MaxPrompts],
         \A v \in Processes \ {w} :
           /\ begun'[v] = begun[v]
           /\ worker[v] \in {"closed", "ended"} => report'.status = report.status
           /\ worker[v] = "ended" => active' = active \/ ~active',
         claim' = claim \/ (claim = Nobody /\ claim' = w),
         b \in PaneClaimed \/ begun'[w] > 0 => claim' = w,
         b \in {"claimed", "loop"} => begun'[w] < MaxPrompts,
         b \in {"closed", "ended"} => report'.status \in Terminal,
         b = "ended" => ~active'
  PROVE  PaneInv'
<1>0. PaneTypes /\ ClaimantOnly /\ LeadInOrder /\ EndedInactive
  BY DEF PaneInv
<1>1. /\ worker' \in [Processes -> PanePlace] /\ worker'[w] = b
      /\ \A v \in Processes \ {w} : worker'[v] = worker[v]
  BY <1>0 DEF PaneTypes, Goes
<1>2. PaneTypes'
  BY <1>0, <1>1, Zenon DEF PaneTypes
<1>3. ClaimantOnly'
  <2> SUFFICES ASSUME NEW v \in Processes
               PROVE  /\ worker'[v] \in PaneClaimed \/ begun'[v] > 0 => claim' = v
                      /\ worker'[v] \in {"claimed", "loop"} => begun'[v] < MaxPrompts
                      /\ worker'[v] \in {"closed", "ended"} => report'.status \in Terminal
                      /\ lead'.phase = "registered" => worker'[v] = "none"
    BY DEF ClaimantOnly
  <2>1. CASE v = w
    BY <2>1, <1>1
  <2>2. CASE v # w
    BY <2>2, <1>0, <1>1, PaneAssumption DEF ClaimantOnly
  <2> QED BY <2>1, <2>2
<1>4. LeadInOrder'
  BY <1>0, Zenon DEF LeadInOrder
<1>5. EndedInactive'
  <2> SUFFICES ASSUME NEW v \in Processes, worker'[v] = "ended"
               PROVE  /\ lead'.owned /\ poll'.at = "kill" => ~active'
                      /\ lead'.alive /\ lead'.team /\ ~lead'.owned /\ lead'.phase = "launched" => ~active'
    BY DEF EndedInactive
  <2>1. CASE v = w
    <3>1. b = "ended"
      BY <2>1, <1>1
    <3> QED BY <3>1, Zenon
  <2>2. CASE v # w
    <3>1. worker[v] = "ended"
      BY <2>2, <1>1
    <3>2. active' = active \/ ~active'
      BY <2>2, <3>1, Zenon
    <3> QED BY <3>1, <3>2, <1>0, Zenon DEF EndedInactive
  <2> QED BY <2>1, <2>2
<1> QED BY <1>2, <1>3, <1>4, <1>5 DEF PaneInv

LEMMA ReportTypes ==
  \A s \in PaneReport : UpdateState(s) =>
    report' \in [status : PaneReport, fresh : BOOLEAN] /\ report'.status = s
BY DEF UpdateState

(* The claimant moves on: nobody else can be disturbed by it. *)
LEMMA ClaimantMoves ==
  ASSUME PaneInv, NEW w \in Processes, NEW a \in PaneClaimed, NEW b \in PaneClaimed, Goes(w, a, b),
         UNCHANGED <<lead, poll, claim>>,
         report' \in [status : PaneReport, fresh : BOOLEAN],
         active' \in BOOLEAN, begun' \in [Processes -> 0 .. MaxPrompts],
         \A v \in Processes \ {w} : begun'[v] = begun[v],
         b \in {"claimed", "loop"} => begun'[w] < MaxPrompts,
         b \in {"closed", "ended"} => report'.status \in Terminal,
         b = "ended" => ~active'
  PROVE  PaneInv'
<1>0. PaneTypes /\ ClaimantOnly /\ worker[w] = a /\ b \in PanePlace
  BY DEF PaneInv, Goes, PanePlace
<1>1. claim = w /\ lead.phase # "registered" /\ claim' = w
  BY <1>0 DEF ClaimantOnly, PaneClaimed
<1>2. \A v \in Processes \ {w} : worker[v] \notin {"closed", "ended"}
  BY <1>0, <1>1 DEF ClaimantOnly, PaneClaimed
<1>3. \A v \in Processes \ {w} :
        /\ begun'[v] = begun[v]
        /\ worker[v] \in {"closed", "ended"} => report'.status = report.status
        /\ worker[v] = "ended" => active' = active \/ ~active'
  BY <1>2
<1>4. claim' \in Processes \cup {Nobody} /\ claim' = claim
  BY <1>1
<1> QED BY <1>0, <1>1, <1>3, <1>4, WorkerMoves, Zenon

LEMMA WorkerSteps ==
  ASSUME PaneInv, NEW w \in Processes, PaneProgress(w) \/ PaneMessage(w) \/ PaneLeaves(w)
  PROVE  PaneInv'
<1>0. /\ PaneTypes /\ ClaimantOnly
      /\ report \in [status : PaneReport, fresh : BOOLEAN] /\ claim \in Processes \cup {Nobody}
      /\ active \in BOOLEAN /\ begun \in [Processes -> 0 .. MaxPrompts]
  BY DEF PaneInv, PaneTypes
<1>1. CASE PaneLook(w)
  <2>1. PICK b \in {"checked", "refused"} : Goes(w, "init", b)
    BY <1>1 DEF PaneLook
  <2>2. UNCHANGED <<lead, poll, report, claim, active, begun>> /\ worker[w] = "init"
    BY <1>1 DEF PaneLook, Goes
  <2>3. lead.phase # "registered" /\ (begun'[w] > 0 => claim' = w)
    BY <1>0, <2>2 DEF ClaimantOnly
  <2>4. b \in PanePlace /\ b \notin PaneClaimed /\ b \notin {"claimed", "loop"}
        /\ b \notin {"closed", "ended"} /\ b # "ended"
    BY <2>1 DEF PanePlace, PaneClaimed
  <2> QED BY <1>0, <2>1, <2>2, <2>3, <2>4, WorkerMoves, Zenon
<1>2. CASE PaneClaim(w)
  <2>1. /\ UNCHANGED <<lead, poll, report, active, begun>> /\ worker[w] = "checked"
        /\ Goes(w, "checked", IF claim = Nobody THEN "claimed" ELSE "refused")
        /\ claim' = IF claim = Nobody THEN w ELSE claim
    BY <1>2 DEF PaneClaim, Goes
  <2>2. lead.phase # "registered" /\ (begun[w] > 0 => claim = w)
    BY <1>0, <2>1 DEF ClaimantOnly
  <2>3. CASE claim = Nobody
    <3>1. Goes(w, "checked", "claimed") /\ claim' = w /\ "claimed" \in PanePlace
          /\ claim' \in Processes \cup {Nobody}
      BY <2>1, <2>3 DEF PanePlace, PaneClaimed
    <3>2. begun'[w] < MaxPrompts
      BY <1>0, <2>1, <2>2, <2>3, PaneAssumption
    <3>3. "claimed" \notin {"closed", "ended"} /\ "claimed" # "ended"
      OBVIOUS
    <3> QED BY <1>0, <2>1, <2>2, <2>3, <3>1, <3>2, <3>3, WorkerMoves, Zenon
  <2>4. CASE claim # Nobody
    <3>1. Goes(w, "checked", "refused") /\ claim' = claim /\ "refused" \in PanePlace
      BY <2>1, <2>4 DEF PanePlace
    <3>2. "refused" \notin PaneClaimed /\ "refused" \notin {"claimed", "loop"}
          /\ "refused" \notin {"closed", "ended"} /\ "refused" # "ended"
      BY DEF PaneClaimed
    <3> QED BY <1>0, <2>1, <2>2, <3>1, <3>2, WorkerMoves, Zenon
  <2> QED BY <2>3, <2>4
<1>3. CASE PaneLoop(w)
  <2>1. /\ UNCHANGED <<lead, poll, claim, active, begun>> /\ worker[w] = "claimed"
        /\ \/ Goes(w, "claimed", "loop") /\ UpdateState("running")
           \/ Goes(w, "claimed", "closing") /\ report' = report
    BY <1>3 DEF PaneLoop, Goes
  <2>2. /\ "claimed" \in PaneClaimed /\ "loop" \in PaneClaimed /\ "closing" \in PaneClaimed
        /\ "loop" \notin {"closed", "ended"} /\ "closing" \notin {"claimed", "loop", "closed", "ended"}
        /\ "running" \in PaneReport
    BY DEF PaneClaimed, PaneReport
  <2>3. begun'[w] < MaxPrompts
    BY <1>0, <2>1 DEF ClaimantOnly
  <2>4. report' \in [status : PaneReport, fresh : BOOLEAN]
    BY <1>0, <2>1, <2>2, ReportTypes, Zenon
  <2>5. CASE Goes(w, "claimed", "loop")
    BY <1>0, <2>1, <2>2, <2>3, <2>4, <2>5, ClaimantMoves
  <2>6. CASE Goes(w, "claimed", "closing")
    BY <1>0, <2>1, <2>2, <2>3, <2>4, <2>6, ClaimantMoves
  <2> QED BY <2>1, <2>5, <2>6
<1>4. CASE PaneWork(w)
  <2>1. /\ UNCHANGED <<lead, poll, claim, report>> /\ worker[w] = "loop"
        /\ Goes(w, "loop", "working") /\ begun' = [begun EXCEPT ![w] = begun[w] + 1]
    BY <1>4 DEF PaneWork, Goes
  <2>2. active' \in BOOLEAN
    BY <1>4, Zenon DEF PaneWork
  <2>3. begun[w] < MaxPrompts
    BY <1>0, <2>1 DEF ClaimantOnly
  <2>4. begun' \in [Processes -> 0 .. MaxPrompts] /\ \A v \in Processes \ {w} : begun'[v] = begun[v]
    BY <1>0, <2>1, <2>3, PaneAssumption
  <2>5. /\ "loop" \in PaneClaimed /\ "working" \in PaneClaimed
        /\ "working" \notin {"claimed", "loop"} /\ "working" \notin {"closed", "ended"} /\ "working" # "ended"
    BY DEF PaneClaimed
  <2> QED BY <1>0, <2>1, <2>2, <2>4, <2>5, ClaimantMoves, Zenon
<1>5. CASE PaneRunOver(w) \/ PaneIdle(w) \/ PaneMessage(w) \/ PaneLeaves(w)
  <2>1. PICK a \in {"working", "resting", "idle", "claimed"}, b \in {"resting", "idle", "claimed", "closing"} :
           Goes(w, a, b) /\ (b = "claimed" => begun[w] < MaxPrompts)
    BY <1>5 DEF PaneRunOver, PaneIdle, PaneMessage, PaneLeaves
  <2>2. UNCHANGED <<lead, poll, claim, begun>> /\ (report' = report \/ UpdateState("idle"))
    BY <1>5 DEF PaneRunOver, PaneIdle, PaneMessage, PaneLeaves
  <2>3. active' \in BOOLEAN
    BY <1>0, <1>5, Zenon DEF PaneRunOver, PaneIdle, PaneMessage, PaneLeaves
  <2>4. /\ a \in PaneClaimed /\ b \in PaneClaimed /\ b \notin {"closed", "ended"} /\ b # "ended"
        /\ "idle" \in PaneReport
    BY <2>1 DEF PaneClaimed, PaneReport
  <2>5. b \in {"claimed", "loop"} => begun'[w] < MaxPrompts
    BY <2>1, <2>2
  <2>6. report' \in [status : PaneReport, fresh : BOOLEAN]
    BY <1>0, <2>2, <2>4, ReportTypes, Zenon
  <2> QED BY <1>0, <2>1, <2>2, <2>3, <2>4, <2>5, <2>6, ClaimantMoves, Zenon
<1>6. CASE PaneReportEnd(w)
  <2>1. /\ UNCHANGED <<lead, poll, claim, active, begun>> /\ Goes(w, "closing", "closed")
        /\ \E s \in Terminal : UpdateState(s)
    BY <1>6 DEF PaneReportEnd
  <2>2. report' \in [status : PaneReport, fresh : BOOLEAN] /\ report'.status \in Terminal
    BY <2>1, ReportTypes DEF Terminal, PaneReport
  <2>3. /\ "closing" \in PaneClaimed /\ "closed" \in PaneClaimed /\ "closed" \notin {"claimed", "loop"}
        /\ "closed" # "ended"
    BY DEF PaneClaimed
  <2> QED BY <1>0, <2>1, <2>2, <2>3, ClaimantMoves, Zenon
<1>7. CASE PaneEnd(w)
  <2>1. /\ UNCHANGED <<lead, poll, claim, report, begun>> /\ Goes(w, "closed", "ended")
        /\ worker[w] = "closed"
    BY <1>7 DEF PaneEnd, Goes
  <2>2. active' \in BOOLEAN /\ ~active'
    BY <1>7, Zenon DEF PaneEnd
  <2>3. report'.status \in Terminal
    BY <1>0, <2>1 DEF ClaimantOnly
  <2>4. /\ "closed" \in PaneClaimed /\ "ended" \in PaneClaimed /\ "ended" \notin {"claimed", "loop"}
    BY DEF PaneClaimed
  <2> QED BY <1>0, <2>1, <2>2, <2>3, <2>4, ClaimantMoves, Zenon
<1> QED BY <1>1, <1>2, <1>3, <1>4, <1>5, <1>6, <1>7, Zenon DEF PaneProgress

LEMMA PaneInvNext == PaneInv /\ [PaneNext]_paneVars => PaneInv'
<1> SUFFICES ASSUME PaneInv, [PaneNext]_paneVars PROVE PaneInv'
  OBVIOUS
<1>0. /\ PaneTypes /\ ClaimantOnly /\ LeadInOrder /\ EndedInactive
      /\ report \in [status : PaneReport, fresh : BOOLEAN] /\ worker \in [Processes -> PanePlace]
  BY DEF PaneInv, PaneTypes
<1>1. CASE \/ PanePrepare \/ PaneRegister \/ PaneSpawnFails \/ PanePoll
           \/ PaneDeleteTeam \/ PaneClose \/ PaneLeadDies
  BY <1>1, LeadSteps
<1>2. ASSUME NEW w \in Processes, PaneProgress(w) \/ PaneMessage(w) \/ PaneLeaves(w)
      PROVE  PaneInv'
  BY <1>2, WorkerSteps
<1>3. ASSUME UNCHANGED <<lead, claim, worker, active, poll, begun>>,
             report' \in [status : PaneReport, fresh : BOOLEAN],
             (\E w \in Processes : worker[w] \in {"closed", "ended"}) => report'.status = report.status
      PROVE  PaneInv'
  <2>1. PaneTypes'
    BY <1>0, <1>3, Zenon DEF PaneTypes
  <2>2. ClaimantOnly'
    BY <1>0, <1>3 DEF ClaimantOnly
  <2>3. LeadInOrder' /\ EndedInactive'
    BY <1>0, <1>3, Zenon DEF LeadInOrder, EndedInactive
  <2> QED BY <2>1, <2>2, <2>3 DEF PaneInv
<1>4. CASE PaneParentAges \/ PaneReportAges \/ UNCHANGED paneVars
  <2>1. UNCHANGED <<lead, claim, worker, active, poll, begun>>
    BY <1>4 DEF PaneParentAges, PaneReportAges, paneVars
  <2>2. report' = report \/ report' = [report EXCEPT !.fresh = FALSE]
    BY <1>4 DEF PaneParentAges, PaneReportAges, paneVars
  <2>3. report' \in [status : PaneReport, fresh : BOOLEAN] /\ report'.status = report.status
    BY <1>0, <2>2
  <2> QED BY <1>3, <2>1, <2>3
<1>5. ASSUME NEW w \in Processes, PaneBeat(w) PROVE PaneInv'
  <2>1. UNCHANGED <<lead, claim, worker, active, poll, begun>> /\ worker[w] \in {"working", "idle"}
        /\ (UpdateState("idle") \/ UpdateState("running"))
    BY <1>5 DEF PaneBeat
  <2>2. report' \in [status : PaneReport, fresh : BOOLEAN]
    BY <2>1, ReportTypes DEF PaneReport
  <2>3. \A v \in Processes : worker[v] \notin {"closed", "ended"}
    BY <1>0, <2>1 DEF ClaimantOnly, PaneClaimed
  <2> QED BY <1>3, <2>1, <2>2, <2>3
<1>6. ASSUME NEW w \in Processes, PaneSpawn(w) PROVE PaneInv'
  <2>1. /\ UNCHANGED <<lead, report, claim, active, poll, begun>> /\ lead.phase # "registered"
        /\ Goes(w, "none", "init") /\ worker[w] = "none"
    BY <1>6 DEF PaneSpawn, Goes
  <2>2. /\ "init" \in PanePlace /\ "init" \notin PaneClaimed /\ "init" \notin {"claimed", "loop"}
        /\ "init" \notin {"closed", "ended"} /\ "init" # "ended"
    BY DEF PanePlace, PaneClaimed
  <2>3. begun'[w] > 0 => claim' = w
    BY <1>0, <2>1 DEF ClaimantOnly
  <2> QED BY <1>0, <2>1, <2>2, <2>3, WorkerMoves, Zenon DEF PaneTypes
<1> QED BY <1>1, <1>2, <1>4, <1>5, <1>6, Zenon DEF PaneNext

LEMMA PaneInvGives == PaneInv => PaneTypeOK /\ PaneSound
<1> SUFFICES ASSUME PaneInv PROVE PaneTypeOK /\ PaneSound
  OBVIOUS
<1>1. PaneTypeOK
  BY DEF PaneInv, PaneTypes, PaneTypeOK, PollRow, PaneReport, Terminal
<1>2. PaneSound
  BY Zenon DEF PaneInv, ClaimantOnly, EndedInactive, PaneSound
<1> QED BY <1>1, <1>2

-----------------------------------------------------------------------------
(* The tool registry.  Every registration has a tool of its own and is in one *)
(* place: what a release closes was fixed before its first await, so nothing  *)
(* of its scope is added to the slots or the retired ones meanwhile.          *)
Fates == {"new", "held", "closed", "dropped"}
Registered == entries \cup retired \cup releasing.todo

Grips(A) == [disabled : BOOLEAN, found : BOOLEAN, as : A]

LEMMA MarkRow ==
  ASSUME NEW A, NEW m \in Grips(A)
  PROVE  /\ m \in Grips({m.as})
         /\ LET d == [m EXCEPT !.disabled = TRUE]
            IN  d \in Grips(A) /\ d.disabled /\ d.found = m.found /\ d.as = m.as
         /\ LET e == [m EXCEPT !.disabled = FALSE]
            IN  e \in Grips(A) /\ ~e.disabled /\ e.found = m.found /\ e.as = m.as
BY DEF Grips

(* The marks are true of some registrations: they name the one that wins. *)
MarksTrue(m, es) ==
  /\ m \in Grips({m.as})
  /\ m.found => es # {} /\ m.as = Winner(es)
  /\ m.disabled => es # {}

LEMMA MarksAfter ==
  ASSUME NEW es, MarksTrue(marks, entries)
  PROVE  /\ MarksTrue(Undisabled(es, Forgotten(es)), es)
         /\ es # {} => MarksTrue(Forgotten(es), es)
<1>w. PICK v, w : v = Winner(entries) /\ w = Winner(es)
  OBVIOUS
<1>0. es = {} => w = NoTool
  BY <1>w DEF Winner
<1>A. PICK A : A = {marks.as, NoTool}
  OBVIOUS
<1>m. PICK m \in Grips(A) : m = marks
  BY <1>A DEF MarksTrue, Grips
<1>1. PICK g : g = [m EXCEPT !.found = FALSE, !.as = NoTool]
  OBVIOUS
<1>2. g \in Grips(A) /\ ~g.found /\ g.disabled = m.disabled
  BY <1>A, <1>1 DEF Grips
<1>3. PICK h : h = Forgotten(es)
  OBVIOUS
<1>4. h = IF v = NoTool \/ w = NoTool \/ v # w THEN g ELSE m
  BY <1>w, <1>m, <1>1, <1>3, Zenon DEF Forgotten
<1>5. /\ m.found => m.as = v
      /\ m.disabled => entries # {}
  BY <1>m, <1>w, Zenon DEF MarksTrue
<1>6. /\ h \in Grips(A)
      /\ h.found => es # {} /\ h.as = w
  BY <1>0, <1>2, <1>4, <1>5
<1>7. PICK k : k = [h EXCEPT !.disabled = FALSE]
  OBVIOUS
<1>8. k \in Grips(A) /\ ~k.disabled /\ k.found = h.found /\ k.as = h.as
  BY <1>6, <1>7, MarkRow, Zenon
<1>9. es = {} => MarksTrue(k, es)
  <2>1. k \in Grips({k.as})
    BY <1>8, MarkRow, Zenon
  <2> QED BY <1>6, <1>8, <1>w, <2>1, Zenon DEF MarksTrue
<1>10. es # {} => MarksTrue(h, es)
  <2>1. h \in Grips({h.as})
    BY <1>6, MarkRow, Zenon
  <2> QED BY <1>6, <1>w, <2>1, Zenon DEF MarksTrue
<1>11. Undisabled(es, Forgotten(es)) = IF es = {} THEN k ELSE h
  BY <1>3, <1>7, Zenon DEF Undisabled
<1> QED BY <1>3, <1>9, <1>10, <1>11, Zenon

RegKept == /\ toolFate \in [Tools -> Fates]
           /\ \A e \in Registered : e.tool \in Tools /\ e.scope \in Scopes
           /\ \A e, f \in Registered : e.tool = f.tool => e = f
           /\ \A e \in releasing.todo : e.scope \in releasing.scope
           /\ retired \cap (entries \cup releasing.todo) = {}
           /\ \A t \in Tools : toolFate[t] = "held" <=> \E e \in Registered : e.tool = t
           /\ \A e, f \in entries : e.scope = f.scope => e = f

RegInv == RegKept /\ MarksTrue(marks, entries)

LEMMA RegInvGives == RegInv => RegTypeOK /\ RegNothingLost
<1> SUFFICES ASSUME RegInv PROVE RegTypeOK /\ RegNothingLost
  OBVIOUS
<1>1. RegTypeOK
  BY DEF RegInv, RegKept, MarksTrue, Grips, RegTypeOK, Registered
<1>2. \A t \in Tools : toolFate[t] = "held" <=> \E e \in entries \cup retired \cup releasing.todo : e.tool = t
  BY DEF RegInv, RegKept, Registered
<1>3. \A e, f \in entries : e.scope = f.scope => e = f
  BY DEF RegInv, RegKept
<1>4. /\ marks.found => entries # {} /\ marks.as = Winner(entries)
      /\ marks.disabled => entries # {}
  BY Zenon DEF RegInv, MarksTrue
<1>5. Offered(TRUE) => Offered(FALSE)
  BY Zenon DEF Offered
<1> QED BY <1>1, <1>2, <1>3, <1>4, <1>5, Zenon DEF RegNothingLost

LEMMA RegInvInit == RegInit => RegInv
<1> SUFFICES ASSUME RegInit PROVE RegInv
  OBVIOUS
<1>1. RegKept
  BY DEF RegInit, RegKept, Registered, Fates
<1>2. MarksTrue(marks, entries)
  BY DEF RegInit, MarksTrue, Grips
<1> QED BY <1>1, <1>2 DEF RegInv

(* Registrations taken away, with their tools: the rest is as it was. *)
LEMMA RegTaken ==
  ASSUME RegKept, NEW less \in SUBSET entries \cup releasing.todo, Registered' = Registered \ less,
         entries' \subseteq entries, retired' = retired, releasing'.todo \subseteq releasing.todo,
         \A e \in releasing'.todo : e.scope \in releasing'.scope,
         toolFate' \in [Tools -> Fates],
         \A t \in Tools : IF \E e \in less : e.tool = t THEN toolFate'[t] # "held"
                          ELSE toolFate'[t] = toolFate[t]
  PROVE  RegKept'
BY DEF RegKept, Registered

LEMMA RegInvNext == RegInv /\ [RegNext]_regVars => RegInv'
<1> SUFFICES ASSUME RegInv, [RegNext]_regVars PROVE RegInv'
  OBVIOUS
<1>0. RegKept /\ MarksTrue(marks, entries)
  BY DEF RegInv
<1>1. ASSUME NEW t \in Tools, NEW s \in Scopes, RegRegister(t, s) PROVE RegInv'
  <2>n. PICK n : n = NextSeq
    OBVIOUS
  <2>r. PICK r : r = [tool |-> t, scope |-> s, seq |-> n]
    OBVIOUS
  <2>s. PICK slot \in SUBSET entries : slot = {e \in entries : e.scope = s}
    OBVIOUS
  <2>f. PICK mark : mark = "held"
    OBVIOUS
  <2>1. /\ toolFate[t] = "new" /\ s \notin releasing.scope /\ UNCHANGED releasing
        /\ entries' = (entries \ slot) \cup {r} /\ retired' = retired \cup slot
        /\ toolFate' = [toolFate EXCEPT ![t] = mark]
    BY <1>1, <2>n, <2>r, <2>s, <2>f, Zenon DEF RegRegister
  <2>2. marks' = Forgotten(entries')
    BY <1>1, Zenon DEF RegRegister
  <2>3. MarksTrue(marks, entries)'
    BY <1>0, <2>1, <2>2, MarksAfter
  <2>4. toolFate \in [Tools -> Fates] /\ mark \in Fates
    BY <1>0, <2>f DEF RegKept, Fates
  <2>5. toolFate' \in [Tools -> Fates] /\ toolFate'[t] = "held"
        /\ \A u \in Tools \ {t} : toolFate'[u] = toolFate[u]
    BY <2>1, <2>4, <2>f, Assigned
  <2>6. Registered' = Registered \cup {r} /\ r.tool = t /\ r.scope = s
    BY <2>1, <2>r DEF Registered
  <2>7. \A e \in Registered : e.tool # t
    BY <1>0, <2>1 DEF RegKept
  <2>8. slot \cap releasing.todo = {}
    BY <1>0, <2>1, <2>s DEF RegKept
  <2>9. retired' \cap (entries' \cup releasing'.todo) = {}
    <3>1. r \notin Registered
      BY <2>6, <2>7
    <3> QED BY <1>0, <2>1, <2>8, <3>1 DEF RegKept, Registered
  <2>10. \A e, f \in entries' : e.scope = f.scope => e = f
    BY <1>0, <2>1, <2>6, <2>s DEF RegKept
  <2>11. RegKept'
    <3>1. \A e \in releasing'.todo : e.scope \in releasing'.scope
      BY <1>0, <2>1 DEF RegKept
    <3>2. /\ \A e \in Registered' : e.tool \in Tools /\ e.scope \in Scopes
          /\ \A e, f \in Registered' : e.tool = f.tool => e = f
      BY <1>0, <2>6, <2>7 DEF RegKept
    <3>3. \A u \in Tools : toolFate'[u] = "held" <=> \E e \in Registered' : e.tool = u
      BY <1>0, <2>5, <2>6 DEF RegKept
    <3> QED BY <2>5, <2>9, <2>10, <3>1, <3>2, <3>3 DEF RegKept
  <2> QED BY <2>3, <2>11 DEF RegInv
<1>2. ASSUME NEW s \in Scopes, RegUnregister(s) PROVE RegInv'
  <2>g. PICK less \in SUBSET entries : less = {e \in entries : e.scope = s}
    OBVIOUS
  <2>1. /\ s \notin releasing.scope /\ UNCHANGED <<retired, releasing>>
        /\ entries' = entries \ less
        /\ toolFate' = [t \in Tools |-> IF \E e \in less : e.tool = t THEN "dropped" ELSE toolFate[t]]
    BY <1>2, <2>g, Zenon DEF RegUnregister
  <2>2. marks' = Undisabled(entries', Forgotten(entries'))
    BY <1>2, Zenon DEF RegUnregister
  <2>3. MarksTrue(marks, entries)'
    BY <1>0, <2>2, MarksAfter
  <2>4. less \cap (retired \cup releasing.todo) = {}
    BY <1>0, <2>1, <2>g DEF RegKept
  <2>5. Registered' = Registered \ less
    BY <2>1, <2>4 DEF Registered
  <2>6. toolFate' \in [Tools -> Fates]
    BY <1>0, <2>1 DEF RegKept, Fates
  <2>7. \A t \in Tools : IF \E e \in less : e.tool = t THEN toolFate'[t] # "held"
                         ELSE toolFate'[t] = toolFate[t]
    BY <2>1
  <2>8. RegKept'
    <3>1. \A e \in releasing'.todo : e.scope \in releasing'.scope
      BY <1>0, <2>1 DEF RegKept
    <3> QED BY <1>0, <2>1, <2>5, <2>6, <2>7, <3>1, RegTaken
  <2> QED BY <2>3, <2>8 DEF RegInv
<1>3. ASSUME NEW s \in Scopes, RegRelease(s) PROVE RegInv'
  <2>t. PICK todo \in SUBSET (entries \cup retired) : todo = {e \in entries \cup retired : e.scope = s}
    OBVIOUS
  <2>1. /\ releasing' = [scope |-> {s}, todo |-> todo]
        /\ retired' = retired \ todo /\ UNCHANGED <<entries, marks, toolFate>>
        /\ releasing.scope = {}
    BY <1>3, <2>t, Zenon DEF RegRelease
  <2>2. releasing.todo = {}
    BY <1>0, <2>1 DEF RegKept
  <2>3. Registered' = Registered
    BY <2>1, <2>2 DEF Registered
  <2>4. /\ \A e \in releasing'.todo : e.scope \in releasing'.scope
        /\ retired' \cap (entries' \cup releasing'.todo) = {}
    BY <1>0, <2>1, <2>t DEF RegKept
  <2>5. RegKept'
    BY <1>0, <2>1, <2>3, <2>4 DEF RegKept
  <2> QED BY <1>0, <2>1, <2>5 DEF RegInv
<1>4. ASSUME NEW e \in releasing.todo, RegClosed(e) PROVE RegInv'
  <2>g. PICK less \in SUBSET releasing.todo : less = {e}
    BY <1>4
  <2>c. PICK mark : mark = "closed"
    OBVIOUS
  <2>0. e.tool \in Tools /\ e \in Registered /\ e \notin retired
    BY <1>0, <1>4 DEF RegKept, Registered
  <2>1. /\ UNCHANGED retired /\ entries' = entries \ less
        /\ releasing'.todo = releasing.todo \ less
        /\ releasing'.scope = releasing.scope \/ releasing'.todo = {}
        /\ toolFate' = [toolFate EXCEPT ![e.tool] = mark]
    <3>1. entries' = IF e \in entries THEN {f \in entries : f.scope # e.scope} ELSE entries
      BY <1>4, Zenon DEF RegClosed
    <3>2. entries' = entries \ less
      BY <1>0, <2>g, <3>1 DEF RegKept
    <3>3. PICK rest : rest = releasing.todo \ {e}
      OBVIOUS
    <3>4. releasing' = [scope |-> IF rest = {} THEN {} ELSE releasing.scope, todo |-> rest]
      BY <1>4, <3>3, Zenon DEF RegClosed
    <3>5. toolFate' = [toolFate EXCEPT ![e.tool] = mark] /\ UNCHANGED retired
      BY <1>4, <2>c, Zenon DEF RegClosed
    <3> QED BY <2>g, <3>2, <3>3, <3>4, <3>5
  <2>2. MarksTrue(marks, entries)'
    <3>1. CASE e \in entries
      <4>1. marks' = Undisabled(entries', Forgotten(entries'))
        BY <1>4, <3>1, Zenon DEF RegClosed
      <4> QED BY <1>0, <4>1, MarksAfter
    <3>2. CASE e \notin entries
      <4>1. marks' = marks /\ entries' = entries
        BY <1>4, <3>2, Zenon DEF RegClosed
      <4> QED BY <1>0, <4>1
    <3> QED BY <3>1, <3>2
  <2>3. Registered' = Registered \ less
    BY <2>0, <2>1, <2>g DEF Registered
  <2>4. toolFate \in [Tools -> Fates] /\ mark \in Fates
    BY <1>0, <2>c DEF RegKept, Fates
  <2>5. toolFate' \in [Tools -> Fates] /\ toolFate'[e.tool] = "closed"
        /\ \A u \in Tools \ {e.tool} : toolFate'[u] = toolFate[u]
    BY <2>0, <2>1, <2>4, <2>c, Assigned
  <2>6. \A t \in Tools : IF \E f \in less : f.tool = t THEN toolFate'[t] # "held"
                         ELSE toolFate'[t] = toolFate[t]
    BY <2>5, <2>g
  <2>7. RegKept'
    <3>1. \A f \in releasing'.todo : f.scope \in releasing'.scope
      BY <1>0, <2>1 DEF RegKept
    <3>2. less \in SUBSET entries \cup releasing.todo
      BY <2>g
    <3> QED BY <1>0, <2>1, <2>3, <2>5, <2>6, <3>1, RegTaken
  <2> QED BY <2>2, <2>7 DEF RegInv
<1>5. ASSUME RegDisable \/ RegEnable \/ RegDiscover PROVE RegInv'
  <2>1. UNCHANGED <<entries, retired, releasing, toolFate>>
    BY <1>5 DEF RegDisable, RegEnable, RegDiscover
  <2>2. RegKept'
    BY <1>0, <2>1 DEF RegKept, Registered
  <2>A. PICK A : A = {marks.as, Winner(entries)}
    OBVIOUS
  <2>f. marks \in Grips(A)
    BY <1>0, <2>A DEF MarksTrue, Grips
  <2>w. PICK w : w = Winner(entries)
    OBVIOUS
  <2>3. PICK m \in Grips(A) : /\ m = marks'
                              /\ m.found => entries # {} /\ m.as = w
                              /\ m.disabled => entries # {}
    <3>0. /\ marks.found => entries # {} /\ marks.as = w
          /\ marks.disabled => entries # {}
      BY <1>0, <2>w DEF MarksTrue
    <3>1. CASE RegDisable
      <4>1. marks' = [marks EXCEPT !.disabled = TRUE] /\ entries # {}
        BY <3>1, Zenon DEF RegDisable
      <4>2. /\ marks' \in Grips(A) /\ marks'.disabled
            /\ marks'.found = marks.found /\ marks'.as = marks.as
        BY <2>f, <4>1, MarkRow, Zenon
      <4> QED BY <3>0, <4>1, <4>2, Zenon
    <3>2. CASE RegEnable
      <4>1. marks' = [marks EXCEPT !.disabled = FALSE]
        BY <3>2, Zenon DEF RegEnable
      <4>2. /\ marks' \in Grips(A) /\ ~marks'.disabled
            /\ marks'.found = marks.found /\ marks'.as = marks.as
        BY <2>f, <4>1, MarkRow, Zenon
      <4> QED BY <3>0, <4>1, <4>2, Zenon
    <3>3. CASE RegDiscover
      <4>1. marks' = [marks EXCEPT !.found = TRUE, !.as = w] /\ entries # {}
        BY <2>w, <3>3, Zenon DEF RegDiscover
      <4>2. w \in A
        BY <2>A, <2>w
      <4>3. PICK x \in Grips(A) : x = marks
        BY <2>f
      <4>4. PICK m : m = [x EXCEPT !.found = TRUE, !.as = w]
        OBVIOUS
      <4>5. m \in Grips(A) /\ m.as = w /\ m.disabled = x.disabled
        BY <4>2, <4>4 DEF Grips
      <4> QED BY <3>0, <4>1, <4>3, <4>4, <4>5
    <3> QED BY <1>5, <3>1, <3>2, <3>3
  <2>4. MarksTrue(m, entries)
    BY <2>3, <2>w DEF MarksTrue, Grips
  <2>5. MarksTrue(marks, entries)'
    BY <2>1, <2>3, <2>4
  <2> QED BY <2>2, <2>5 DEF RegInv
<1>6. ASSUME UNCHANGED regVars PROVE RegInv'
  <2>1. RegKept'
    BY <1>0, <1>6 DEF regVars, RegKept, Registered
  <2>2. MarksTrue(marks, entries)'
    BY <1>0, <1>6 DEF regVars
  <2> QED BY <2>1, <2>2 DEF RegInv
<1> QED BY <1>1, <1>2, <1>3, <1>4, <1>5, <1>6 DEF RegNext

-----------------------------------------------------------------------------
(* Permissions.  The decision depends on the policy of the moment alone, and   *)
(* where a switch of session settles the open questions, what is answered is   *)
(* granted to the session it was asked in: the one the lead's checker is in.  *)
CheckerRow == [in : Sessions, grants : SUBSET PermCalls]
QuestionRow == [call : PermCalls \cup {NoCommand}, in : Sessions]

\* The grants on disk are those given, a checker has some of its session's, and
\* the lead asks in the session its checker is in.
GrantsInOrder ==
  /\ \A s \in Sessions : store[s] = approved[s]
  /\ \A a \in PermAgents : checker[a].grants \subseteq store[checker[a].in]
  /\ checker["lead"].in = session
  /\ question["lead"].call # NoCommand => question["lead"].in = session

PermInv == PermTypeOK /\ (Settles => GrantsInOrder)

(* Every layer keeps the authority of those before it. *)
LEMMA StrictestScope ==
  ASSUME NEW p \in Policies, "deny" \in p.scopes
  PROVE  Scoped(p) = "deny"
<1>1. p.scopes # {}
  OBVIOUS
<1>2. \E e \in p.scopes : \A f \in p.scopes : f = e \/ e = "deny" \/ (e = "ask" /\ f = "allow")
  OBVIOUS
<1>3. PICK e : e = Scoped(p)
  OBVIOUS
<1>4. e \in p.scopes /\ \A f \in p.scopes : f = e \/ e = "deny" \/ (e = "ask" /\ f = "allow")
  BY <1>1, <1>2, <1>3, Zenon DEF Scoped
<1>5. "deny" = e \/ e = "deny" \/ (e = "ask" /\ "deny" = "allow")
  BY <1>4
<1> QED BY <1>3, <1>5

LEMMA AuthorityOf ==
  ASSUME policy \in Policies
  PROVE  AuthorityKept
<1> SUFFICES ASSUME NEW c \in PermCalls, NEW granted \in BOOLEAN
    PROVE  LET e == Check(policy, granted, c)
               planned == policy.mode = "plan" /\ c \in {"agent", "notes"}
           IN /\ c = "wipe" => e = "deny"
              /\ policy.user \in {"deny", "ask"} /\ ~planned => e # "allow"
              /\ policy.user = "none" /\ policy.project \in {"deny", "ask"} /\ ~planned => e # "allow"
              /\ "deny" \in policy.scopes /\ Rule(policy) = "none" /\ c = "edit" => e = "deny"
              /\ c = "read" /\ policy.mode # "bypass" => e = "ask"
              /\ c = "touch" /\ policy.mode # "bypass" /\ ~granted => e # "allow"
  BY Zenon DEF AuthorityKept
<1>p. PICK p \in Policies : p = policy
  OBVIOUS
<1>r. PICK r : r = Rule(p)
  OBVIOUS
<1>s. PICK s : s = Scoped(p)
  OBVIOUS
<1>e. PICK e : e = Check(p, granted, c)
  OBVIOUS
<1>m. PICK m : m = ModeDecides(p.mode, c)
  OBVIOUS
<1>1. e = IF p.mode = "plan" /\ c \in {"agent", "notes"} THEN "allow"
          ELSE IF c = "list" THEN (IF r \in {"deny", "ask"} THEN r ELSE "allow")
          ELSE IF c = "wipe" THEN "deny"
          ELSE IF c = "touch" /\ p.mode # "bypass" /\ (r \in {"deny", "ask"} \/ ~granted)
               THEN (IF r = "deny" THEN "deny" ELSE "ask")
          ELSE IF c \in Commands /\ p.sandboxed
               THEN (IF r \in {"deny", "ask"} THEN r ELSE "allow")
          ELSE IF c = "read" /\ p.mode # "bypass" THEN "ask"
          ELSE IF r # "none" THEN r
          ELSE IF p.scopes # {} THEN s
          ELSE IF c = "todo" \/ granted THEN "allow"
          ELSE m
  BY <1>r, <1>s, <1>e, <1>m, Zenon DEF Check, KnownSafe, Destructive, PathOutside, FileOutside
<1>2. /\ p.user \in {"deny", "ask"} => r \in {"deny", "ask"}
      /\ p.user = "none" /\ p.project \in {"deny", "ask"} => r \in {"deny", "ask"}
  BY <1>r DEF Rule
<1>3. "deny" \in p.scopes => s = "deny"
  BY <1>s, StrictestScope
<1>4. c = "wipe" => e = "deny"
  BY <1>1
<1>5. r \in {"deny", "ask"} /\ ~(p.mode = "plan" /\ c \in {"agent", "notes"}) => e # "allow"
  BY <1>1
<1>6. "deny" \in p.scopes /\ r = "none" /\ c = "edit" => e = "deny"
  BY <1>1, <1>3 DEF Commands
<1>7. c = "read" /\ p.mode # "bypass" => e = "ask"
  BY <1>1 DEF Commands
<1>8. c = "touch" /\ p.mode # "bypass" /\ ~granted => e # "allow"
  BY <1>1
<1> QED BY <1>p, <1>r, <1>e, <1>2, <1>4, <1>5, <1>6, <1>7, <1>8, Zenon

LEMMA PermInvGives == PermInv => PermTypeOK /\ AuthorityKept /\ (Settles => GrantsExact)
<1> SUFFICES ASSUME PermInv PROVE PermTypeOK /\ AuthorityKept /\ (Settles => GrantsExact)
  OBVIOUS
<1>1. PermTypeOK /\ AuthorityKept
  BY AuthorityOf DEF PermInv, PermTypeOK
<1>2. ASSUME Settles PROVE GrantsExact
  BY <1>1, <1>2 DEF PermInv, GrantsInOrder, GrantsExact, PermTypeOK
<1> QED BY <1>1, <1>2

LEMMA PermInvInit == PermInit => PermInv
<1> SUFFICES ASSUME PermInit PROVE PermInv
  OBVIOUS
<1>1. First \in Sessions
  BY PermissionAssumption, Zenon DEF First
<1>2. policy \in Policies
  BY DEF PermInit, Default, Policies, PermModes, Effects
<1>3. NoCommand \in PermCalls \cup {NoCommand}
  OBVIOUS
<1>4. PermTypeOK
  BY <1>1, <1>2, <1>3 DEF PermInit, PermTypeOK
<1>5. "lead" \in PermAgents
  BY DEF PermAgents
<1>6. GrantsInOrder
  BY <1>1, <1>5 DEF PermInit, GrantsInOrder
<1> QED BY <1>4, <1>6 DEF PermInv

(* A step that leaves the policy alone. *)
LEMMA PermMoves ==
  ASSUME PermTypeOK, policy' = policy, session' \in Sessions, checker' \in [PermAgents -> CheckerRow],
         store' \in [Sessions -> SUBSET PermCalls], approved' \in [Sessions -> SUBSET PermCalls],
         question' \in [PermAgents -> QuestionRow]
  PROVE  PermTypeOK'
BY DEF PermTypeOK, CheckerRow, QuestionRow

LEMMA ReconfigureStep == PermInv /\ Reconfigure => PermInv'
<1> SUFFICES ASSUME PermInv, Reconfigure PROVE PermInv'
  OBVIOUS
<1>1. policy \in Policies /\ UNCHANGED <<session, checker, store, question, approved>>
  BY DEF PermInv, PermTypeOK, Reconfigure
<1>2. policy' \in Policies
  <2>1. CASE \E mode \in PermModes : policy' = [policy EXCEPT !.mode = mode]
    BY <1>1, <2>1 DEF Policies
  <2>2. CASE \E file \in {"user", "project", "local"}, e \in Effects : policy' = [policy EXCEPT ![file] = e]
    <3>1. PICK file \in {"user", "project", "local"}, e \in Effects : policy' = [policy EXCEPT ![file] = e]
      BY <2>2
    <3>2. CASE file = "user"
      BY <1>1, <3>1, <3>2 DEF Policies
    <3>3. CASE file = "project"
      BY <1>1, <3>1, <3>3 DEF Policies
    <3>4. CASE file = "local"
      BY <1>1, <3>1, <3>4 DEF Policies
    <3> QED BY <3>1, <3>2, <3>3, <3>4
  <2>3. CASE \E es \in SUBSET (Effects \ {"none"}) : policy' = [policy EXCEPT !.scopes = es]
    BY <1>1, <2>3 DEF Policies
  <2>4. CASE policy' = [policy EXCEPT !.sandboxed = TRUE]
    BY <1>1, <2>4 DEF Policies
  <2> QED BY <2>1, <2>2, <2>3, <2>4 DEF Reconfigure
<1>3. PermTypeOK'
  BY <1>1, <1>2 DEF PermInv, PermTypeOK
<1>4. Settles => GrantsInOrder'
  BY <1>1 DEF PermInv, GrantsInOrder
<1> QED BY <1>3, <1>4 DEF PermInv

LEMMA QuestionCleared ==
  ASSUME NEW q \in QuestionRow
  PROVE  LET x == [q EXCEPT !.call = NoCommand]
         IN  x \in QuestionRow /\ x.call = NoCommand /\ x.in = q.in
BY DEF QuestionRow

(* An agent's question is asked or settled. *)
LEMMA QuestionStep ==
  ASSUME PermInv, NEW a \in PermAgents, NEW q \in QuestionRow,
         question' = [question EXCEPT ![a] = q],
         q.call # NoCommand => q.in = session,
         UNCHANGED <<policy, session, checker, store, approved>>
  PROVE  PermInv'
<1>1. question \in [PermAgents -> QuestionRow]
  BY DEF PermInv, PermTypeOK, QuestionRow
<1>2. question' \in [PermAgents -> QuestionRow] /\ question'[a] = q
      /\ \A b \in PermAgents \ {a} : question'[b] = question[b]
  BY <1>1, Assigned
<1>3. PermTypeOK'
  BY <1>2 DEF PermInv, PermTypeOK, QuestionRow
<1>4. Settles => GrantsInOrder'
  BY <1>2 DEF PermInv, GrantsInOrder, PermAgents
<1> QED BY <1>3, <1>4 DEF PermInv

LEMMA GrantStep == ASSUME PermInv, NEW a \in PermAgents, AnswerForSession(a) PROVE PermInv'
<1>0. /\ checker \in [PermAgents -> CheckerRow] /\ question \in [PermAgents -> QuestionRow]
      /\ store \in [Sessions -> SUBSET PermCalls] /\ approved \in [Sessions -> SUBSET PermCalls]
  BY DEF PermInv, PermTypeOK, CheckerRow, QuestionRow
<1>k. PICK k \in CheckerRow : k = checker[a]
  BY <1>0
<1>q. PICK q \in QuestionRow : q = question[a]
  BY <1>0
<1>m. PICK m : m = Merged(a)
  OBVIOUS
<1>t. PICK t : t = IF a = "lead" THEN q.in ELSE k.in
  OBVIOUS
<1>1. /\ k.in \in Sessions /\ k.grants \subseteq PermCalls
      /\ q.in \in Sessions /\ q.call \in PermCalls \cup {NoCommand} /\ t \in Sessions
  BY <1>k, <1>q, <1>t DEF CheckerRow, QuestionRow
<1>2. q.call # NoCommand /\ UNCHANGED <<policy, session>>
  BY <1>q DEF AnswerForSession
<1>3. m = k.grants \cup store[k.in] \cup {q.call} /\ m \in SUBSET PermCalls
  <2>1. m = k.grants \cup store[k.in] \cup {q.call}
    BY <1>k, <1>q, <1>m, Zenon DEF Merged, Granted
  <2> QED BY <1>0, <1>1, <1>2, <2>1
<1>x. PICK x : x = [k EXCEPT !.grants = m]
  OBVIOUS
<1>4. x \in CheckerRow /\ x.in = k.in /\ x.grants = m
  BY <1>3, <1>x DEF CheckerRow
<1>y. PICK y : y = [q EXCEPT !.call = NoCommand]
  OBVIOUS
<1>5. y \in QuestionRow /\ y.call = NoCommand
  BY <1>y, QuestionCleared, Zenon
<1>z. PICK z : z = approved[t] \cup {q.call}
  OBVIOUS
<1>6. z \in SUBSET PermCalls
  BY <1>0, <1>1, <1>2, <1>z
<1>7. checker' = [checker EXCEPT ![a] = x] /\ question' = [question EXCEPT ![a] = y]
      /\ store' = [store EXCEPT ![k.in] = m] /\ approved' = [approved EXCEPT ![t] = z]
  BY <1>k, <1>q, <1>m, <1>x, <1>y, <1>z, <1>t, Zenon DEF AnswerForSession
<1>8. /\ checker' \in [PermAgents -> CheckerRow] /\ checker'[a] = x
      /\ \A b \in PermAgents \ {a} : checker'[b] = checker[b]
  BY <1>0, <1>4, <1>7, Assigned
<1>9. /\ question' \in [PermAgents -> QuestionRow] /\ question'[a] = y
      /\ \A b \in PermAgents \ {a} : question'[b] = question[b]
  BY <1>0, <1>5, <1>7, Assigned
<1>10. /\ store' \in [Sessions -> SUBSET PermCalls] /\ store'[k.in] = m
       /\ \A s \in Sessions \ {k.in} : store'[s] = store[s]
  BY <1>0, <1>1, <1>3, <1>7, Assigned
<1>11. /\ approved' \in [Sessions -> SUBSET PermCalls] /\ approved'[t] = z
       /\ \A s \in Sessions \ {t} : approved'[s] = approved[s]
  BY <1>0, <1>1, <1>6, <1>7, Assigned
<1>12. PermTypeOK'
  BY <1>2, <1>8, <1>9, <1>10, <1>11, PermMoves DEF PermInv, PermTypeOK
<1>13. ASSUME Settles PROVE GrantsInOrder'
  <2>1. GrantsInOrder
    BY <1>13 DEF PermInv
  <2>2. t = k.in
    BY <1>2, <1>k, <1>q, <1>t, <2>1 DEF GrantsInOrder
  <2>3. m = z
    BY <1>1, <1>3, <1>k, <1>z, <2>1, <2>2 DEF GrantsInOrder
  <2>4. \A s \in Sessions : store'[s] = approved'[s]
    BY <1>10, <1>11, <2>1, <2>2, <2>3 DEF GrantsInOrder
  <2>5. \A s \in Sessions : store[s] \subseteq store'[s]
    BY <1>3, <1>10
  <2>6. \A b \in PermAgents : checker'[b].grants \subseteq store'[checker'[b].in]
    <3> SUFFICES ASSUME NEW b \in PermAgents PROVE checker'[b].grants \subseteq store'[checker'[b].in]
      OBVIOUS
    <3>1. CASE b = a
      BY <1>4, <1>8, <1>10, <3>1
    <3>2. CASE b # a
      <4>1. checker[b].in \in Sessions
        BY <1>0 DEF CheckerRow
      <4> QED BY <1>8, <2>1, <2>5, <3>2, <4>1 DEF GrantsInOrder
    <3> QED BY <3>1, <3>2
  <2>7. checker'["lead"].in = session' /\ (question'["lead"].call # NoCommand => question'["lead"].in = session')
    BY <1>2, <1>4, <1>5, <1>k, <1>8, <1>9, <2>1 DEF GrantsInOrder, PermAgents
  <2> QED BY <2>4, <2>6, <2>7 DEF GrantsInOrder
<1> QED BY <1>12, <1>13 DEF PermInv

LEMMA SwitchStep == ASSUME PermInv, NEW s \in Sessions, SwitchSession(s) PROVE PermInv'
<1>0. /\ checker \in [PermAgents -> CheckerRow] /\ question \in [PermAgents -> QuestionRow]
      /\ store \in [Sessions -> SUBSET PermCalls]
      /\ "lead" \in PermAgents
  BY DEF PermInv, PermTypeOK, CheckerRow, QuestionRow, PermAgents
<1>k. PICK k : k = [in |-> s, grants |-> store[s]]
  OBVIOUS
<1>1. k \in CheckerRow /\ k.in = s /\ k.grants = store[s]
  BY <1>0, <1>k DEF CheckerRow
<1>2. session' = s /\ checker' = [checker EXCEPT !["lead"] = k] /\ UNCHANGED <<policy, store, approved>>
  BY <1>k, Zenon DEF SwitchSession, Granted
<1>3. /\ checker' \in [PermAgents -> CheckerRow] /\ checker'["lead"] = k
      /\ \A b \in PermAgents \ {"lead"} : checker'[b] = checker[b]
  BY <1>0, <1>1, <1>2, Assigned
<1>4. /\ question' \in [PermAgents -> QuestionRow]
      /\ Settles => \A b \in PermAgents : question'[b].call = NoCommand
  <2>1. CASE Settles
    <3>1. question' = [b \in PermAgents |-> [question[b] EXCEPT !.call = NoCommand]]
      BY <2>1, Zenon DEF SwitchSession
    <3>2. ASSUME NEW b \in PermAgents
          PROVE  [question[b] EXCEPT !.call = NoCommand] \in QuestionRow
                 /\ [question[b] EXCEPT !.call = NoCommand].call = NoCommand
      BY <1>0, QuestionCleared
    <3> QED BY <3>1, <3>2
  <2>2. CASE ~Settles
    BY <1>0, <2>2 DEF SwitchSession
  <2> QED BY <2>1, <2>2
<1>5. PermTypeOK'
  BY <1>0, <1>2, <1>3, <1>4, PermMoves DEF PermInv, PermTypeOK
<1>6. ASSUME Settles PROVE GrantsInOrder'
  <2>1. GrantsInOrder
    BY <1>6 DEF PermInv
  <2> QED BY <1>0, <1>1, <1>2, <1>3, <1>4, <1>6, <2>1 DEF GrantsInOrder
<1> QED BY <1>5, <1>6 DEF PermInv

LEMMA PermInvNext == PermInv /\ [PermNext]_permVars => PermInv'
<1> SUFFICES ASSUME PermInv, [PermNext]_permVars PROVE PermInv'
  OBVIOUS
<1>0. /\ question \in [PermAgents -> QuestionRow] /\ checker \in [PermAgents -> CheckerRow]
      /\ session \in Sessions
      /\ "lead" \in PermAgents /\ "clone" \in PermAgents
  BY DEF PermInv, PermTypeOK, QuestionRow, CheckerRow, PermAgents
<1>1. CASE Reconfigure
  BY <1>1, ReconfigureStep
<1>2. CASE CloneChecker
  <2>1. checker' = [checker EXCEPT !["clone"] = checker["lead"]]
        /\ UNCHANGED <<policy, session, store, question, approved>>
    BY <1>2, Zenon DEF CloneChecker
  <2>2. checker' \in [PermAgents -> CheckerRow] /\ checker'["clone"] = checker["lead"]
        /\ checker'["lead"] = checker["lead"]
    BY <1>0, <2>1
  <2>3. PermTypeOK'
    BY <2>1, <2>2, PermMoves DEF PermInv, PermTypeOK, CheckerRow, QuestionRow
  <2>4. Settles => GrantsInOrder'
    BY <2>1, <2>2 DEF PermInv, GrantsInOrder, PermAgents
  <2> QED BY <2>3, <2>4 DEF PermInv
<1>3. ASSUME NEW a \in PermAgents, Ask(a) PROVE PermInv'
  <2>1. PICK c \in PermCalls : question' = [question EXCEPT ![a] = [call |-> c, in |-> session]]
    BY <1>3, Zenon DEF Ask
  <2>2. PICK q : q = [call |-> c, in |-> session]
    OBVIOUS
  <2>3. q \in QuestionRow /\ q.in = session
    BY <1>0, <2>2 DEF QuestionRow
  <2> QED BY <1>3, <2>1, <2>2, <2>3, QuestionStep DEF Ask
<1>4. ASSUME NEW a \in PermAgents, AnswerOnce(a) PROVE PermInv'
  <2>1. PICK q \in QuestionRow : q = question[a]
    BY <1>0
  <2>2. PICK x : x = [q EXCEPT !.call = NoCommand]
    OBVIOUS
  <2>3. x \in QuestionRow /\ x.call = NoCommand
    BY <2>2, QuestionCleared, Zenon
  <2>4. question' = [question EXCEPT ![a] = x]
    BY <1>4, <2>1, <2>2, Zenon DEF AnswerOnce
  <2> QED BY <1>4, <2>3, <2>4, QuestionStep DEF AnswerOnce
<1>5. ASSUME NEW a \in PermAgents, AnswerForSession(a) PROVE PermInv'
  BY <1>5, GrantStep
<1>6. ASSUME NEW s \in Sessions, SwitchSession(s) PROVE PermInv'
  BY <1>6, SwitchStep
<1>7. CASE UNCHANGED permVars
  <2>1. PermTypeOK'
    BY <1>7 DEF permVars, PermInv, PermTypeOK
  <2>2. Settles => GrantsInOrder'
    BY <1>7 DEF permVars, PermInv, GrantsInOrder
  <2> QED BY <2>1, <2>2 DEF PermInv
<1> QED BY <1>1, <1>2, <1>3, <1>4, <1>5, <1>6, <1>7 DEF PermNext

-----------------------------------------------------------------------------
(* The skill catalog.  What ends an installation touches the directory, so a   *)
(* loader that noticed no change since its last scan either shows what is      *)
(* installed, or an installation that it saw in its staging directory is still *)
(* under way.                                                                *)
Named == [version : Installers \cup {NoVersion, Old}, left : {"whole", "part", "bare"}]
CatalogRow == [shows : Named, changed : BOOLEAN, scanning : BOOLEAN, missed : BOOLEAN]
Phases == {"none", "begun", "manifest", "whole"}
InstallPlace == Ended \cup InFlight

SkillTypes ==
  /\ installed \in Named
  /\ victim \in [Installers -> Installers \cup {NoVersion, Old}]
  /\ staging \in [Installers -> Phases]
  /\ install \in [Installers -> InstallPlace]
  /\ catalog \in [Loaders -> CatalogRow]
  /\ mishaps \in [stopped : SUBSET Installers, had : BOOLEAN]

\* Where an installer is with its staging directory.
StagingFits(st, dir) ==
  /\ st \in {"idle", "done", "failed"} => dir = "none"
  /\ st = "fetching" => dir \in {"begun", "manifest"}
  /\ st \in {"fetched", "removing", "deleting", "moving"} => dir = "whole"

\* No change was noticed since the last scan.
Blank(c) == ~c.missed /\ (c.scanning \/ ~c.changed)
NothingStopped == mishaps.stopped = {}
UnderWay == \E i \in Installers : install[i] \in InFlight
BeingMoved == \E i \in Installers : install[i] = "moving"

\* What is torn is being removed, or its removal failed or was cut short.
Torn ==
  installed.left # "whole" =>
    \E i \in Installers : /\ victim[i] = installed.version
                          /\ install[i] \in {"deleting", "failed", "stopped"}

SkillInv ==
  /\ SkillTypes
  /\ Torn
  /\ \A i \in Installers : /\ StagingFits(install[i], staging[i])
                           /\ install[i] = "stopped" => i \in mishaps.stopped
  /\ NothingStopped /\ mishaps.had => installed.version # NoVersion \/ BeingMoved
  /\ NothingStopped => \A l \in Loaders : Blank(catalog[l]) => catalog[l].shows = FoundSkill \/ UnderWay

LEMMA SkillInvGives == SkillInv => SkillTypeOK /\ InstalledWhole /\ CatalogTrue
<1> SUFFICES ASSUME SkillInv PROVE SkillTypeOK /\ InstalledWhole /\ CatalogTrue
  OBVIOUS
<1>1. SkillTypeOK
  BY DEF SkillInv, SkillTypes, SkillTypeOK, Named, Phases, InstallPlace, InFlight
<1>2. ASSUME NothingStopped, \A i \in Installers : install[i] \in Ended
      PROVE  /\ \A i \in Installers : staging[i] = "none"
             /\ ~UnderWay /\ ~BeingMoved
  <2>1. \A i \in Installers : install[i] \notin InFlight /\ install[i] # "stopped"
    BY <1>2 DEF Ended, InFlight, SkillInv, NothingStopped
  <2>2. \A i \in Installers : install[i] \in {"idle", "done", "failed"}
    BY <1>2, <2>1 DEF Ended
  <2> QED BY <2>1, <2>2 DEF SkillInv, StagingFits, UnderWay, BeingMoved, InFlight
<1>3. InstalledWhole
  <2>1. Torn
    BY DEF SkillInv
  <2>2. ASSUME NothingStopped, \A i \in Installers : install[i] \in Ended
        PROVE  /\ \A i \in Installers : staging[i] = "none"
               /\ mishaps.had => installed.version # NoVersion
    BY <1>2, <2>2 DEF SkillInv
  <2> QED BY <2>1, <2>2 DEF InstalledWhole, Torn, NothingStopped
<1>4. CatalogTrue
  <2> SUFFICES ASSUME NEW l \in Loaders, NothingStopped, \A i \in Installers : install[i] \in Ended,
                      ~catalog[l].changed, ~catalog[l].scanning, ~catalog[l].missed
               PROVE  catalog[l].shows = FoundSkill
    BY Zenon DEF CatalogTrue, NothingStopped
  <2>1. ~UnderWay
    BY <1>2
  <2>2. Blank(catalog[l])
    BY Zenon DEF Blank
  <2> QED BY <2>1, <2>2, Zenon DEF SkillInv
<1> QED BY <1>1, <1>3, <1>4

LEMMA SkillInvInit == SkillInit => SkillInv
<1> SUFFICES ASSUME SkillInit PROVE SkillInv
  OBVIOUS
<1>1. PICK v \in {NoVersion, Old} : installed = [version |-> v, left |-> "whole"]
  BY DEF SkillInit
<1>2. installed \in Named /\ installed.left = "whole" /\ installed.version = v
  BY <1>1 DEF Named
<1>3. PICK s \in Named : s = installed
  BY <1>2
<1>4. \A l \in Loaders : catalog[l] = [shows |-> s, changed |-> FALSE, scanning |-> FALSE, missed |-> FALSE]
  BY <1>3 DEF SkillInit
<1>5. catalog \in [Loaders -> CatalogRow]
  <2>1. [shows |-> s, changed |-> FALSE, scanning |-> FALSE, missed |-> FALSE] \in CatalogRow
    BY DEF CatalogRow
  <2>2. catalog = [l \in Loaders |-> [shows |-> s, changed |-> FALSE, scanning |-> FALSE, missed |-> FALSE]]
    BY <1>3, Zenon DEF SkillInit
  <2> QED BY <2>1, <2>2
<1>6. PICK b \in BOOLEAN : b = (installed.version = Old)
  OBVIOUS
<1>7. mishaps = [stopped |-> {}, had |-> b]
  BY <1>6, Zenon DEF SkillInit
<1>8. b => installed.version # NoVersion
  <2>1. Old # NoVersion
    BY SkillAssumption
  <2> QED BY <1>6, <2>1, Zenon
<1>9. mishaps \in [stopped : SUBSET Installers, had : BOOLEAN] /\ mishaps.had = b
  BY <1>7
<1>10. /\ staging \in [Installers -> Phases] /\ install \in [Installers -> InstallPlace]
       /\ \A i \in Installers : staging[i] = "none" /\ install[i] = "idle"
  BY DEF SkillInit, Phases, InstallPlace, Ended
<1>11. \A i \in Installers : StagingFits(install[i], staging[i]) /\ install[i] # "stopped"
  BY <1>10 DEF StagingFits
<1>12. \A l \in Loaders : catalog[l].shows = FoundSkill
  BY <1>2, <1>3, <1>4 DEF FoundSkill
<1>13. SkillTypes
  <2>1. victim \in [Installers -> Installers \cup {NoVersion, Old}]
    BY DEF SkillInit
  <2> QED BY <1>2, <1>5, <1>9, <1>10, <2>1 DEF SkillTypes
<1>14. Torn
  BY <1>2 DEF Torn
<1> QED BY <1>8, <1>9, <1>11, <1>12, <1>13, <1>14 DEF SkillInv

(* After a touch every loader has a change to notice. *)
LEMMA RowTouched ==
  ASSUME NEW r \in CatalogRow
  PROVE  LET q == [r EXCEPT !.changed = TRUE, !.missed = @ \/ r.scanning]
         IN  q \in CatalogRow /\ ~Blank(q)
<1>1. r.scanning \in BOOLEAN /\ r.missed \in BOOLEAN
  BY DEF CatalogRow
<1>2. PICK b \in BOOLEAN : b = (r.missed \/ r.scanning)
  OBVIOUS
<1>3. PICK q : q = [r EXCEPT !.changed = TRUE, !.missed = b]
  OBVIOUS
<1>4. q \in CatalogRow /\ q.changed /\ q.missed = b /\ q.scanning = r.scanning
  BY <1>3 DEF CatalogRow
<1>5. ~Blank(q)
  BY <1>2, <1>4, Zenon DEF Blank
<1>6. [r EXCEPT !.changed = TRUE, !.missed = @ \/ r.scanning] = q
  BY <1>2, <1>3, Zenon
<1> QED BY <1>4, <1>5, <1>6, Zenon

LEMMA AllTouched ==
  ASSUME SkillTypes, Touched
  PROVE  catalog' \in [Loaders -> CatalogRow] /\ \A l \in Loaders : ~Blank(catalog'[l])
<1>1. \A l \in Loaders : catalog[l] \in CatalogRow
  BY DEF SkillTypes
<1>2. ASSUME NEW l \in Loaders
      PROVE  LET q == [catalog[l] EXCEPT !.changed = TRUE, !.missed = @ \/ catalog[l].scanning]
             IN  q \in CatalogRow /\ ~Blank(q)
  BY <1>1, RowTouched, Zenon
<1>3. catalog' = [l \in Loaders |-> [catalog[l] EXCEPT !.changed = TRUE, !.missed = @ \/ catalog[l].scanning]]
  BY Zenon DEF Touched
<1>4. \A l \in Loaders : catalog'[l] = [catalog[l] EXCEPT !.changed = TRUE, !.missed = @ \/ catalog[l].scanning]
  BY <1>3, Zenon
<1>5. \A l \in Loaders : catalog'[l] \in CatalogRow /\ ~Blank(catalog'[l])
  BY <1>2, <1>4, Zenon
<1>6. catalog' = [l \in Loaders |-> catalog'[l]]
  BY <1>3
<1> QED BY <1>5, <1>6

(* An installer goes on, and its staging directory with it. *)
InstallerGoes(i, to, dir) ==
  /\ install' \in [Installers -> InstallPlace] /\ install'[i] = to
  /\ \A j \in Installers \ {i} : install'[j] = install[j]
  /\ staging' \in [Installers -> Phases] /\ staging'[i] = dir
  /\ \A j \in Installers \ {i} : staging'[j] = staging[j]

LEMMA InstallerMoves ==
  ASSUME SkillTypes, NEW i \in Installers, NEW to \in InstallPlace, NEW dir \in Phases,
         install' = [install EXCEPT ![i] = to], staging' = [staging EXCEPT ![i] = dir]
  PROVE  InstallerGoes(i, to, dir)
<1>1. install \in [Installers -> InstallPlace] /\ staging \in [Installers -> Phases]
  BY DEF SkillTypes
<1>2. /\ install' \in [Installers -> InstallPlace] /\ install'[i] = to
      /\ \A j \in Installers \ {i} : install'[j] = install[j]
  BY <1>1, Assigned
<1>3. /\ staging' \in [Installers -> Phases] /\ staging'[i] = dir
      /\ \A j \in Installers \ {i} : staging'[j] = staging[j]
  BY <1>1, Assigned
<1> QED BY <1>2, <1>3 DEF InstallerGoes

LEMMA InstallerSame ==
  ASSUME SkillTypes, NEW f, NEW d, NEW i \in Installers, f = install \/ f = staging, f[i] = d
  PROVE  f = [f EXCEPT ![i] = d]
BY DEF SkillTypes

(* An installer that goes on leaves what is torn explained. *)
LEMMA TornKept ==
  ASSUME Torn, NEW i \in Installers, NEW to, NEW dir, InstallerGoes(i, to, dir),
         UNCHANGED <<installed, victim>>,
         install[i] \in {"deleting", "failed", "stopped"} => to \in {"deleting", "failed", "stopped"}
  PROVE  Torn'
<1>1. /\ installed' = installed /\ victim' = victim
      /\ \A j \in Installers : install[j] \in {"deleting", "failed", "stopped"}
                              => install'[j] \in {"deleting", "failed", "stopped"}
  BY DEF InstallerGoes
<1> QED BY <1>1 DEF Torn

(* A step that touches the directory. *)
LEMMA TouchStep ==
  ASSUME SkillInv, NEW i \in Installers, NEW to, NEW dir, InstallerGoes(i, to, dir),
         to # "stopped", StagingFits(to, dir), Touched,
         installed' \in Named, UNCHANGED victim, Torn',
         mishaps' \in [stopped : SUBSET Installers, had : BOOLEAN],
         mishaps'.stopped = mishaps.stopped,
         NothingStopped /\ mishaps'.had => installed'.version # NoVersion \/ BeingMoved'
  PROVE  SkillInv'
<1>0. SkillTypes
  BY DEF SkillInv
<1>1. catalog' \in [Loaders -> CatalogRow] /\ \A l \in Loaders : ~Blank(catalog'[l])
  BY <1>0, AllTouched
<1>2. SkillTypes'
  <2>1. victim' = victim
    OBVIOUS
  <2> QED BY <1>0, <1>1, <2>1, Z3 DEF SkillTypes, InstallerGoes
<1>3. \A j \in Installers : /\ StagingFits(install'[j], staging'[j])
                            /\ install'[j] = "stopped" => j \in mishaps'.stopped
  BY DEF InstallerGoes, SkillInv
<1>4. NothingStopped' /\ mishaps'.had => installed'.version # NoVersion \/ BeingMoved'
  BY DEF NothingStopped
<1> QED BY <1>1, <1>2, <1>3, <1>4 DEF SkillInv

(* A step of an installation under way that leaves the directory's time alone. *)
LEMMA QuietInstallStep ==
  ASSUME SkillInv, NEW i \in Installers, NEW to \in InFlight, NEW dir, InstallerGoes(i, to, dir),
         StagingFits(to, dir), install[i] \in InFlight, install[i] = "moving" => to = "moving",
         UNCHANGED <<catalog, mishaps>>, Torn', installed' \in Named,
         installed'.version = installed.version,
         victim' \in [Installers -> Installers \cup {NoVersion, Old}]
  PROVE  SkillInv'
<1>1. SkillTypes'
  BY DEF SkillInv, SkillTypes, InstallerGoes
<1>2. \A j \in Installers : /\ StagingFits(install'[j], staging'[j])
                            /\ install'[j] = "stopped" => j \in mishaps'.stopped
  BY DEF InstallerGoes, SkillInv, InFlight
<1>3. BeingMoved => BeingMoved'
  BY DEF InstallerGoes, BeingMoved
<1>4. UnderWay'
  BY DEF InstallerGoes, UnderWay
<1>5. NothingStopped' /\ mishaps'.had => installed'.version # NoVersion \/ BeingMoved'
  BY <1>3 DEF SkillInv, NothingStopped
<1>6. NothingStopped' => \A l \in Loaders : Blank(catalog'[l]) => catalog'[l].shows = FoundSkill' \/ UnderWay'
  BY <1>4
<1> QED BY <1>1, <1>2, <1>5, <1>6 DEF SkillInv

LEMMA CrashedStep == ASSUME SkillInv, NEW i \in Installers, SkillStopped(i) PROVE SkillInv'
<1>0. SkillTypes
  BY DEF SkillInv
<1>t. PICK to \in InstallPlace : to = "stopped"
  BY DEF InstallPlace, Ended
<1>d. PICK dir \in Phases : dir = staging[i]
  BY <1>0 DEF SkillTypes
<1>m. PICK m \in [stopped : SUBSET Installers, had : BOOLEAN] : m = mishaps
  BY <1>0 DEF SkillTypes
<1>1. install' = [install EXCEPT ![i] = to] /\ UNCHANGED <<installed, staging, victim, catalog>>
  BY <1>t, Zenon DEF SkillStopped
<1>2. staging' = [staging EXCEPT ![i] = dir]
  BY <1>0, <1>1, <1>d DEF SkillTypes
<1>3. InstallerGoes(i, to, dir)
  BY <1>0, <1>1, <1>2, InstallerMoves
<1>s. PICK s \in SUBSET Installers : s = m.stopped \cup {i}
  OBVIOUS
<1>4. mishaps' = [m EXCEPT !.stopped = s]
  BY <1>m, <1>s, Zenon DEF SkillStopped
<1>5. mishaps' \in [stopped : SUBSET Installers, had : BOOLEAN] /\ mishaps'.stopped = s
  BY <1>4
<1>6. i \in mishaps'.stopped /\ mishaps.stopped \subseteq mishaps'.stopped
  BY <1>m, <1>s, <1>5
<1>7. SkillTypes'
  BY <1>0, <1>1, <1>3, <1>5 DEF SkillTypes, InstallerGoes
<1>8. \A j \in Installers : /\ StagingFits(install'[j], staging'[j])
                            /\ install'[j] = "stopped" => j \in mishaps'.stopped
  BY <1>3, <1>t, <1>6 DEF InstallerGoes, SkillInv, StagingFits
<1>9. Torn'
  BY <1>1, <1>3, <1>t, TornKept DEF SkillInv
<1> QED BY <1>6, <1>7, <1>8, <1>9 DEF SkillInv, NothingStopped

LEMMA LoaderStep ==
  ASSUME SkillInv, NEW l \in Loaders, NEW q \in CatalogRow, catalog' = [catalog EXCEPT ![l] = q],
         NothingStopped /\ Blank(q) => q.shows = FoundSkill \/ UnderWay,
         UNCHANGED <<installed, staging, install, victim, mishaps>>
  PROVE  SkillInv'
<1>1. catalog \in [Loaders -> CatalogRow]
  BY DEF SkillInv, SkillTypes
<1>2. /\ catalog' \in [Loaders -> CatalogRow] /\ catalog'[l] = q
      /\ \A k \in Loaders \ {l} : catalog'[k] = catalog[k]
  BY <1>1, Assigned
<1>3. SkillTypes'
  BY <1>2 DEF SkillInv, SkillTypes
<1>4. (NothingStopped' <=> NothingStopped) /\ (BeingMoved' <=> BeingMoved) /\ (UnderWay' <=> UnderWay)
  BY Zenon DEF NothingStopped, BeingMoved, UnderWay
<1>5. NothingStopped' => \A k \in Loaders : Blank(catalog'[k]) => catalog'[k].shows = FoundSkill' \/ UnderWay'
  <2>1. FoundSkill' = FoundSkill
    BY DEF FoundSkill
  <2> QED BY <1>2, <1>4, <2>1 DEF SkillInv
<1>6. Torn'
  BY DEF SkillInv, Torn
<1> QED BY <1>3, <1>4, <1>5, <1>6 DEF SkillInv

(* What a scan finds is what is installed, unless an installation is under way. *)
LEMMA ScanFinds ==
  ASSUME SkillInv, NEW s \in Scan
  PROVE  s \in Named /\ (NothingStopped => s = FoundSkill \/ UnderWay)
<1>0. installed \in Named /\ staging \in [Installers -> Phases] /\ install \in [Installers -> InstallPlace]
  BY DEF SkillInv, SkillTypes
<1> DEFINE staged == {i \in Installers : staging[i] \in {"manifest", "whole"}}
<1>1. CASE staged = {}
  <2>1. s = FoundSkill
    BY <1>1 DEF Scan
  <2>2. FoundSkill \in Named
    BY <1>0 DEF FoundSkill, NoSkill, Named
  <2> QED BY <2>1, <2>2
<1>2. CASE staged # {}
  <2>1. PICK i \in staged : s = [version |-> i, left |-> LeftOf(staging[i])]
    BY <1>2, Zenon DEF Scan
  <2>2. i \in Installers /\ staging[i] # "none"
    BY <2>1
  <2>3. PICK b \in {"whole", "part"} : b = LeftOf(staging[i])
    BY DEF LeftOf
  <2>4. s = [version |-> i, left |-> b]
    BY <2>1, <2>3, Zenon
  <2>5. s \in Named
    BY <2>2, <2>4 DEF Named
  <2>6. NothingStopped => install[i] \in InFlight
    BY <1>0, <2>2 DEF SkillInv, StagingFits, NothingStopped, InstallPlace, Ended, InFlight
  <2> QED BY <2>2, <2>5, <2>6 DEF UnderWay
<1> QED BY <1>1, <1>2

LEMMA RowScanned ==
  ASSUME NEW r \in CatalogRow, NEW s \in Named
  PROVE  LET q == [r EXCEPT !.shows = s, !.scanning = TRUE, !.missed = FALSE]
         IN  q \in CatalogRow /\ q.shows = s
BY DEF CatalogRow

LEMMA SkillQuiet ==
  ASSUME NEW r \in CatalogRow
  PROVE  LET q == [r EXCEPT !.scanning = FALSE, !.changed = FALSE]
         IN  q \in CatalogRow /\ q.shows = r.shows /\ q.missed = r.missed
BY DEF CatalogRow

LEMMA InstallSteps ==
  ASSUME SkillInv, NEW i \in Installers,
         \/ SkillStages(i) \/ SkillArrives(i) \/ SkillFetched(i) \/ SkillFails(i)
         \/ SkillLooks(i) \/ SkillOpens(i) \/ SkillDeletes(i) \/ SkillRemoves(i)
         \/ SkillRemoveFails(i) \/ SkillMoves(i) \/ SkillMoveFails(i)
  PROVE  SkillInv'
<1>0. /\ SkillTypes /\ StagingFits(install[i], staging[i])
      /\ install \in [Installers -> InstallPlace] /\ staging \in [Installers -> Phases]
      /\ installed \in Named /\ Torn
      /\ victim \in [Installers -> Installers \cup {NoVersion, Old}]
      /\ mishaps \in [stopped : SUBSET Installers, had : BOOLEAN]
      /\ NothingStopped /\ mishaps.had => installed.version # NoVersion \/ BeingMoved
  BY DEF SkillInv, SkillTypes
<1>n. /\ \A x \in Ended \cup InFlight : x \in InstallPlace
      /\ NoSkill \in Named /\ NoSkill.left = "whole" /\ NoSkill.version = NoVersion
  BY DEF InstallPlace, NoSkill, Named
<1>1. CASE SkillStages(i)
  <2>t. PICK to \in InstallPlace : to = "fetching"
    BY DEF InstallPlace, InFlight
  <2>d. PICK dir \in Phases : dir = "begun"
    BY DEF Phases
  <2>1. /\ install[i] = "idle" /\ install' = [install EXCEPT ![i] = to]
        /\ staging' = [staging EXCEPT ![i] = dir] /\ Touched /\ UNCHANGED <<installed, victim, mishaps>>
    BY <1>1, <2>t, <2>d, Zenon DEF SkillStages, Proceeds
  <2>2. InstallerGoes(i, to, dir) /\ StagingFits(to, dir)
    BY <1>0, <2>1, <2>t, <2>d, InstallerMoves DEF StagingFits
  <2>3. BeingMoved => BeingMoved'
    BY <2>1, <2>2 DEF InstallerGoes, BeingMoved
  <2>4. Torn'
    BY <1>0, <2>1, <2>2, <2>t, TornKept
  <2> QED BY <1>0, <2>1, <2>2, <2>3, <2>4, <2>t, TouchStep
<1>2. CASE SkillArrives(i)
  <2>t. PICK to \in InstallPlace : to = "fetching"
    BY DEF InstallPlace, InFlight
  <2>d. PICK dir \in Phases : dir = "manifest"
    BY DEF Phases
  <2>1. /\ install[i] = "fetching" /\ UNCHANGED <<installed, install, victim, catalog, mishaps>>
        /\ staging' = [staging EXCEPT ![i] = dir]
    BY <1>2, <2>d, Zenon DEF SkillArrives
  <2>2. install' = [install EXCEPT ![i] = to]
    BY <1>0, <2>1, <2>t
  <2>3. InstallerGoes(i, to, dir) /\ StagingFits(to, dir) /\ to \in InFlight
    BY <1>0, <2>1, <2>2, <2>t, <2>d, InstallerMoves DEF StagingFits, InFlight
  <2>4. Torn'
    BY <1>0, <2>1, <2>3, <2>t, TornKept
  <2> QED BY <1>0, <2>1, <2>3, <2>4, <2>t, QuietInstallStep DEF InFlight
<1>3. CASE SkillFetched(i)
  <2>t. PICK to \in InstallPlace : to = "fetched"
    BY DEF InstallPlace, InFlight
  <2>d. PICK dir \in Phases : dir = "whole"
    BY DEF Phases
  <2>1. /\ install[i] = "fetching" /\ install' = [install EXCEPT ![i] = to]
        /\ UNCHANGED <<installed, victim, catalog, mishaps>>
        /\ staging' = [staging EXCEPT ![i] = dir]
    BY <1>3, <2>t, <2>d, Zenon DEF SkillFetched, Proceeds
  <2>2. InstallerGoes(i, to, dir) /\ StagingFits(to, dir) /\ to \in InFlight /\ install[i] \in InFlight
    BY <1>0, <2>1, <2>t, <2>d, InstallerMoves DEF StagingFits, InFlight
  <2>3. Torn'
    BY <1>0, <2>1, <2>2, <2>t, TornKept
  <2> QED BY <1>0, <2>1, <2>2, <2>3, <2>t, QuietInstallStep
<1>4. CASE SkillFails(i)
  <2>t. PICK to \in InstallPlace : to = "failed"
    BY DEF InstallPlace, Ended
  <2>d. PICK dir \in Phases : dir = "none"
    BY DEF Phases
  <2>1. /\ install[i] = "fetching" /\ install' = [install EXCEPT ![i] = to]
        /\ staging' = [staging EXCEPT ![i] = dir] /\ Touched /\ UNCHANGED <<installed, victim, mishaps>>
    BY <1>4, <2>t, <2>d, Zenon DEF SkillFails, Proceeds, Cleans
  <2>2. InstallerGoes(i, to, dir) /\ StagingFits(to, dir)
    BY <1>0, <2>1, <2>t, <2>d, InstallerMoves DEF StagingFits
  <2>3. BeingMoved => BeingMoved'
    BY <2>1, <2>2 DEF InstallerGoes, BeingMoved
  <2>4. Torn'
    BY <1>0, <2>1, <2>2, <2>t, TornKept
  <2> QED BY <1>0, <2>1, <2>2, <2>3, <2>4, <2>t, TouchStep
<1>5. CASE SkillLooks(i)
  <2>t. PICK to \in InstallPlace : to = IF installed.version = NoVersion THEN "moving" ELSE "removing"
    BY DEF InstallPlace, InFlight
  <2>d. PICK dir \in Phases : dir = staging[i]
    BY <1>0
  <2>1. /\ install[i] = "fetched" /\ install' = [install EXCEPT ![i] = to]
        /\ UNCHANGED <<installed, victim, catalog, mishaps, staging>>
    BY <1>5, <2>t, Zenon DEF SkillLooks, Proceeds
  <2>2. staging' = [staging EXCEPT ![i] = dir]
    BY <1>0, <2>1, <2>d
  <2>3. to \in {"moving", "removing"} /\ dir = "whole"
    BY <1>0, <2>1, <2>t, <2>d DEF StagingFits
  <2>4. InstallerGoes(i, to, dir) /\ StagingFits(to, dir) /\ to \in InFlight /\ install[i] \in InFlight
    BY <1>0, <2>1, <2>2, <2>3, InstallerMoves DEF StagingFits, InFlight
  <2>5. Torn'
    BY <1>0, <2>1, <2>4, TornKept
  <2> QED BY <1>0, <2>1, <2>4, <2>5, <2>t, QuietInstallStep
<1>6. CASE SkillOpens(i)
  <2>t. PICK to \in InstallPlace : to = "deleting"
    BY DEF InstallPlace, InFlight
  <2>d. PICK dir \in Phases : dir = staging[i]
    BY <1>0
  <2>v. PICK v \in Installers \cup {NoVersion, Old} : v = installed.version
    BY <1>0 DEF Named
  <2>1. /\ install[i] = "removing" /\ install' = [install EXCEPT ![i] = to]
        /\ victim' = [victim EXCEPT ![i] = v] /\ UNCHANGED <<installed, catalog, mishaps, staging>>
    BY <1>6, <2>t, <2>v, Zenon DEF SkillOpens, Proceeds
  <2>2. staging' = [staging EXCEPT ![i] = dir]
    BY <1>0, <2>1, <2>d
  <2>3. InstallerGoes(i, to, dir) /\ StagingFits(to, dir) /\ to \in InFlight /\ install[i] \in InFlight
    BY <1>0, <2>1, <2>2, <2>t, <2>d, InstallerMoves DEF StagingFits, InFlight
  <2>4. victim' \in [Installers -> Installers \cup {NoVersion, Old}] /\ victim'[i] = installed.version
    BY <1>0, <2>1, <2>v, Assigned
  <2>5. Torn'
    BY <2>1, <2>3, <2>4, <2>t DEF Torn, InstallerGoes
  <2> QED BY <1>0, <2>1, <2>3, <2>4, <2>5, QuietInstallStep
<1>7. CASE SkillDeletes(i)
  <2>t. PICK to \in InstallPlace : to = "deleting"
    BY DEF InstallPlace, InFlight
  <2>d. PICK dir \in Phases : dir = staging[i]
    BY <1>0
  <2>i. PICK n \in Named : n = installed
    BY <1>0
  <2>1. /\ install[i] = "deleting" /\ n.version = victim[i]
        /\ UNCHANGED <<install, staging, victim, catalog, mishaps>>
    BY <1>7, <2>i, Zenon DEF SkillDeletes
  <2>2. PICK left \in {"part", "bare"} : installed' = [n EXCEPT !.left = left]
    BY <1>7, <2>i, Zenon DEF SkillDeletes
  <2>3. installed' \in Named /\ installed'.version = installed.version
    BY <2>2, <2>i DEF Named
  <2>4. install' = [install EXCEPT ![i] = to] /\ staging' = [staging EXCEPT ![i] = dir]
    BY <1>0, <2>1, <2>t, <2>d
  <2>5. InstallerGoes(i, to, dir) /\ StagingFits(to, dir) /\ to \in InFlight /\ install[i] \in InFlight
    BY <1>0, <2>1, <2>4, <2>t, <2>d, InstallerMoves DEF StagingFits, InFlight
  <2>6. Torn'
    BY <2>1, <2>3, <2>i DEF Torn
  <2> QED BY <1>0, <2>1, <2>3, <2>5, <2>6, QuietInstallStep
<1>8. CASE SkillRemoves(i)
  <2>0. install[i] = "deleting" /\ Touched /\ UNCHANGED <<victim, mishaps>>
    BY <1>8 DEF SkillRemoves, Proceeds
  <2>t. PICK to \in InstallPlace : to = "moving"
    BY DEF InstallPlace, InFlight
  <2>d. PICK dir \in Phases : dir = staging[i]
    BY <1>0
  <2>1. install' = [install EXCEPT ![i] = to] /\ installed' = NoSkill /\ UNCHANGED staging
    BY <1>8, <2>t, Zenon DEF SkillRemoves, Proceeds
  <2>2. staging' = [staging EXCEPT ![i] = dir]
    BY <1>0, <2>1, <2>d
  <2>3. InstallerGoes(i, to, dir) /\ StagingFits(to, dir)
    BY <1>0, <2>0, <2>1, <2>2, <2>t, <2>d, InstallerMoves DEF StagingFits
  <2>4. BeingMoved' /\ Torn'
    BY <1>n, <2>1, <2>t, <2>3 DEF InstallerGoes, BeingMoved, Torn
  <2> QED BY <1>0, <1>n, <2>0, <2>1, <2>3, <2>4, <2>t, TouchStep
<1>9. CASE SkillRemoveFails(i)
  <2>t. PICK to \in InstallPlace : to = "failed"
    BY DEF InstallPlace, Ended
  <2>d. PICK dir \in Phases : dir = "none"
    BY DEF Phases
  <2>1. /\ install[i] \in {"removing", "deleting"} /\ install' = [install EXCEPT ![i] = to]
        /\ staging' = [staging EXCEPT ![i] = dir] /\ Touched /\ UNCHANGED <<installed, victim, mishaps>>
    BY <1>9, <2>t, <2>d, Zenon DEF SkillRemoveFails, Proceeds, Cleans
  <2>2. InstallerGoes(i, to, dir) /\ StagingFits(to, dir)
    BY <1>0, <2>1, <2>t, <2>d, InstallerMoves DEF StagingFits
  <2>3. BeingMoved => BeingMoved'
    BY <2>1, <2>2 DEF InstallerGoes, BeingMoved
  <2>4. Torn'
    BY <1>0, <2>1, <2>2, <2>t, TornKept
  <2> QED BY <1>0, <2>1, <2>2, <2>3, <2>4, <2>t, TouchStep
<1>10. CASE SkillMoves(i) \/ SkillMoveFails(i)
  <2>d. PICK dir \in Phases : dir = "none"
    BY DEF Phases
  <2>m. PICK m \in [stopped : SUBSET Installers, had : BOOLEAN] : m = mishaps
    BY <1>0
  <2>t. PICK to \in InstallPlace : to = IF SkillMoves(i) THEN "done" ELSE "failed"
    BY DEF InstallPlace, Ended
  <2>1. /\ install[i] = "moving" /\ Touched /\ staging' = [staging EXCEPT ![i] = dir]
        /\ mishaps' = [m EXCEPT !.had = TRUE] /\ UNCHANGED victim
        /\ install' = [install EXCEPT ![i] = to]
    BY <1>10, <2>d, <2>m, <2>t, Zenon DEF SkillMoves, SkillMoveFails, Proceeds, Cleans
  <2>2. /\ mishaps' \in [stopped : SUBSET Installers, had : BOOLEAN]
        /\ mishaps'.stopped = mishaps.stopped
    BY <2>m, <2>1
  <2>3. InstallerGoes(i, to, dir) /\ StagingFits(to, dir) /\ to # "stopped"
    BY <1>0, <2>1, <2>t, <2>d, InstallerMoves DEF StagingFits
  <2>4. installed' \in Named /\ installed'.version # NoVersion /\ Torn'
    <3>1. CASE SkillMoves(i)
      <4>1. staging[i] = "whole"
        BY <1>0, <2>1 DEF StagingFits
      <4>2. installed' = [version |-> i, left |-> "whole"]
        BY <3>1, <4>1 DEF SkillMoves, LeftOf
      <4>3. installed' \in Named /\ installed'.version = i /\ installed'.left = "whole"
        BY <4>2 DEF Named
      <4> QED BY <4>3, SkillAssumption DEF Torn
    <3>2. CASE ~SkillMoves(i)
      <4>1. installed.version # NoVersion /\ UNCHANGED installed
        BY <1>10, <3>2 DEF SkillMoveFails
      <4>2. Torn'
        BY <1>0, <2>1, <2>3, <3>2, <2>t, <4>1, TornKept
      <4> QED BY <1>0, <4>1, <4>2
    <3> QED BY <3>1, <3>2
  <2> QED BY <2>1, <2>2, <2>3, <2>4, TouchStep
<1> QED BY <1>1, <1>2, <1>3, <1>4, <1>5, <1>6, <1>7, <1>8, <1>9, <1>10

LEMMA RefusedStep == ASSUME SkillInv, NEW i \in Installers, SkillMoveRefused(i) PROVE SkillInv'
<1>0. SkillTypes
  BY DEF SkillInv
<1>t. PICK to \in InstallPlace : to = "failed"
  BY DEF InstallPlace, Ended
<1>d. PICK dir \in Phases : dir = "none"
  BY DEF Phases
<1>m. PICK m \in [stopped : SUBSET Installers, had : BOOLEAN] : m = mishaps
  BY <1>0 DEF SkillTypes
<1>1. /\ install[i] = "moving" /\ install' = [install EXCEPT ![i] = to] /\ Touched
      /\ staging' = [staging EXCEPT ![i] = dir] /\ UNCHANGED <<installed, victim>>
  BY <1>t, <1>d, Zenon DEF SkillMoveRefused, Proceeds, Cleans
<1>3. InstallerGoes(i, to, dir) /\ StagingFits(to, dir)
  BY <1>0, <1>1, <1>t, <1>d, InstallerMoves DEF StagingFits
<1>s. PICK s \in SUBSET Installers : s = m.stopped \cup {i}
  OBVIOUS
<1>4. mishaps' = [m EXCEPT !.stopped = s]
  BY <1>m, <1>s, Zenon DEF SkillMoveRefused
<1>5. mishaps' \in [stopped : SUBSET Installers, had : BOOLEAN] /\ mishaps'.stopped = s
  BY <1>4
<1>6. i \in mishaps'.stopped /\ mishaps.stopped \subseteq mishaps'.stopped
  BY <1>m, <1>s, <1>5
<1>7. SkillTypes'
  BY <1>0, <1>1, <1>3, <1>5, AllTouched DEF SkillTypes, InstallerGoes
<1>8. \A j \in Installers : /\ StagingFits(install'[j], staging'[j])
                            /\ install'[j] = "stopped" => j \in mishaps'.stopped
  BY <1>3, <1>t, <1>6 DEF InstallerGoes, SkillInv
<1>9. Torn'
  BY <1>1, <1>3, <1>t, TornKept DEF SkillInv
<1> QED BY <1>6, <1>7, <1>8, <1>9 DEF SkillInv, NothingStopped

LEMMA SkillInvNext == SkillInv /\ [SkillNext]_skillVars => SkillInv'
<1> SUFFICES ASSUME SkillInv, [SkillNext]_skillVars PROVE SkillInv'
  OBVIOUS
<1>0. \A l \in Loaders : catalog[l] \in CatalogRow
  BY DEF SkillInv, SkillTypes
<1>1. ASSUME NEW i \in Installers,
             \/ SkillStages(i) \/ SkillArrives(i) \/ SkillFetched(i) \/ SkillFails(i)
             \/ SkillLooks(i) \/ SkillOpens(i) \/ SkillDeletes(i) \/ SkillRemoves(i)
             \/ SkillRemoveFails(i) \/ SkillMoves(i) \/ SkillMoveFails(i)
      PROVE  SkillInv'
  BY <1>1, InstallSteps, Zenon
<1>2. ASSUME NEW i \in Installers, SkillStopped(i) \/ SkillMoveRefused(i) PROVE SkillInv'
  BY <1>2, CrashedStep, RefusedStep
<1>3. ASSUME NEW l \in Loaders, LoaderScans(l) PROVE SkillInv'
  <2>r. PICK r \in CatalogRow : r = catalog[l]
    BY <1>0
  <2>1. PICK s \in Scan :
          catalog' = [catalog EXCEPT ![l] = [@ EXCEPT !.shows = s, !.scanning = TRUE, !.missed = FALSE]]
    BY <1>3 DEF LoaderScans
  <2>2. s \in Named /\ (NothingStopped => s = FoundSkill \/ UnderWay)
    BY ScanFinds
  <2>3. PICK q : q = [r EXCEPT !.shows = s, !.scanning = TRUE, !.missed = FALSE]
    OBVIOUS
  <2>4. q \in CatalogRow /\ q.shows = s
    BY <2>2, <2>3, RowScanned, Zenon
  <2>5. catalog' = [catalog EXCEPT ![l] = q]
    BY <2>1, <2>r, <2>3, Zenon
  <2>6. UNCHANGED <<installed, staging, install, victim, mishaps>>
    BY <1>3, Zenon DEF LoaderScans
  <2> QED BY <2>2, <2>4, <2>5, <2>6, LoaderStep
<1>4. ASSUME NEW l \in Loaders, LoaderSnapshots(l) PROVE SkillInv'
  <2>r. PICK r \in CatalogRow : r = catalog[l]
    BY <1>0
  <2>1. r.scanning /\ UNCHANGED <<installed, staging, install, victim, mishaps>>
    BY <1>4, <2>r, Zenon DEF LoaderSnapshots
  <2>2. PICK q : q = [r EXCEPT !.scanning = FALSE, !.changed = FALSE]
    OBVIOUS
  <2>3. q \in CatalogRow /\ q.shows = r.shows /\ q.missed = r.missed
    BY <2>2, SkillQuiet, Zenon
  <2>4. Blank(q) => Blank(r)
    BY <2>1, <2>3, Zenon DEF Blank
  <2>5. NothingStopped /\ Blank(r) => r.shows = FoundSkill \/ UnderWay
    BY <2>r, Zenon DEF SkillInv
  <2>6. catalog' = [catalog EXCEPT ![l] = q]
    BY <1>4, <2>r, <2>2, Zenon DEF LoaderSnapshots
  <2>7. NothingStopped /\ Blank(q) => q.shows = FoundSkill \/ UnderWay
    BY <2>3, <2>4, <2>5, Zenon
  <2> QED BY <2>1, <2>3, <2>6, <2>7, LoaderStep
<1>5. CASE UNCHANGED skillVars
  <2>1. /\ installed' = installed /\ staging' = staging /\ install' = install
        /\ catalog' = catalog /\ mishaps' = mishaps /\ victim' = victim
    BY <1>5 DEF skillVars
  <2>2. SkillTypes'
    BY <2>1 DEF SkillInv, SkillTypes
  <2>3. (NothingStopped' <=> NothingStopped) /\ (BeingMoved' <=> BeingMoved) /\ (UnderWay' <=> UnderWay)
    BY <2>1, Zenon DEF NothingStopped, BeingMoved, UnderWay
  <2>4. Torn' /\ FoundSkill' = FoundSkill
    BY <2>1 DEF SkillInv, Torn, FoundSkill
  <2> QED BY <2>1, <2>2, <2>3, <2>4 DEF SkillInv
<1> QED BY <1>1, <1>2, <1>3, <1>4, <1>5 DEF SkillNext

-----------------------------------------------------------------------------
(* The servers of the MCP manager.  The start has a client of each server it   *)
(* got to but for the failed ones, whose connections are closed; a connection  *)
(* is up or on the way only if a client holds it, if the start is at it, or if *)
(* a call of one of its tools began before the release.                       *)
LinkStates == {"off", "opening", "up", "closing"}
StartPlaces == {"next", "connect", "list", "drop", "cleanup"} \cup StartOver
StartRow == [at : StartPlaces, i : 1..(Len(Servers) + 1), failed : SUBSET Hosts]
StopRow == [at : {"idle", "await", "close", "closing", "done", "cut"}, i : 1..(Len(Servers) + 1)]
ToolUseRow == [at : {"no", "reopen", "opening", "over"}, begun : BOOLEAN]

ServersTypes ==
  /\ link \in [Hosts -> LinkStates] /\ clients \in SUBSET Hosts /\ exposed \in SUBSET Hosts
  /\ starting \in StartRow /\ stopping \in StopRow
  /\ hosted \in [before : BOOLEAN, now : BOOLEAN]
  /\ use \in [Hosts -> ToolUseRow]

\* The servers the start had done with when it came to the k-th one.
UpTo(k) == {Servers[j] : j \in 1..(k - 1)}
Dropping(s) == starting.at = "drop" /\ s = Now
Linked(s) == link[s] \in {"up", "opening"}

StartFits ==
  /\ starting.at \in {"connect", "list", "drop", "cleanup"} => starting.i <= Len(Servers)
  /\ starting.at = "idle" => clients = {} /\ starting.i = 1
  /\ starting.at = "done" => hosted.now /\ starting.i = Len(Servers) + 1
  /\ hosted.before => hosted.now
  /\ exposed # {} => starting.at = "done"
  /\ exposed \cap starting.failed = {}

UsesFit ==
  \A s \in Hosts : use[s].at # "no" =>
     use[s].begun /\ starting.at = "done" /\ s \notin starting.failed

\* Until the host shuts it down.
ClientsFit ==
  /\ clients = UpTo(starting.i) \ starting.failed
  /\ \A s \in starting.failed : /\ s \in UpTo(starting.i) \/ Dropping(s)
                                /\ link[s] = "off" \/ Dropping(s)
  /\ starting.at = "drop" => Now \in starting.failed
  /\ starting.at = "done" => exposed = Hosts \ starting.failed

LinksFit ==
  \A s \in Hosts : Linked(s) => \/ s \in clients
                                \/ use[s].begun
                                \/ starting.at \in {"connect", "list"} /\ s = Now

StopFits ==
  /\ stopping.at # "idle" => starting.at \in StartOver \cup {"cleanup"}
  /\ stopping.at \in {"close", "closing", "done"} => exposed = {} /\ starting.at \in StartOver
  /\ stopping.at \in {"close", "closing"} =>
        \A j \in 1..(stopping.i - 1) : Linked(Servers[j]) => use[Servers[j]].begun
  /\ stopping.at = "closing" => stopping.i <= Len(Servers)
  /\ stopping.at \in {"idle", "await"} => stopping.i = 1
  /\ stopping.at = "done" =>
        \A s \in Hosts : Linked(s) =>
           use[s].begun \/ (starting.at = "cancelled" /\ ~hosted.before /\ s \in clients)

ServersInv ==
  /\ ServersTypes /\ StartFits /\ UsesFit /\ LinksFit /\ StopFits
  /\ stopping.at = "idle" => ClientsFit

LEMMA UpToNext ==
  ASSUME NEW k \in 1..Len(Servers)
  PROVE  /\ Servers[k] \in Hosts /\ Servers[k] \notin UpTo(k)
         /\ UpTo(k + 1) = UpTo(k) \cup {Servers[k]}
<1>1. Servers[k] \in Hosts
  BY ServersAssumption DEF Hosts
<1>2. \A j \in 1..(k - 1) : Servers[j] # Servers[k]
  BY ServersAssumption
<1>3. 1..((k + 1) - 1) = 1..(k - 1) \cup {k}
  BY ServersAssumption
<1> QED BY <1>1, <1>2, <1>3 DEF UpTo

LEMMA UpToEnds == UpTo(1) = {} /\ UpTo(Len(Servers) + 1) = Hosts
BY ServersAssumption DEF UpTo, Hosts

LEMMA ServersInvGives == ServersInv => ServersTypeOK /\ ServersAccounted
<1> SUFFICES ASSUME ServersInv PROVE ServersTypeOK /\ ServersAccounted
  OBVIOUS
<1>1. ServersTypeOK
  BY DEF ServersInv, ServersTypes, ServersTypeOK, LinkStates, StartPlaces, StartRow, StopRow, ToolUseRow
<1>2. ASSUME starting.at = "done", stopping.at = "idle"
      PROVE  /\ exposed = clients /\ exposed = Hosts \ starting.failed
             /\ \A s \in starting.failed : link[s] = "off"
  BY <1>2, UpToEnds DEF ServersInv, ClientsFit, StartFits, Dropping
<1>3. ASSUME stopping.at = "done"
      PROVE  /\ exposed = {}
             /\ \A s \in Hosts : link[s] \in {"up", "opening"} =>
                  \/ use[s].begun
                  \/ starting.at = "cancelled" /\ ~hosted.before /\ s \in clients
  BY <1>3, Zenon DEF ServersInv, StopFits, Linked
<1> QED BY <1>1, <1>2, <1>3, Zenon DEF ServersAccounted

LEMMA ServersInvInit == ServersInit => ServersInv
<1> SUFFICES ASSUME ServersInit PROVE ServersInv
  OBVIOUS
<1>1. /\ starting.at = "idle" /\ starting.i = 1 /\ starting.failed = {}
      /\ stopping.at = "idle" /\ stopping.i = 1
      /\ clients = {} /\ exposed = {}
      /\ \A s \in Hosts : link[s] = "off" /\ use[s].at = "no"
  BY DEF ServersInit
<1>2. hosted \in [before : BOOLEAN, now : BOOLEAN] /\ hosted.before = hosted.now
  <2>1. PICK early \in BOOLEAN : hosted = [before |-> early, now |-> early]
    BY DEF ServersInit
  <2> QED BY <2>1
<1>3. ServersTypes
  <2>1. starting \in StartRow /\ stopping \in StopRow
    BY ServersAssumption DEF ServersInit, StartRow, StopRow, StartPlaces, StartOver
  <2>2. link \in [Hosts -> LinkStates] /\ use \in [Hosts -> ToolUseRow]
    BY DEF ServersInit, LinkStates, ToolUseRow
  <2> QED BY <1>1, <1>2, <2>1, <2>2 DEF ServersTypes
<1>4. StartFits
  BY <1>1, <1>2 DEF StartFits
<1>5. UsesFit /\ LinksFit /\ StopFits
  BY <1>1 DEF UsesFit, LinksFit, StopFits, Linked
<1>6. ClientsFit
  BY <1>1, UpToEnds DEF ClientsFit
<1> QED BY <1>3, <1>4, <1>5, <1>6 DEF ServersInv

LinkGoes(s, to) ==
  /\ link' \in [Hosts -> LinkStates] /\ link'[s] = to
  /\ \A t \in Hosts \ {s} : link'[t] = link[t]

LEMMA LinkMoves ==
  ASSUME ServersTypes, NEW s \in Hosts, NEW to \in LinkStates, link' = [link EXCEPT ![s] = to]
  PROVE  LinkGoes(s, to)
<1>1. link \in [Hosts -> LinkStates]
  BY DEF ServersTypes
<1> QED BY <1>1, Assigned DEF LinkGoes

LEMMA LinkCloses ==
  ASSUME ServersTypes, NEW s \in Hosts, link' = Closing(s)
  PROVE  LinkGoes(s, "off") \/ LinkGoes(s, "closing")
<1>1. PICK to \in {"off", "closing"} : to = IF link[s] = "off" THEN "off" ELSE "closing"
  OBVIOUS
<1>2. link' = [link EXCEPT ![s] = to]
  BY <1>1, Zenon DEF Closing
<1>3. to \in LinkStates
  BY DEF LinkStates
<1>4. LinkGoes(s, to)
  BY <1>2, <1>3, LinkMoves
<1> QED BY <1>1, <1>4

(* How the start goes on. *)
StartGoes(to, k, out) ==
  /\ starting' \in StartRow
  /\ starting'.at = to /\ starting'.i = k /\ starting'.failed = out

-----------------------------------------------------------------------------
(* The steps of the start. *)

StartsAt == /\ starting.at \in StartPlaces /\ starting.i \in 1..(Len(Servers) + 1)
            /\ starting.failed \in SUBSET Hosts /\ starting.i \in Nat /\ Len(Servers) \in Nat
            /\ starting.at \in {"connect", "list", "drop", "cleanup"} =>
                  starting.i \in 1..Len(Servers) /\ Now \in Hosts

LEMMA StartKnown == ServersInv => StartsAt
<1> SUFFICES ASSUME ServersInv PROVE StartsAt
  OBVIOUS
<1>1. /\ starting.at \in StartPlaces /\ starting.i \in 1..(Len(Servers) + 1)
      /\ starting.failed \in SUBSET Hosts
  BY DEF ServersInv, ServersTypes, StartRow
<1>2. starting.at \in {"connect", "list", "drop", "cleanup"} => starting.i \in 1..Len(Servers)
  BY <1>1, ServersAssumption DEF ServersInv, StartFits
<1>3. starting.i \in 1..Len(Servers) => Now \in Hosts
  BY UpToNext DEF Now
<1> QED BY <1>1, <1>2, <1>3, ServersAssumption DEF StartsAt

LEMMA BeginKeeps == ServersInv /\ ServersBegin => ServersInv'
<1> SUFFICES ASSUME ServersInv, ServersBegin PROVE ServersInv'
  OBVIOUS
<1>0. starting.at = "idle" /\ stopping.at = "idle"
      /\ UNCHANGED <<link, clients, exposed, stopping, hosted, use>>
  BY DEF ServersBegin
<1>1. StartGoes("next", starting.i, starting.failed)
  BY DEF ServersInv, ServersTypes, ServersBegin, StartRow, StartPlaces, StartGoes
<1>2. ServersTypes'
  BY <1>0, <1>1 DEF ServersInv, ServersTypes, StartGoes
<1>3. StartFits' /\ UsesFit'
  BY <1>0, <1>1 DEF ServersInv, StartFits, UsesFit, StartGoes
<1>4. LinksFit'
  BY <1>0, <1>1 DEF ServersInv, LinksFit, Linked, StartGoes
<1>5. StopFits'
  BY <1>0, <1>1 DEF ServersInv, StopFits
<1>6. ClientsFit'
  BY <1>0, <1>1 DEF ServersInv, ClientsFit, Dropping, StartGoes
<1> QED BY <1>2, <1>3, <1>4, <1>5, <1>6 DEF ServersInv

LEMMA ConnectKeeps == ServersInv /\ ServersConnect => ServersInv'
<1> SUFFICES ASSUME ServersInv, ServersConnect PROVE ServersInv'
  OBVIOUS
<1>0. starting.at = "next" /\ starting.i \in 1..Len(Servers) /\ stopping.at = "idle"
      /\ UNCHANGED <<clients, exposed, stopping, hosted, use>>
  BY StartKnown DEF ServersConnect, StartsAt, ServersInv, StopFits, StartOver
<1>1. StartGoes("connect", starting.i, starting.failed)
  BY DEF ServersInv, ServersTypes, ServersConnect, StartRow, StartPlaces, StartGoes
<1>2. LinkGoes(Now, "opening") /\ Now \in Hosts /\ Now \notin UpTo(starting.i)
  BY <1>0, UpToNext, LinkMoves DEF ServersInv, ServersConnect, Now, LinkStates
<1>3. Now' = Now
  BY <1>1 DEF Now, StartGoes
<1>4. ServersTypes'
  BY <1>0, <1>1, <1>2 DEF ServersInv, ServersTypes, StartGoes, LinkGoes
<1>5. StartFits' /\ UsesFit'
  BY <1>0, <1>1 DEF ServersInv, StartFits, UsesFit, StartGoes
<1>6. LinksFit'
  BY <1>0, <1>1, <1>2, <1>3 DEF ServersInv, LinksFit, Linked, StartGoes, LinkGoes
<1>7. StopFits'
  BY <1>0 DEF ServersInv, StopFits
<1>8. ClientsFit'
  BY <1>0, <1>1, <1>2, <1>3 DEF ServersInv, ServersTypes, StartRow, ClientsFit, Dropping, StartGoes, LinkGoes
<1> QED BY <1>4, <1>5, <1>6, <1>7, <1>8 DEF ServersInv

LEMMA ConnectedKeeps == ServersInv /\ ServersConnected => ServersInv'
<1> SUFFICES ASSUME ServersInv, ServersConnected PROVE ServersInv'
  OBVIOUS
<1>0. starting.at = "connect" /\ starting.i \in 1..Len(Servers) /\ stopping.at = "idle"
      /\ UNCHANGED <<clients, exposed, stopping, hosted, use>>
  BY StartKnown DEF ServersConnected, StartsAt, ServersInv, StopFits, StartOver
<1>1. StartGoes("list", starting.i, starting.failed)
  BY DEF ServersInv, ServersTypes, ServersConnected, StartRow, StartPlaces, StartGoes
<1>2. LinkGoes(Now, "up") /\ Now \in Hosts /\ Now \notin UpTo(starting.i)
  BY <1>0, UpToNext, LinkMoves DEF ServersInv, ServersConnected, Now, LinkStates
<1>3. Now' = Now
  BY <1>1 DEF Now, StartGoes
<1>4. ServersTypes'
  BY <1>0, <1>1, <1>2 DEF ServersInv, ServersTypes, StartGoes, LinkGoes
<1>5. StartFits' /\ UsesFit'
  BY <1>0, <1>1 DEF ServersInv, StartFits, UsesFit, StartGoes
<1>6. LinksFit'
  BY <1>0, <1>1, <1>2, <1>3 DEF ServersInv, LinksFit, Linked, StartGoes, LinkGoes
<1>7. StopFits'
  BY <1>0 DEF ServersInv, StopFits
<1>8. ClientsFit'
  BY <1>0, <1>1, <1>2, <1>3 DEF ServersInv, ServersTypes, StartRow, ClientsFit, Dropping, StartGoes, LinkGoes
<1> QED BY <1>4, <1>5, <1>6, <1>7, <1>8 DEF ServersInv

(* The start comes to the next server. *)
LEMMA NextServer ==
  ASSUME starting \in StartRow, starting.i \in 1..Len(Servers),
         starting' = [starting EXCEPT !.at = "next", !.i = @ + 1]
  PROVE  StartGoes("next", starting.i + 1, starting.failed)
<1>1. PICK k \in 1..(Len(Servers) + 1) : k = starting.i + 1
  BY ServersAssumption
<1>2. starting' = [starting EXCEPT !.at = "next", !.i = k]
  BY <1>1, Zenon
<1>3. "next" \in StartPlaces
  BY DEF StartPlaces
<1>4. starting' \in StartRow /\ starting'.at = "next" /\ starting'.i = k /\ starting'.failed = starting.failed
  BY <1>2, <1>3 DEF StartRow
<1> QED BY <1>1, <1>4 DEF StartGoes

LEMMA ListedKeeps == ServersInv /\ ServersListed => ServersInv'
<1> SUFFICES ASSUME ServersInv, ServersListed PROVE ServersInv'
  OBVIOUS
<1>0. starting.at = "list" /\ starting.i \in 1..Len(Servers) /\ stopping.at = "idle"
      /\ clients' = clients \cup {Now}
      /\ UNCHANGED <<link, exposed, stopping, hosted, use>>
  BY StartKnown DEF ServersListed, StartsAt, ServersInv, StopFits, StartOver
<1>1. StartGoes("next", starting.i + 1, starting.failed)
  BY <1>0, NextServer DEF ServersInv, ServersTypes, ServersListed
<1>2. /\ Now \in Hosts /\ Now \notin UpTo(starting.i)
      /\ UpTo(starting.i + 1) = UpTo(starting.i) \cup {Now}
  BY <1>0, UpToNext DEF Now
<1>4. ServersTypes'
  BY <1>0, <1>1, <1>2 DEF ServersInv, ServersTypes, StartGoes
<1>5. StartFits' /\ UsesFit'
  BY <1>0, <1>1 DEF ServersInv, StartFits, UsesFit, StartGoes
<1>6. LinksFit'
  BY <1>0, <1>1, <1>2 DEF ServersInv, LinksFit, Linked, StartGoes
<1>7. StopFits'
  BY <1>0 DEF ServersInv, StopFits
<1>8. ClientsFit'
  BY <1>0, <1>1, <1>2 DEF ServersInv, ClientsFit, Dropping, StartGoes
<1> QED BY <1>4, <1>5, <1>6, <1>7, <1>8 DEF ServersInv

LEMMA FailsKeeps == ServersInv /\ ServersFails => ServersInv'
<1> SUFFICES ASSUME ServersInv, ServersFails PROVE ServersInv'
  OBVIOUS
<1>0. starting.at \in {"connect", "list"} /\ starting.i \in 1..Len(Servers) /\ stopping.at = "idle"
      /\ UNCHANGED <<clients, exposed, stopping, hosted, use>>
  BY StartKnown DEF ServersFails, StartsAt, ServersInv, StopFits, StartOver
<1>2. /\ Now \in Hosts /\ Now \notin UpTo(starting.i)
      /\ LinkGoes(Now, "off") \/ LinkGoes(Now, "closing")
  BY <1>0, UpToNext, LinkCloses DEF ServersInv, ServersFails, Now
<1>1. StartGoes("drop", starting.i, starting.failed \cup {Now})
  BY <1>0, <1>2 DEF ServersInv, ServersTypes, ServersFails, StartRow, StartPlaces, StartGoes
<1>3. Now' = Now
  BY <1>1 DEF Now, StartGoes
<1>4. ServersTypes'
  BY <1>0, <1>1, <1>2 DEF ServersInv, ServersTypes, StartGoes, LinkGoes
<1>5. StartFits' /\ UsesFit'
  BY <1>0, <1>1 DEF ServersInv, StartFits, UsesFit, StartGoes
<1>6. LinksFit'
  BY <1>0, <1>1, <1>2, <1>3 DEF ServersInv, LinksFit, Linked, StartGoes, LinkGoes
<1>7. StopFits'
  BY <1>0 DEF ServersInv, StopFits
<1>8. ClientsFit'
  BY <1>0, <1>1, <1>2, <1>3 DEF ServersInv, ServersTypes, StartRow, ClientsFit, Dropping, StartGoes, LinkGoes
<1> QED BY <1>4, <1>5, <1>6, <1>7, <1>8 DEF ServersInv

LEMMA DroppedKeeps == ServersInv /\ ServersDropped => ServersInv'
<1> SUFFICES ASSUME ServersInv, ServersDropped PROVE ServersInv'
  OBVIOUS
<1>0. starting.at = "drop" /\ starting.i \in 1..Len(Servers) /\ stopping.at = "idle"
      /\ link[Now] = "off" /\ UNCHANGED <<link, clients, exposed, stopping, hosted, use>>
  BY StartKnown DEF ServersDropped, StartsAt, ServersInv, StopFits, StartOver
<1>1. StartGoes("next", starting.i + 1, starting.failed)
  BY <1>0, NextServer DEF ServersInv, ServersTypes, ServersDropped
<1>2. /\ Now \in Hosts /\ Now \notin UpTo(starting.i)
      /\ UpTo(starting.i + 1) = UpTo(starting.i) \cup {Now}
  BY <1>0, UpToNext DEF Now
<1>4. ServersTypes'
  BY <1>0, <1>1 DEF ServersInv, ServersTypes, StartGoes
<1>5. StartFits' /\ UsesFit'
  BY <1>0, <1>1 DEF ServersInv, StartFits, UsesFit, StartGoes
<1>6. LinksFit'
  BY <1>0, <1>1, <1>2 DEF ServersInv, LinksFit, Linked, StartGoes
<1>7. StopFits'
  BY <1>0 DEF ServersInv, StopFits
<1>8. ClientsFit'
  BY <1>0, <1>1, <1>2 DEF ServersInv, ClientsFit, Dropping, StartGoes
<1> QED BY <1>4, <1>5, <1>6, <1>7, <1>8 DEF ServersInv

LEMMA RegisterKeeps == ServersInv /\ ServersRegister => ServersInv'
<1> SUFFICES ASSUME ServersInv, ServersRegister PROVE ServersInv'
  OBVIOUS
<1>0. starting.at = "next" /\ starting.i = Len(Servers) + 1 /\ stopping.at = "idle"
      /\ exposed' = Hosts \ starting.failed /\ UNCHANGED <<link, clients, stopping, use>>
  BY StartKnown, ServersAssumption DEF ServersRegister, StartsAt, ServersInv, StopFits, StartOver
<1>1. StartGoes("done", starting.i, starting.failed)
  BY DEF ServersInv, ServersTypes, ServersRegister, StartRow, StartPlaces, StartOver, StartGoes
<1>2. hosted' \in [before : BOOLEAN, now : BOOLEAN] /\ hosted'.now
  BY DEF ServersInv, ServersTypes, ServersRegister
<1>4. ServersTypes'
  BY <1>0, <1>1, <1>2 DEF ServersInv, ServersTypes, StartGoes
<1>5. StartFits' /\ UsesFit'
  BY <1>0, <1>1, <1>2 DEF ServersInv, StartFits, UsesFit, StartGoes
<1>6. LinksFit'
  BY <1>0, <1>1 DEF ServersInv, LinksFit, Linked, StartGoes
<1>7. StopFits'
  BY <1>0 DEF ServersInv, StopFits
<1>8. ClientsFit'
  BY <1>0, <1>1 DEF ServersInv, ClientsFit, Dropping, StartGoes
<1> QED BY <1>4, <1>5, <1>6, <1>7, <1>8 DEF ServersInv

(* A start that was cancelled is over. *)
LEMMA CleanupOver ==
  ASSUME ServersInv, starting.at = "cleanup", StartGoes("cancelled", starting.i, starting.failed),
         UNCHANGED <<link, clients, exposed, stopping, hosted, use>>
  PROVE  ServersInv'
<1>1. ServersTypes'
  BY DEF ServersInv, ServersTypes, StartGoes
<1>2. StartFits' /\ UsesFit'
  BY DEF ServersInv, StartFits, UsesFit, StartGoes
<1>3. LinksFit'
  BY DEF ServersInv, LinksFit, Linked, StartGoes
<1>4. StopFits'
  BY DEF ServersInv, StopFits, StartOver, StartGoes
<1>5. stopping.at = "idle" => ClientsFit'
  BY DEF ServersInv, ClientsFit, Dropping, StartGoes
<1> QED BY <1>1, <1>2, <1>3, <1>4, <1>5 DEF ServersInv

LEMMA CancelledKeeps == ServersInv /\ ServersCancelled => ServersInv'
<1> SUFFICES ASSUME ServersInv, ServersCancelled PROVE ServersInv'
  OBVIOUS
<1>0. starting.at = "cleanup" /\ UNCHANGED <<link, clients, exposed, stopping, hosted, use>>
  BY DEF ServersCancelled
<1>1. StartGoes("cancelled", starting.i, starting.failed)
  BY DEF ServersInv, ServersTypes, ServersCancelled, StartRow, StartPlaces, StartOver, StartGoes
<1> QED BY <1>0, <1>1, CleanupOver

-----------------------------------------------------------------------------
(* The steps of the connections and of the calls that use them. *)

(* A connection goes on and a call with it: what is up or on the way is some   *)
(* client's or some call's.                                                   *)
UseGoes(s) ==
  /\ use' \in [Hosts -> ToolUseRow]
  /\ \A t \in Hosts \ {s} : use'[t] = use[t]
  /\ use[s].begun => use'[s].begun

LEMMA ConnectionStep ==
  ASSUME ServersInv, NEW s \in Hosts, NEW to, LinkGoes(s, to), UseGoes(s),
         to \in {"up", "opening"} => Linked(s) \/ use'[s].begun,
         s \in starting.failed => to = "off" \/ to = link[s],
         use'[s].at # "no" => use'[s].begun /\ starting.at = "done" /\ s \notin starting.failed,
         UNCHANGED <<clients, exposed, starting, stopping, hosted>>
  PROVE  ServersInv'
<1>1. ServersTypes'
  BY DEF ServersInv, ServersTypes, LinkGoes, UseGoes
<1>2. StartFits'
  BY DEF ServersInv, StartFits
<1>3. UsesFit'
  BY DEF ServersInv, UsesFit, UseGoes
<1>4. \A t \in Hosts : Linked(t)' => Linked(t) \/ (t = s /\ use'[s].begun)
  BY DEF LinkGoes, Linked
<1>5. \A t \in Hosts : use[t].begun => use'[t].begun
  BY DEF UseGoes
<1>6. LinksFit'
  <2> SUFFICES ASSUME NEW t \in Hosts, Linked(t)'
               PROVE  \/ t \in clients \/ use'[t].begun
                      \/ starting.at \in {"connect", "list"} /\ t = Now
    BY DEF LinksFit, Now
  <2>1. CASE Linked(t)
    BY <1>5, <2>1, Zenon DEF ServersInv, LinksFit
  <2>2. CASE t = s /\ use'[s].begun
    BY <2>2
  <2> QED BY <1>4, <2>1, <2>2
<1>7. \A j \in 1..Len(Servers) : Servers[j] \in Hosts
  BY UpToNext
<1>8. StopFits'
  <2>1. /\ stopping.at # "idle" => starting.at \in StartOver \cup {"cleanup"}
        /\ stopping.at \in {"close", "closing", "done"} => exposed = {} /\ starting.at \in StartOver
        /\ stopping.at = "closing" => stopping.i <= Len(Servers)
        /\ stopping.at \in {"idle", "await"} => stopping.i = 1
    BY DEF ServersInv, StopFits
  <2>2. ASSUME stopping.at \in {"close", "closing"}, NEW j \in 1..(stopping.i - 1), Linked(Servers[j])'
        PROVE  use'[Servers[j]].begun
    <3>1. Servers[j] \in Hosts
      BY <1>7, ServersAssumption DEF ServersInv, ServersTypes, StopRow
    <3>2. Linked(Servers[j]) => use[Servers[j]].begun
      BY <2>2 DEF ServersInv, StopFits
    <3>3. PICK t \in Hosts : t = Servers[j]
      BY <3>1
    <3> QED BY <1>4, <1>5, <2>2, <3>2, <3>3, Zenon DEF Linked
  <2>3. ASSUME stopping.at = "done", NEW t \in Hosts, Linked(t)'
        PROVE  use'[t].begun \/ (starting.at = "cancelled" /\ ~hosted.before /\ t \in clients)
    <3>1. CASE Linked(t)
      BY <1>5, <2>3, <3>1, Zenon DEF ServersInv, StopFits
    <3>2. CASE t = s /\ use'[s].begun
      BY <3>2
    <3> QED BY <1>4, <2>3, <3>1, <3>2
  <2> QED BY <2>1, <2>2, <2>3, Zenon DEF StopFits, Linked
<1>9. stopping.at = "idle" => ClientsFit'
  <2>1. \A t \in starting.failed : t \in Hosts
    BY StartKnown DEF StartsAt
  <2>2. Now' = Now
    BY DEF Now
  <2> QED BY <2>1, <2>2 DEF ServersInv, ClientsFit, Dropping, LinkGoes
<1> QED BY <1>1, <1>2, <1>3, <1>6, <1>8, <1>9 DEF ServersInv

LEMMA UseUnchanged ==
  ASSUME ServersInv, NEW s \in Hosts, use' = use
  PROVE  /\ UseGoes(s)
         /\ use'[s].at # "no" => use'[s].begun /\ starting.at = "done" /\ s \notin starting.failed
BY DEF ServersInv, ServersTypes, UsesFit, UseGoes

LEMMA ToolUsed ==
  ASSUME ServersInv, NEW s \in Hosts, NEW q \in ToolUseRow, q.begun, use' = [use EXCEPT ![s] = q]
  PROVE  UseGoes(s) /\ use'[s] = q
<1>1. use \in [Hosts -> ToolUseRow]
  BY DEF ServersInv, ServersTypes
<1> QED BY <1>1, Assigned DEF UseGoes

LEMMA LinkEndsKeeps == ASSUME ServersInv, NEW s \in Hosts, LinkEnds(s) \/ LinkBreaks(s) PROVE ServersInv'
<1>1. link' = [link EXCEPT ![s] = "off"] /\ UNCHANGED <<clients, exposed, starting, stopping, hosted, use>>
  BY DEF LinkEnds, LinkBreaks
<1>2. LinkGoes(s, "off")
  BY <1>1, LinkMoves DEF ServersInv, LinkStates
<1> QED BY <1>1, <1>2, UseUnchanged, ConnectionStep

LEMMA UseToolKeeps == ASSUME ServersInv, NEW s \in Hosts, UseTool(s) PROVE ServersInv'
<1>0. s \in exposed /\ UNCHANGED <<link, clients, exposed, starting, stopping, hosted>>
  BY DEF UseTool
<1>1. PICK a \in {"over", "reopen"} : a = IF link[s] = "up" THEN "over" ELSE "reopen"
  OBVIOUS
<1>2. PICK q : q = [at |-> a, begun |-> TRUE]
  OBVIOUS
<1>3. q \in ToolUseRow /\ q.begun
  BY <1>2 DEF ToolUseRow
<1>4. use' = [use EXCEPT ![s] = q]
  BY <1>1, <1>2, Zenon DEF UseTool
<1>5. UseGoes(s) /\ use'[s] = q
  BY <1>3, <1>4, ToolUsed
<1>6. starting.at = "done" /\ s \notin starting.failed
  BY <1>0 DEF ServersInv, StartFits
<1>7. PICK to \in LinkStates : to = link[s]
  BY DEF ServersInv, ServersTypes
<1>8. LinkGoes(s, to)
  BY <1>0, <1>7 DEF ServersInv, ServersTypes, LinkGoes
<1>9. to \in {"up", "opening"} => Linked(s)
  BY <1>7 DEF Linked
<1> QED BY <1>0, <1>3, <1>5, <1>6, <1>7, <1>8, <1>9, ConnectionStep

(* A call that began before goes on. *)
LEMMA UseGoesOn ==
  ASSUME ServersInv, NEW s \in Hosts, use[s].at # "no", NEW a \in {"opening", "over"}, NEW to \in LinkStates,
         use' = [use EXCEPT ![s].at = a], link' = [link EXCEPT ![s] = to],
         UNCHANGED <<clients, exposed, starting, stopping, hosted>>
  PROVE  ServersInv'
<1>1. PICK q : q = [use[s] EXCEPT !.at = a]
  OBVIOUS
<1>2. use' = [use EXCEPT ![s] = q]
  BY <1>1, Zenon
<1>3. use[s] \in ToolUseRow /\ use[s].begun /\ starting.at = "done" /\ s \notin starting.failed
  BY DEF ServersInv, ServersTypes, UsesFit
<1>4. q \in ToolUseRow /\ q.begun = use[s].begun
  BY <1>1, <1>3 DEF ToolUseRow
<1>5. q.begun
  BY <1>3, <1>4, Zenon
<1>6. UseGoes(s) /\ use'[s] = q
  BY <1>2, <1>4, <1>5, ToolUsed
<1>7. LinkGoes(s, to)
  BY LinkMoves DEF ServersInv
<1>8. use'[s].begun
  BY <1>5, <1>6, Zenon
<1> QED BY <1>3, <1>6, <1>7, <1>8, ConnectionStep

LEMMA UseReopensKeeps == ASSUME ServersInv, NEW s \in Hosts, UseReopens(s) PROVE ServersInv'
<1>1. /\ use[s].at # "no" /\ link' = [link EXCEPT ![s] = "opening"] /\ use' = [use EXCEPT ![s].at = "opening"]
      /\ UNCHANGED <<clients, exposed, starting, stopping, hosted>>
  BY DEF UseReopens
<1>2. "opening" \in LinkStates
  BY DEF LinkStates
<1> QED BY <1>1, <1>2, UseGoesOn

LEMMA UseOverKeeps == ASSUME ServersInv, NEW s \in Hosts, UseOver(s) PROVE ServersInv'
<1>1. PICK to \in {"up", "off"} : link' = [link EXCEPT ![s] = to]
  BY DEF UseOver
<1>2. /\ use[s].at # "no" /\ use' = [use EXCEPT ![s].at = "over"]
      /\ UNCHANGED <<clients, exposed, starting, stopping, hosted>>
  BY DEF UseOver
<1>3. to \in LinkStates
  BY DEF LinkStates
<1> QED BY <1>1, <1>2, <1>3, UseGoesOn

-----------------------------------------------------------------------------
(* The steps of the shutdown. *)

StopGoes(to, k) == stopping' \in StopRow /\ stopping'.at = to /\ stopping'.i = k

LEMMA StopKeeps == ServersInv /\ ServersStop => ServersInv'
<1> SUFFICES ASSUME ServersInv, ServersStop PROVE ServersInv'
  OBVIOUS
<1>0. stopping.at = "idle" /\ stopping.i = 1 /\ UNCHANGED <<clients, exposed, hosted, use>>
  BY DEF ServersStop, ServersInv, StopFits
<1>1. StopGoes("await", stopping.i)
  BY DEF ServersInv, ServersTypes, ServersStop, StopRow, StopGoes
<1>2. ASSUME starting.at \in {"connect", "list"}, link' = Closing(Now),
             starting' = [starting EXCEPT !.at = "cleanup"]
      PROVE  ServersInv'
  <2>1. Now \in Hosts /\ (LinkGoes(Now, "off") \/ LinkGoes(Now, "closing"))
    BY <1>2, StartKnown, LinkCloses DEF StartsAt, ServersInv
  <2>2. StartGoes("cleanup", starting.i, starting.failed)
    BY <1>2 DEF ServersInv, ServersTypes, StartRow, StartPlaces, StartGoes
  <2>3. ServersTypes'
    BY <1>0, <1>1, <2>1, <2>2 DEF ServersInv, ServersTypes, StartGoes, LinkGoes, StopGoes
  <2>4. StartFits' /\ UsesFit'
    BY <1>0, <1>2, <2>2 DEF ServersInv, StartFits, UsesFit, StartGoes
  <2>5. LinksFit'
    BY <1>0, <2>1, <2>2 DEF ServersInv, LinksFit, Linked, StartGoes, LinkGoes
  <2>6. StopFits'
    BY <1>0, <1>1, <2>2 DEF StopFits, StopGoes, StartGoes
  <2> QED BY <1>1, <2>3, <2>4, <2>5, <2>6 DEF ServersInv, StopGoes
<1>3. ASSUME starting.at \in {"next", "drop"}, link' = link,
             starting' = [starting EXCEPT !.at = "cancelled"]
      PROVE  ServersInv'
  <2>2. StartGoes("cancelled", starting.i, starting.failed)
    BY <1>3 DEF ServersInv, ServersTypes, StartRow, StartPlaces, StartOver, StartGoes
  <2>3. ServersTypes'
    BY <1>0, <1>1, <1>3, <2>2 DEF ServersInv, ServersTypes, StartGoes, StopGoes
  <2>4. StartFits' /\ UsesFit'
    BY <1>0, <1>3, <2>2 DEF ServersInv, StartFits, UsesFit, StartGoes
  <2>5. LinksFit'
    BY <1>0, <1>3, <2>2 DEF ServersInv, LinksFit, Linked, StartGoes
  <2>6. StopFits'
    BY <1>0, <1>1, <2>2 DEF StopFits, StopGoes, StartGoes, StartOver
  <2> QED BY <1>1, <2>3, <2>4, <2>5, <2>6 DEF ServersInv, StopGoes
<1>4. ASSUME starting.at \notin {"connect", "list"}, starting.at \notin {"next", "drop"},
             starting' = starting, link' = link
      PROVE  ServersInv'
  <2>1. ServersTypes'
    BY <1>0, <1>1, <1>4 DEF ServersInv, ServersTypes, StopGoes
  <2>2. StartFits' /\ UsesFit'
    BY <1>0, <1>4 DEF ServersInv, StartFits, UsesFit
  <2>3. LinksFit'
    BY <1>0, <1>4 DEF ServersInv, LinksFit, Linked
  <2>4. StopFits'
    BY <1>0, <1>1, <1>4, StartKnown DEF StopFits, StopGoes, StartsAt, StartPlaces
  <2> QED BY <1>1, <2>1, <2>2, <2>3, <2>4 DEF ServersInv, StopGoes
<1> QED BY <1>2, <1>3, <1>4 DEF ServersStop

(* The shutdown goes on: what it must know of the connections is given. *)
LEMMA ShutdownStep ==
  ASSUME ServersInv, stopping.at # "idle", NEW to, NEW k, StopGoes(to, k), to # "idle",
         UNCHANGED <<starting, hosted, use>>,
         exposed' \in SUBSET Hosts, exposed' \subseteq exposed,
         clients' \in SUBSET clients, link' \in [Hosts -> LinkStates], LinksFit',
         StopFits'
  PROVE  ServersInv'
<1>1. ServersTypes'
  BY DEF ServersInv, ServersTypes, StopGoes
<1>2. StartFits' /\ UsesFit'
  BY DEF ServersInv, StartFits, UsesFit
<1> QED BY <1>1, <1>2 DEF ServersInv, StopGoes

LEMMA ReleaseKeeps == ServersInv /\ ServersRelease => ServersInv'
<1> SUFFICES ASSUME ServersInv, ServersRelease PROVE ServersInv'
  OBVIOUS
<1>0. stopping.at = "await" /\ starting.at \in StartOver /\ UNCHANGED <<link, clients, starting, hosted, use>>
  BY DEF ServersRelease
<1>1. LinksFit'
  BY <1>0 DEF ServersInv, LinksFit, Linked, StartOver
<1>2. link' \in [Hosts -> LinkStates] /\ clients' \in SUBSET clients
  BY <1>0 DEF ServersInv, ServersTypes
<1>3. CASE hosted.now
  <2>1. exposed' = {} /\ StopGoes("close", stopping.i)
    BY <1>3 DEF ServersInv, ServersTypes, ServersRelease, StopRow, StopGoes
  <2>2. StopFits'
    <3>1. \A j \in 1..(stopping.i - 1) : Linked(Servers[j]) => use[Servers[j]].begun
      BY <1>0 DEF ServersInv, StopFits
    <3> QED BY <1>0, <2>1, <3>1 DEF StopFits, StopGoes, Linked
  <2> QED BY <1>0, <1>1, <1>2, <2>1, <2>2, ShutdownStep
<1>4. CASE ~hosted.now
  <2>1. exposed' = exposed /\ StopGoes("done", stopping.i)
    BY <1>4 DEF ServersInv, ServersTypes, ServersRelease, StopRow, StopGoes
  <2>2. exposed = {} /\ ~hosted.before /\ starting.at # "done"
    BY <1>4 DEF ServersInv, StartFits
  <2>3. ASSUME NEW s \in Hosts, Linked(s)
        PROVE  use[s].begun \/ (starting.at = "cancelled" /\ ~hosted.before /\ s \in clients)
    <3>1. s \in clients \/ use[s].begun
      BY <1>0, <2>3 DEF ServersInv, LinksFit, StartOver
    <3>2. s \in clients => starting.at = "cancelled"
      BY <1>0, <2>2 DEF ServersInv, StartFits, StartOver
    <3> QED BY <2>2, <3>1, <3>2
  <2>4. StopFits'
    BY <1>0, <2>1, <2>2, <2>3 DEF StopFits, StopGoes, Linked
  <2> QED BY <1>0, <1>1, <1>2, <2>1, <2>4, ShutdownStep DEF ServersInv, ServersTypes
<1> QED BY <1>3, <1>4

LEMMA CloseKeeps == ServersInv /\ ServersClose => ServersInv'
<1> SUFFICES ASSUME ServersInv, ServersClose PROVE ServersInv'
  OBVIOUS
<1>0. /\ stopping.at = "close" /\ starting.at \in StartOver /\ exposed = {}
      /\ stopping.i \in 1..(Len(Servers) + 1) /\ UNCHANGED <<exposed, starting, hosted, use>>
      /\ exposed' \in SUBSET Hosts /\ Len(Servers) \in Nat
  BY ServersAssumption DEF ServersClose, ServersInv, StopFits, ServersTypes, StopRow
<1>1. \A j \in 1..(stopping.i - 1) : Linked(Servers[j]) => use[Servers[j]].begun
  BY <1>0 DEF ServersInv, StopFits
<1>2. \A s \in Hosts : Linked(s) => s \in clients \/ use[s].begun
  BY <1>0 DEF ServersInv, LinksFit, StartOver
<1>3. CASE stopping.i > Len(Servers)
  <2>1. clients' = {} /\ link' = link /\ StopGoes("done", stopping.i)
    BY <1>3 DEF ServersInv, ServersTypes, ServersClose, StopRow, StopGoes
  <2>2. \A s \in Hosts : Linked(s) => use[s].begun
    BY <1>0, <1>1, <1>3, ServersAssumption DEF Hosts
  <2>3. LinksFit'
    BY <1>0, <2>1, <2>2 DEF LinksFit, Linked
  <2>4. StopFits'
    BY <1>0, <2>1, <2>2 DEF StopFits, StopGoes, Linked
  <2> QED BY <1>0, <2>1, <2>3, <2>4, ShutdownStep DEF ServersInv, ServersTypes
<1>4. ASSUME stopping.i \in 1..Len(Servers) PROVE ServersInv'
  <2>0. PICK s \in Hosts : s = Servers[stopping.i]
    BY <1>4, UpToNext
  <2>1. CASE s \in clients
    <3>1. link' = Closing(s) /\ StopGoes("closing", stopping.i) /\ clients' = clients
      BY <1>4, <2>0, <2>1 DEF ServersInv, ServersTypes, ServersClose, StopRow, StopGoes
    <3>2. LinkGoes(s, "off") \/ LinkGoes(s, "closing")
      BY <3>1, LinkCloses DEF ServersInv
    <3>3. \A t \in Hosts : Linked(t)' => Linked(t)
      BY <3>2 DEF LinkGoes, Linked
    <3>4. LinksFit'
      BY <1>0, <1>2, <3>1, <3>3, Zenon DEF LinksFit
    <3>5. \A j \in 1..(stopping.i - 1) : Linked(Servers[j])' => use[Servers[j]].begun
      <4>1. \A j \in 1..(stopping.i - 1) : Servers[j] \in Hosts
        BY <1>4, UpToNext
      <4> QED BY <1>1, <3>3, <4>1 DEF Linked
    <3>6. StopFits'
      BY <1>0, <1>4, <3>1, <3>5 DEF StopFits, StopGoes, Linked
    <3> QED BY <1>0, <3>1, <3>2, <3>4, <3>6, ShutdownStep DEF LinkGoes
  <2>2. CASE s \notin clients
    <3>1. link' = link /\ StopGoes("close", stopping.i + 1) /\ clients' = clients
      BY <1>4, <2>0, <2>2, ServersAssumption DEF ServersInv, ServersTypes, ServersClose, StopRow, StopGoes
    <3>2. LinksFit'
      BY <1>0, <1>2, <3>1 DEF LinksFit, Linked
    <3>3. \A j \in 1..((stopping.i + 1) - 1) : Linked(Servers[j]) => use[Servers[j]].begun
      BY <1>1, <1>2, <1>4, <2>0, <2>2
    <3>4. StopFits'
      BY <1>0, <3>1, <3>3 DEF StopFits, StopGoes, Linked
    <3> QED BY <1>0, <3>1, <3>2, <3>4, ShutdownStep DEF ServersInv, ServersTypes
  <2> QED BY <2>1, <2>2
<1> QED BY <1>0, <1>3, <1>4

LEMMA ClosedKeeps == ServersInv /\ ServersClosed => ServersInv'
<1> SUFFICES ASSUME ServersInv, ServersClosed PROVE ServersInv'
  OBVIOUS
<1>0. /\ stopping.at = "closing" /\ starting.at \in StartOver /\ exposed = {}
      /\ stopping.i \in 1..Len(Servers) /\ link[Servers[stopping.i]] = "off"
      /\ UNCHANGED <<link, clients, exposed, starting, hosted, use>> /\ Len(Servers) \in Nat
  BY ServersAssumption DEF ServersClosed, ServersInv, StopFits, ServersTypes, StopRow
<1>1. StopGoes("close", stopping.i + 1)
  BY <1>0 DEF ServersClosed, StopRow, StopGoes
<1>2. \A j \in 1..((stopping.i + 1) - 1) : Linked(Servers[j]) => use[Servers[j]].begun
  BY <1>0 DEF ServersInv, StopFits, Linked
<1>3. LinksFit'
  BY <1>0 DEF ServersInv, LinksFit, Linked, StartOver
<1>4. StopFits'
  BY <1>0, <1>1, <1>2 DEF StopFits, StopGoes, Linked
<1> QED BY <1>0, <1>1, <1>3, <1>4, ShutdownStep DEF ServersInv, ServersTypes

LEMMA CutKeeps == ServersInv /\ ServersCut => ServersInv'
<1> SUFFICES ASSUME ServersInv, ServersCut PROVE ServersInv'
  OBVIOUS
<1>0. UNCHANGED <<link, clients, exposed, hosted, use>>
  BY DEF ServersCut
<1>1. CASE starting' = starting /\ stopping.at \in {"close", "closing"} /\ stopping' = [stopping EXCEPT !.at = "cut"]
  <2>1. StopGoes("cut", stopping.i)
    BY <1>1 DEF ServersInv, ServersTypes, StopRow, StopGoes
  <2>2. starting.at \in StartOver
    BY <1>1 DEF ServersInv, StopFits
  <2>3. LinksFit'
    BY <1>0, <1>1, <2>2 DEF ServersInv, LinksFit, Linked, StartOver
  <2>4. StopFits'
    BY <1>1, <2>1, <2>2 DEF StopFits, StopGoes
  <2> QED BY <1>0, <1>1, <2>1, <2>3, <2>4, ShutdownStep DEF ServersInv, ServersTypes
<1>2. CASE starting.at = "cleanup" /\ starting' = [starting EXCEPT !.at = "cancelled"] /\ stopping' = stopping
  <2>1. StartGoes("cancelled", starting.i, starting.failed)
    BY <1>2 DEF ServersInv, ServersTypes, StartRow, StartPlaces, StartOver, StartGoes
  <2> QED BY <1>0, <1>2, <2>1, CleanupOver
<1> QED BY <1>1, <1>2 DEF ServersCut

LEMMA ServersInvNext == ServersInv /\ [ServersNext]_serversVars => ServersInv'
<1> SUFFICES ASSUME ServersInv, [ServersNext]_serversVars PROVE ServersInv'
  OBVIOUS
<1>1. CASE \/ ServersBegin \/ ServersConnect \/ ServersConnected \/ ServersListed \/ ServersFails
           \/ ServersDropped \/ ServersRegister \/ ServersCancelled
  BY <1>1, BeginKeeps, ConnectKeeps, ConnectedKeeps, ListedKeeps, FailsKeeps, DroppedKeeps,
     RegisterKeeps, CancelledKeeps
<1>2. CASE ServersStop \/ ServersRelease \/ ServersClose \/ ServersClosed \/ ServersCut
  BY <1>2, StopKeeps, ReleaseKeeps, CloseKeeps, ClosedKeeps, CutKeeps
<1>3. ASSUME NEW s \in Hosts,
             \/ LinkEnds(s) \/ LinkBreaks(s) \/ UseTool(s) \/ UseReopens(s) \/ UseOver(s)
      PROVE  ServersInv'
  BY <1>3, LinkEndsKeeps, UseToolKeeps, UseReopensKeeps, UseOverKeeps
<1>4. CASE UNCHANGED serversVars
  <2>1. UNCHANGED <<link, clients, exposed, starting, stopping, hosted, use>>
    BY <1>4 DEF serversVars
  <2>2. ServersTypes' /\ StartFits' /\ UsesFit'
    BY <2>1 DEF ServersInv, ServersTypes, StartFits, UsesFit
  <2>3. LinksFit' /\ StopFits'
    BY <2>1 DEF ServersInv, LinksFit, StopFits, Linked, Now
  <2>4. stopping.at = "idle" => ClientsFit'
    BY <2>1 DEF ServersInv, ClientsFit, Dropping, Now
  <2> QED BY <2>1, <2>2, <2>3, <2>4 DEF ServersInv
<1> QED BY <1>1, <1>2, <1>3, <1>4 DEF ServersNext

-----------------------------------------------------------------------------
(* A connection to an MCP server.  A request enters the queue once, in the step *)
(* in which its caller begins to wait, and goes from there to the server at    *)
(* most once; the owner that serves it is there until everyone who waits has   *)
(* an answer.                                                                 *)
ServingAt == {"serving", "busy", "broken", "cancelled"}
OwnerAt == {"none", "opening", "cleaning", "pausing", "closing", "done"} \cup ServingAt
OwnerRow == [at : OwnerAt, failed : 0..(MaxMcpRetries + 1), active : Calls \cup {NoCall},
             ready : {"no", "yes", "failed"}, alive : BOOLEAN, stop : BOOLEAN]
BeforeSent == {"idle", "lock", "stop", "stopped", "ready", "abort", "aborting", "closed"}
CallAt == BeforeSent \cup {"wait", "answered", "failed", "gone"}
CallRow == [at : CallAt, future : {"none", "pending", "value", "error", "cancelled"}]

On(s) == {s[i] : i \in DOMAIN s}
Distinct(s) == \A i, j \in DOMAIN s : s[i] = s[j] => i = j

McpTypes ==
  /\ owner \in OwnerRow /\ gate \in Callers \cup {NoCall}
  /\ queue \in Seq(Calls) /\ executed \in Seq(Calls)
  /\ call \in [Callers -> CallRow]

OwnerFits ==
  /\ owner.at \in {"opening", "pausing"} => owner.failed <= MaxMcpRetries
  /\ owner.alive => owner.at \in ServingAt
  /\ owner.active # NoCall => owner.at \in {"busy", "broken", "cancelled"} /\ owner.active \in On(executed)

CallFits(c) ==
  /\ call[c].at \in BeforeSent => call[c].future = "none"
  /\ call[c].at = "answered" => call[c].future = "value"
  /\ Pending(c) => call[c].at = "wait" /\ c \in On(queue) \cup {owner.active} /\ owner.at \in ServingAt
  /\ call[c].future = "value" => c \in On(executed)
  /\ call[c].future = "none" => c \notin On(queue) \cup On(executed)
  /\ c = Closer => call[c].at # "ready" /\ call[c].future = "none"

SentOnce == Distinct(queue) /\ Distinct(executed) /\ On(queue) \cap On(executed) = {}

McpInv == McpTypes /\ OwnerFits /\ (\A c \in Callers : CallFits(c)) /\ SentOnce

LEMMA McpInvGives == McpInv => McpTypeOK /\ McpNothingLost
<1> SUFFICES ASSUME McpInv PROVE McpTypeOK /\ McpNothingLost
  OBVIOUS
<1>1. McpTypeOK
  BY DEF McpInv, McpTypes, McpTypeOK, OwnerRow, OwnerAt, ServingAt, CallRow
<1>2. Queued = On(queue)
  BY DEF Queued, On
<1>3. \A c \in Calls : Pending(c) => c \in Queued \cup {owner.active} /\ owner.at \in {"serving", "busy", "broken", "cancelled"}
  BY <1>2 DEF McpInv, CallFits, ServingAt, Callers
<1>4. \A c \in Calls : call[c].at = "answered" => c \in On(executed)
  BY DEF McpInv, CallFits, Callers
<1>5. \A i, j \in DOMAIN executed : executed[i] = executed[j] => i = j
  BY DEF McpInv, SentOnce, Distinct
<1>6. owner.alive => owner.at \in {"serving", "busy", "broken", "cancelled"}
  BY DEF McpInv, OwnerFits, ServingAt
<1> QED BY <1>1, <1>3, <1>4, <1>5, <1>6 DEF McpNothingLost, On

LEMMA OnEmpty == On(<<>>) = {} /\ Distinct(<<>>)
BY DEF On, Distinct

LEMMA OnAppend ==
  ASSUME NEW S, NEW s \in Seq(S), NEW x \in S
  PROVE  /\ Append(s, x) \in Seq(S) /\ On(Append(s, x)) = On(s) \cup {x}
         /\ Distinct(s) /\ x \notin On(s) => Distinct(Append(s, x))
<1>1. /\ Append(s, x) \in Seq(S) /\ Len(Append(s, x)) = Len(s) + 1 /\ Append(s, x)[Len(s) + 1] = x
      /\ \A i \in 1..Len(s) : Append(s, x)[i] = s[i]
  OBVIOUS
<1>2. DOMAIN s = 1..Len(s) /\ DOMAIN Append(s, x) = 1..(Len(s) + 1) /\ Len(s) \in Nat
  BY <1>1
<1>3. On(Append(s, x)) = On(s) \cup {x}
  BY <1>1, <1>2 DEF On
<1>4. ASSUME Distinct(s), x \notin On(s) PROVE Distinct(Append(s, x))
  BY <1>1, <1>2, <1>4 DEF Distinct, On
<1> QED BY <1>1, <1>3, <1>4

LEMMA OnTail ==
  ASSUME NEW S, NEW s \in Seq(S), s # <<>>
  PROVE  /\ Tail(s) \in Seq(S) /\ Head(s) \in S /\ On(s) = On(Tail(s)) \cup {Head(s)}
         /\ Distinct(s) => Distinct(Tail(s)) /\ Head(s) \notin On(Tail(s))
<1>1. /\ Tail(s) \in Seq(S) /\ Head(s) \in S /\ Len(Tail(s)) = Len(s) - 1 /\ Head(s) = s[1]
      /\ Len(s) \in Nat /\ Len(s) >= 1
      /\ \A i \in 1..Len(Tail(s)) : Tail(s)[i] = s[i + 1]
  BY HeadTailProperties, EmptySeq
<1>2. DOMAIN s = 1..Len(s) /\ DOMAIN Tail(s) = 1..(Len(s) - 1)
  BY <1>1
<1>3. On(s) = On(Tail(s)) \cup {Head(s)}
  <2>1. ASSUME NEW i \in 1..Len(s) PROVE s[i] \in On(Tail(s)) \cup {Head(s)}
    <3>1. CASE i = 1
      BY <1>1, <3>1
    <3>2. CASE i # 1
      <4>1. i - 1 \in 1..(Len(s) - 1) /\ (i - 1) + 1 = i
        BY <1>1, <3>2
      <4>2. s[i] = Tail(s)[i - 1]
        BY <1>1, <1>2, <4>1
      <4> QED BY <1>2, <4>1, <4>2 DEF On
    <3> QED BY <3>1, <3>2
  <2>2. ASSUME NEW i \in 1..(Len(s) - 1) PROVE Tail(s)[i] \in On(s)
    BY <1>1, <1>2, <2>2 DEF On
  <2>3. Head(s) \in On(s)
    BY <1>1, <1>2 DEF On
  <2> QED BY <1>2, <2>1, <2>2, <2>3 DEF On
<1>4. ASSUME Distinct(s) PROVE Distinct(Tail(s)) /\ Head(s) \notin On(Tail(s))
  BY <1>1, <1>2, <1>4 DEF Distinct, On
<1> QED BY <1>1, <1>3, <1>4

LEMMA McpInvInit == McpInit => McpInv
<1> SUFFICES ASSUME McpInit PROVE McpInv
  OBVIOUS
<1>1. /\ owner.at = "none" /\ owner.active = NoCall /\ ~owner.alive /\ owner \in OwnerRow
      /\ queue = <<>> /\ executed = <<>> /\ gate = NoCall
  BY McpAssumption DEF McpInit, NoOwner, OwnerRow, OwnerAt
<1>2. call \in [Callers -> CallRow] /\ \A c \in Callers : call[c].at = "idle" /\ call[c].future = "none"
  BY DEF McpInit, CallRow, CallAt, BeforeSent
<1>3. McpTypes
  BY <1>1, <1>2 DEF McpTypes
<1>4. OwnerFits
  BY <1>1 DEF OwnerFits
<1>5. \A c \in Callers : CallFits(c)
  BY <1>1, <1>2, OnEmpty DEF CallFits, Pending
<1>6. SentOnce
  BY <1>1, OnEmpty DEF SentOnce
<1> QED BY <1>3, <1>4, <1>5, <1>6 DEF McpInv

(* A caller goes on. *)
CallGoes(c, to, f) ==
  /\ call' \in [Callers -> CallRow] /\ call'[c].at = to /\ call'[c].future = f
  /\ \A d \in Callers \ {c} : call'[d] = call[d]

LEMMA McpCallMoves ==
  ASSUME McpInv, NEW c \in Callers, NEW to \in CallAt, call' = [call EXCEPT ![c].at = to]
  PROVE  CallGoes(c, to, call[c].future)
<1>1. call \in [Callers -> CallRow] /\ call[c] \in CallRow
  BY DEF McpInv, McpTypes
<1>2. PICK q : q = [call[c] EXCEPT !.at = to]
  OBVIOUS
<1>3. q \in CallRow /\ q.at = to /\ q.future = call[c].future
  BY <1>1, <1>2 DEF CallRow
<1>4. call' = [call EXCEPT ![c] = q]
  BY <1>2, Zenon
<1>5. call' \in [Callers -> CallRow] /\ call'[c] = q /\ \A d \in Callers \ {c} : call'[d] = call[d]
  BY <1>1, <1>3, <1>4, Assigned
<1> QED BY <1>3, <1>5 DEF CallGoes

LEMMA CallSet ==
  ASSUME McpInv, NEW c \in Callers, NEW to \in CallAt, NEW f \in {"pending", "cancelled"},
         call' = [call EXCEPT ![c] = [at |-> to, future |-> f]]
  PROVE  CallGoes(c, to, f)
<1>1. call \in [Callers -> CallRow]
  BY DEF McpInv, McpTypes
<1>2. PICK q : q = [at |-> to, future |-> f]
  OBVIOUS
<1>3. q \in CallRow /\ q.at = to /\ q.future = f
  BY <1>2 DEF CallRow
<1>4. call' \in [Callers -> CallRow] /\ call'[c] = q /\ \A d \in Callers \ {c} : call'[d] = call[d]
  BY <1>1, <1>2, <1>3, Assigned
<1> QED BY <1>3, <1>4 DEF CallGoes

(* A caller goes on who does not wait, and may stop the owner.  *)
OwnerLeft ==
  /\ owner' \in OwnerRow /\ owner'.active = owner.active /\ owner'.failed = owner.failed
  /\ owner'.alive => owner.alive
  /\ owner'.at = owner.at \/ (owner.at \in {"opening", "pausing", "serving", "busy"} /\ owner'.at = "cancelled")

LEMMA CallerStep ==
  ASSUME McpInv, OwnerLeft, NEW c \in Callers, NEW to \in CallAt, NEW f, CallGoes(c, to, f),
         f = call[c].future \/ (f = "cancelled" /\ Pending(c)),
         to \in BeforeSent => f = "none",
         f # "pending",
         to = "answered" => f = "value",
         c = Closer => to # "ready" /\ f = "none",
         gate' \in Callers \cup {NoCall}, queue' = queue, executed' = executed
  PROVE  McpInv'
<1>1. McpTypes'
  BY DEF McpInv, McpTypes, OwnerLeft, CallGoes
<1>2. OwnerFits'
  BY DEF McpInv, OwnerFits, OwnerLeft, ServingAt
<1>3. SentOnce'
  BY DEF McpInv, SentOnce
<1>4. owner.at \in ServingAt => owner'.at \in ServingAt
  BY DEF OwnerLeft, ServingAt
<1>5. CallFits(c)'
  BY DEF McpInv, CallFits, CallGoes, Pending
<1>6. ASSUME NEW d \in Callers \ {c} PROVE CallFits(d)'
  BY <1>4 DEF McpInv, CallFits, CallGoes, Pending, OwnerLeft
<1> QED BY <1>1, <1>2, <1>3, <1>5, <1>6 DEF McpInv

LEMMA OwnerSame ==
  ASSUME McpInv, owner' = owner
  PROVE  OwnerLeft
BY DEF McpInv, McpTypes, OwnerLeft

LEMMA OwnerStopped ==
  ASSUME McpInv,
         owner' = [owner EXCEPT !.stop = TRUE,
                     !.at = IF @ \in {"opening", "pausing", "serving", "busy"} THEN "cancelled" ELSE @]
  PROVE  OwnerLeft
<1>1. owner \in OwnerRow
  BY DEF McpInv, McpTypes
<1>2. PICK to \in OwnerAt : to = IF owner.at \in {"opening", "pausing", "serving", "busy"} THEN "cancelled" ELSE owner.at
  BY <1>1 DEF OwnerRow, OwnerAt, ServingAt
<1>3. owner' = [owner EXCEPT !.stop = TRUE, !.at = to]
  BY <1>2, Zenon
<1>4. /\ owner' \in OwnerRow /\ owner'.active = owner.active /\ owner'.failed = owner.failed
      /\ owner'.alive = owner.alive /\ owner'.at = to
  BY <1>1, <1>3 DEF OwnerRow
<1> QED BY <1>2, <1>4, Zenon DEF OwnerLeft

LEMMA AskKeeps == ASSUME McpInv, NEW c \in Callers, McpAsk(c) PROVE McpInv'
<1>1. call[c].at = "idle" /\ call' = [call EXCEPT ![c].at = "lock"] /\ UNCHANGED <<owner, queue, gate, executed>>
  BY DEF McpAsk, Moves
<1>2. CallGoes(c, "lock", call[c].future) /\ OwnerLeft /\ "lock" \in BeforeSent /\ "lock" \in CallAt
  BY <1>1, McpCallMoves, OwnerSame DEF CallAt, BeforeSent
<1>3. call[c].future = "none" /\ gate \in Callers \cup {NoCall}
  BY <1>1 DEF McpInv, CallFits, BeforeSent, McpTypes
<1> QED BY <1>1, <1>2, <1>3, CallerStep

(* A request enters the queue, and its caller waits. *)
LEMMA SendKeeps ==
  ASSUME McpInv, NEW c \in Callers, call[c].at \in BeforeSent, c # Closer, Send(c),
         owner' = owner, gate' \in Callers \cup {NoCall}, executed' = executed
  PROVE  McpInv'
<1>0. call[c].future = "none" /\ c \in Calls /\ c \notin On(queue) \cup On(executed)
  BY DEF McpInv, CallFits, Callers
<1>1. CASE ~owner.alive
  <2>1. call' = [call EXCEPT ![c].at = "failed"] /\ queue' = queue
    BY <1>1 DEF Send
  <2>2. CallGoes(c, "failed", call[c].future) /\ "failed" \in CallAt /\ "failed" \notin BeforeSent
    BY <2>1, McpCallMoves DEF CallAt, BeforeSent
  <2> QED BY <1>0, <2>1, <2>2, OwnerSame, CallerStep
<1>2. CASE owner.alive
  <2>1. call' = [call EXCEPT ![c] = [at |-> "wait", future |-> "pending"]] /\ queue' = Append(queue, c)
    BY <1>2 DEF Send
  <2>2. CallGoes(c, "wait", "pending")
    BY <2>1, CallSet DEF CallAt
  <2>3. queue' \in Seq(Calls) /\ On(queue') = On(queue) \cup {c} /\ (Distinct(queue) => Distinct(queue'))
    BY <1>0, <2>1, OnAppend DEF McpInv, McpTypes
  <2>4. owner.at \in ServingAt
    BY <1>2 DEF McpInv, OwnerFits
  <2>5. McpTypes'
    BY <2>2, <2>3 DEF McpInv, McpTypes, CallGoes
  <2>6. OwnerFits'
    BY DEF McpInv, OwnerFits
  <2>7. SentOnce'
    BY <1>0, <2>3 DEF McpInv, SentOnce
  <2>8. CallFits(c)'
    BY <1>0, <2>2, <2>3, <2>4 DEF CallFits, CallGoes, Pending, BeforeSent
  <2>9. ASSUME NEW d \in Callers \ {c} PROVE CallFits(d)'
    BY <2>2, <2>3 DEF McpInv, CallFits, CallGoes, Pending
  <2> QED BY <2>5, <2>6, <2>7, <2>8, <2>9 DEF McpInv
<1> QED BY <1>1, <1>2

LEMMA EnterKeeps == ASSUME McpInv, NEW c \in Callers, McpEnter(c) PROVE McpInv'
<1>0. call[c].at = "lock" /\ call[c].at \in BeforeSent /\ executed' = executed /\ gate \in Callers \cup {NoCall}
      /\ call[c].future = "none"
  BY DEF McpEnter, BeforeSent, McpInv, McpTypes, CallFits
<1>1. CASE owner.alive /\ c # Closer
  BY <1>0, <1>1, SendKeeps DEF McpEnter
<1>2. CASE ~(owner.alive /\ c # Closer)
  <2>1. gate' = c /\ call' = [call EXCEPT ![c].at = "stop"] /\ owner' = [owner EXCEPT !.alive = FALSE] /\ queue' = queue
    BY <1>2 DEF McpEnter, Moves
  <2>2. OwnerLeft
    BY <2>1 DEF McpInv, McpTypes, OwnerRow, OwnerLeft
  <2>3. CallGoes(c, "stop", call[c].future) /\ "stop" \in CallAt
    BY <2>1, McpCallMoves DEF CallAt, BeforeSent
  <2> QED BY <1>0, <2>1, <2>2, <2>3, CallerStep
<1> QED BY <1>1, <1>2

LEMMA StopperKeeps == ASSUME McpInv, NEW c \in Callers, McpStop(c) \/ McpAbort(c) \/ McpRefused(c) PROVE McpInv'
<1>0. /\ call[c].at \in {"stop", "abort", "ready"} /\ UNCHANGED <<queue, gate, executed>>
      /\ \E to \in {"stopped", "aborting", "abort"} : call' = [call EXCEPT ![c].at = to]
  BY DEF McpStop, McpAbort, McpRefused, Moves
<1>1. OwnerLeft
  BY OwnerSame, OwnerStopped DEF McpStop, McpAbort, McpRefused
<1>2. PICK to \in {"stopped", "aborting", "abort"} : call' = [call EXCEPT ![c].at = to]
  BY <1>0
<1>3. to \in CallAt /\ to # "ready" /\ to # "answered"
  BY DEF CallAt, BeforeSent
<1>4. CallGoes(c, to, call[c].future)
  BY <1>2, <1>3, McpCallMoves
<1>5. call[c].future = "none" /\ gate \in Callers \cup {NoCall}
  BY <1>0 DEF McpInv, McpTypes, CallFits, BeforeSent
<1> QED BY <1>0, <1>1, <1>3, <1>4, <1>5, CallerStep

(* The former owner is over, and a caller begins another or none. *)
LEMMA NewOwnerStep ==
  ASSUME McpInv, owner.at \in {"none", "done"}, NEW c \in Callers, NEW to \in CallAt,
         call[c].at \in BeforeSent, call' = [call EXCEPT ![c].at = to],
         to # "answered", c = Closer => to # "ready",
         owner' = NoOwner \/ owner' = [NoOwner EXCEPT !.at = "opening"],
         queue' = queue \/ queue' = <<>>, executed' = executed,
         gate' \in Callers \cup {NoCall}
  PROVE  McpInv'
<1>1. CallGoes(c, to, call[c].future) /\ call[c].future = "none"
  BY McpCallMoves DEF McpInv, CallFits
<1>2. /\ owner' \in OwnerRow /\ owner'.active = NoCall /\ ~owner'.alive /\ owner'.failed = 0
  <2>1. /\ NoOwner \in OwnerRow /\ NoOwner.active = NoCall /\ ~NoOwner.alive /\ NoOwner.failed = 0
    BY McpAssumption DEF NoOwner, OwnerRow, OwnerAt
  <2>2. "opening" \in OwnerAt
    BY DEF OwnerAt
  <2>3. CASE owner' = NoOwner
    BY <2>1, <2>3, Zenon
  <2>4. CASE owner' = [NoOwner EXCEPT !.at = "opening"]
    BY <2>1, <2>2, <2>4 DEF OwnerRow
  <2> QED BY <2>3, <2>4
<1>3. \A d \in Callers : ~Pending(d)
  BY DEF McpInv, CallFits, ServingAt
<1>4. queue' \in Seq(Calls) /\ On(queue') \subseteq On(queue) /\ (Distinct(queue) => Distinct(queue'))
  <2>1. CASE queue' = queue
    BY <2>1 DEF McpInv, McpTypes
  <2>2. CASE queue' = <<>>
    <3>1. <<>> \in Seq(Calls) /\ On(<<>>) \subseteq On(queue) /\ Distinct(<<>>)
      BY OnEmpty
    <3> QED BY <2>2, <3>1, Zenon
  <2> QED BY <2>1, <2>2
<1>5. McpTypes'
  BY <1>1, <1>2, <1>4 DEF McpInv, McpTypes, CallGoes
<1>6. OwnerFits'
  BY <1>2, McpAssumption DEF OwnerFits
<1>7. SentOnce'
  BY <1>4 DEF McpInv, SentOnce
<1>8. CallFits(c)'
  BY <1>1, <1>4 DEF McpInv, CallFits, CallGoes, Pending
<1>9. ASSUME NEW d \in Callers \ {c} PROVE CallFits(d)'
  BY <1>1, <1>3, <1>4 DEF McpInv, CallFits, CallGoes, Pending
<1> QED BY <1>5, <1>6, <1>7, <1>8, <1>9 DEF McpInv

LEMMA StarterKeeps ==
  ASSUME McpInv, NEW c \in Callers, McpStart(c) \/ McpAborted(c) \/ (c = Closer /\ McpClosed)
  PROVE  McpInv'
<1>0. NoCall \in Callers \cup {NoCall} /\ gate \in Callers \cup {NoCall}
  BY DEF McpInv, McpTypes
<1>1. CASE McpStart(c)
  <2>1. "ready" \in CallAt /\ "stopped" \in BeforeSent
    BY DEF CallAt, BeforeSent
  <2> QED BY <1>0, <1>1, <2>1, NewOwnerStep DEF McpStart, Moves
<1>2. CASE McpAborted(c)
  <2>1. "failed" \in CallAt /\ "aborting" \in BeforeSent
    BY DEF CallAt, BeforeSent
  <2> QED BY <1>0, <1>2, <2>1, NewOwnerStep DEF McpAborted, Moves
<1>3. CASE c = Closer /\ McpClosed
  <2>1. "closed" \in CallAt /\ "stopped" \in BeforeSent
    BY DEF CallAt, BeforeSent
  <2> QED BY <1>0, <1>3, <2>1, NewOwnerStep DEF McpClosed, Moves
<1> QED BY <1>1, <1>2, <1>3

LEMMA ConnectedCallKeeps == ASSUME McpInv, NEW c \in Callers, McpConnected(c) PROVE McpInv'
<1>1. call[c].at \in BeforeSent /\ c # Closer /\ owner' = owner /\ executed' = executed /\ Send(c)
      /\ gate' \in Callers \cup {NoCall}
  BY DEF McpConnected, BeforeSent, McpInv, CallFits
<1> QED BY <1>1, SendKeeps

LEMMA ReturnsKeeps == ASSUME McpInv, NEW c \in Callers, McpReturns(c) PROVE McpInv'
<1>0. call[c].at = "wait" /\ ~Pending(c) /\ UNCHANGED <<owner, queue, gate, executed>>
  BY DEF McpReturns
<1>1. PICK to \in {"answered", "failed"} : to = IF call[c].future = "value" THEN "answered" ELSE "failed"
  OBVIOUS
<1>2. call' = [call EXCEPT ![c].at = to]
  BY <1>1, Zenon DEF McpReturns
<1>3. to \in CallAt /\ to \notin BeforeSent /\ to # "ready" /\ gate \in Callers \cup {NoCall}
  BY DEF CallAt, BeforeSent, McpInv, McpTypes
<1>4. CallGoes(c, to, call[c].future) /\ OwnerLeft
  BY <1>0, <1>2, <1>3, McpCallMoves, OwnerSame
<1>5. call[c].future # "pending" /\ (c = Closer => call[c].future = "none")
  BY <1>0 DEF Pending, McpInv, CallFits
<1>6. PICK f : f = call[c].future
  OBVIOUS
<1> QED BY <1>0, <1>1, <1>3, <1>4, <1>5, CallerStep

LEMMA GivesUpKeeps == ASSUME McpInv, NEW c \in Callers, McpGivesUp(c) PROVE McpInv'
<1>0. c # Closer /\ UNCHANGED <<owner, queue, executed>> /\ OwnerLeft /\ gate \in Callers \cup {NoCall}
  BY OwnerSame DEF McpGivesUp, McpInv, McpTypes
<1>1. "gone" \in CallAt \ BeforeSent /\ "abort" \in CallAt
  BY DEF CallAt, BeforeSent
<1>2. CASE Pending(c) /\ call' = [call EXCEPT ![c] = [at |-> "gone", future |-> "cancelled"]] /\ gate' = gate
  <2>1. CallGoes(c, "gone", "cancelled")
    BY <1>1, <1>2, CallSet
  <2> QED BY <1>0, <1>1, <1>2, <2>1, CallerStep
<1>3. CASE /\ call[c].at \in {"ready", "lock", "stopped", "aborting"} /\ gate' \in {gate, NoCall}
           /\ \E to \in {"gone", "abort"} : call' = [call EXCEPT ![c].at = to]
  <2>1. PICK to \in {"gone", "abort"} : call' = [call EXCEPT ![c].at = to]
    BY <1>3
  <2>2. CallGoes(c, to, call[c].future)
    BY <1>1, <2>1, McpCallMoves
  <2>3. call[c].future = "none"
    BY <1>3 DEF McpInv, CallFits, BeforeSent
  <2>4. gate' \in Callers \cup {NoCall} /\ to \in CallAt
    BY <1>0, <1>1, <1>3
  <2> QED BY <1>0, <2>1, <2>2, <2>3, <2>4, CallerStep
<1>4. \/ Pending(c) /\ call' = [call EXCEPT ![c] = [at |-> "gone", future |-> "cancelled"]] /\ gate' = gate
      \/ /\ call[c].at \in {"ready", "lock", "stopped", "aborting"} /\ gate' \in {gate, NoCall}
         /\ \E to \in {"gone", "abort"} : call' = [call EXCEPT ![c].at = to]
  BY DEF McpGivesUp, Moves
<1> QED BY <1>2, <1>3, <1>4

(* The owner goes on, nobody is answered. *)
LEMMA OwnerStep ==
  ASSUME McpInv, owner' \in OwnerRow, owner'.active = owner.active, owner.active = NoCall,
         owner'.at \in {"opening", "pausing"} => owner'.failed <= MaxMcpRetries,
         owner'.alive => owner'.at \in ServingAt,
         owner.at \notin ServingAt,
         UNCHANGED <<queue, gate, call, executed>>
  PROVE  McpInv'
<1>1. McpTypes' /\ SentOnce'
  BY DEF McpInv, McpTypes, SentOnce
<1>2. OwnerFits'
  BY DEF McpInv, OwnerFits
<1>3. \A c \in Callers : CallFits(c)'
  BY DEF McpInv, CallFits, Pending
<1> QED BY <1>1, <1>2, <1>3 DEF McpInv

LEMMA IdleOwner ==
  ASSUME McpInv, owner.at \in {"opening", "cleaning", "pausing", "closing"}
  PROVE  /\ owner.active = NoCall /\ ~owner.alive /\ owner.at \notin ServingAt /\ owner \in OwnerRow
         /\ owner.at \in {"opening", "pausing"} => owner.failed <= MaxMcpRetries
BY DEF McpInv, OwnerFits, ServingAt, McpTypes

LEMMA OpensKeeps == McpInv /\ McpOpens => McpInv'
<1> SUFFICES ASSUME McpInv, McpOpens PROVE McpInv'
  OBVIOUS
<1>1. owner.at = "opening" /\ UNCHANGED <<queue, gate, call, executed>>
  BY DEF McpOpens
<1>2. owner' \in OwnerRow /\ owner'.active = owner.active /\ owner'.at = "serving"
  BY <1>1, IdleOwner DEF McpOpens, OwnerRow, OwnerAt, ServingAt
<1> QED BY <1>1, <1>2, IdleOwner, OwnerStep DEF ServingAt

LEMMA OpenFailsKeeps == McpInv /\ McpOpenFails => McpInv'
<1> SUFFICES ASSUME McpInv, McpOpenFails PROVE McpInv'
  OBVIOUS
<1>1. owner.at = "opening" /\ UNCHANGED <<queue, gate, call, executed>> /\ owner.failed \in 0..MaxMcpRetries
  BY IdleOwner, McpAssumption DEF McpOpenFails, OwnerRow
<1>2. PICK n \in 0..(MaxMcpRetries + 1) : n = owner.failed + 1
  BY <1>1, McpAssumption
<1>3. owner' = [owner EXCEPT !.at = "cleaning", !.failed = n]
  BY <1>2, Zenon DEF McpOpenFails
<1>4. "cleaning" \in OwnerAt
  BY DEF OwnerAt
<1>5. owner' \in OwnerRow /\ owner'.active = owner.active /\ owner'.at = "cleaning" /\ owner'.alive = owner.alive
  BY <1>1, <1>3, <1>4, IdleOwner DEF OwnerRow
<1> QED BY <1>1, <1>5, IdleOwner, OwnerStep

LEMMA CleanedKeeps == McpInv /\ McpCleaned => McpInv'
<1> SUFFICES ASSUME McpInv, McpCleaned PROVE McpInv'
  OBVIOUS
<1>1. owner.at = "cleaning" /\ UNCHANGED <<queue, gate, call, executed>>
  BY DEF McpCleaned
<1>2. PICK to \in {"cancelled", "broken", "pausing"} :
         to = IF owner.stop THEN "cancelled" ELSE IF owner.failed > MaxMcpRetries THEN "broken" ELSE "pausing"
  OBVIOUS
<1>3. owner' = [owner EXCEPT !.at = to]
  BY <1>2, Zenon DEF McpCleaned
<1>4. /\ owner' \in OwnerRow /\ owner'.active = owner.active /\ owner'.at = to
      /\ owner'.alive = owner.alive /\ owner'.failed = owner.failed
  BY <1>1, <1>3, IdleOwner DEF OwnerRow, OwnerAt, ServingAt
<1>5. owner.failed \in Nat
  BY McpAssumption DEF McpInv, McpTypes, OwnerRow
<1>6. to = "pausing" => owner.failed <= MaxMcpRetries
  BY <1>2, <1>5, McpAssumption
<1> QED BY <1>1, <1>4, <1>6, IdleOwner, OwnerStep

LEMMA PausedKeeps == McpInv /\ (McpPaused \/ McpDone) => McpInv'
<1> SUFFICES ASSUME McpInv, McpPaused \/ McpDone PROVE McpInv'
  OBVIOUS
<1>1. PICK to \in {"opening", "done"} : /\ owner' = [owner EXCEPT !.at = to]
                                       /\ owner.at = IF to = "opening" THEN "pausing" ELSE "closing"
  BY DEF McpPaused, McpDone, Owner
<1>2. UNCHANGED <<queue, gate, call, executed>>
  BY DEF McpPaused, McpDone
<1>3. /\ owner' \in OwnerRow /\ owner'.active = owner.active /\ owner'.at = to
      /\ owner'.alive = owner.alive /\ owner'.failed = owner.failed
  BY <1>1, IdleOwner DEF OwnerRow, OwnerAt
<1> QED BY <1>1, <1>2, <1>3, IdleOwner, OwnerStep

(* Those who wait get an answer. *)
LEMMA Resolves ==
  ASSUME McpInv, NEW cs, NEW how \in {"value", "error"}, call' = Resolved(cs, how)
  PROVE  /\ call' \in [Callers -> CallRow]
         /\ \A c \in Callers :
              /\ call'[c].at = call[c].at
              /\ call'[c].future = IF c \in cs /\ Pending(c) THEN how ELSE call[c].future
<1>1. \A c \in Callers : call[c] \in CallRow
  BY DEF McpInv, McpTypes
<1>2. ASSUME NEW c \in Callers
      PROVE  /\ call'[c] \in CallRow /\ call'[c].at = call[c].at
             /\ call'[c].future = IF c \in cs /\ Pending(c) THEN how ELSE call[c].future
  <2>1. call'[c] = IF c \in cs /\ Pending(c) THEN [call[c] EXCEPT !.future = how] ELSE call[c]
    BY Zenon DEF Resolved
  <2>2. PICK q : q = [call[c] EXCEPT !.future = how]
    OBVIOUS
  <2>3. q \in CallRow /\ q.at = call[c].at /\ q.future = how
    BY <1>1, <2>2 DEF CallRow
  <2>4. PICK b \in BOOLEAN : b = (c \in cs /\ Pending(c))
    OBVIOUS
  <2>5. call'[c] = IF b THEN q ELSE call[c]
    BY <2>1, <2>2, <2>4, Zenon
  <2> QED BY <1>1, <2>3, <2>4, <2>5
<1>3. call' = [c \in Callers |-> call'[c]]
  BY DEF Resolved
<1> QED BY <1>2, <1>3

(* The owner answers those of cs and goes on. *)
LEMMA AnswerStep ==
  ASSUME McpInv, NEW cs, NEW how \in {"value", "error"}, call' = Resolved(cs, how),
         how = "value" => cs \subseteq On(executed),
         owner' \in OwnerRow, owner'.active \in {owner.active, NoCall},
         owner'.active # NoCall => owner'.at \in {"busy", "broken", "cancelled"},
         owner'.at \notin {"opening", "pausing"},
         owner'.alive => owner'.at \in ServingAt,
         NEW left, queue' = left, left \in Seq(Calls), On(left) \subseteq On(queue), Distinct(left),
         \A c \in Callers \ cs : Pending(c) => c \in On(left) \cup {owner'.active} /\ owner'.at \in ServingAt,
         UNCHANGED <<gate, executed>>
  PROVE  McpInv'
<1>1. /\ call' \in [Callers -> CallRow]
      /\ \A c \in Callers :
           /\ call'[c].at = call[c].at
           /\ call'[c].future = IF c \in cs /\ Pending(c) THEN how ELSE call[c].future
  BY Resolves
<1>2. McpTypes'
  BY <1>1 DEF McpInv, McpTypes
<1>3. OwnerFits'
  BY DEF McpInv, OwnerFits
<1>4. SentOnce'
  BY DEF McpInv, SentOnce
<1>5. ASSUME NEW c \in Callers PROVE CallFits(c)'
  <2>1. CASE c \in cs /\ Pending(c)
    <3>1. /\ call[c].at = "wait" /\ c # Closer
      BY <2>1 DEF McpInv, CallFits, Pending
    <3> QED BY <1>1, <2>1, <3>1 DEF CallFits, Pending, BeforeSent
  <2>2. CASE ~(c \in cs /\ Pending(c))
    <3>1. call'[c].at = call[c].at /\ call'[c].future = call[c].future
      BY <1>1, <2>2
    <3>2. Pending(c) => c \in On(left) \cup {owner'.active} /\ owner'.at \in ServingAt
      BY <2>2
    <3> QED BY <3>1, <3>2 DEF McpInv, CallFits, Pending
  <2> QED BY <2>1, <2>2
<1> QED BY <1>2, <1>3, <1>4, <1>5 DEF McpInv

LEMMA TakeKeeps == McpInv /\ McpTake => McpInv'
<1> SUFFICES ASSUME McpInv, McpTake PROVE McpInv'
  OBVIOUS
<1>0. /\ owner.at = "serving" /\ queue # <<>> /\ gate' = gate /\ owner \in OwnerRow
      /\ owner.active = NoCall /\ queue \in Seq(Calls) /\ executed \in Seq(Calls)
  BY DEF McpTake, McpInv, McpTypes, OwnerFits
<1>1. PICK c \in Calls : c = Head(queue)
  BY <1>0, OnTail
<1>2. PICK left \in Seq(Calls) : queue' = left /\ left = Tail(queue)
  BY <1>0, OnTail DEF McpTake
<1>3. /\ On(queue) = On(left) \cup {c} /\ Distinct(left) /\ c \notin On(left)
      /\ c \notin On(executed) /\ c \in Callers /\ c # NoCall
  BY <1>0, <1>1, <1>2, OnTail, McpAssumption DEF McpInv, SentOnce, Callers
<1>4. \A d \in Callers : Pending(d) => d \in On(left) \cup {c} /\ owner.at \in ServingAt
  BY <1>0, <1>3, McpAssumption DEF McpInv, CallFits, Callers
<1>5. CASE ~Pending(c) /\ UNCHANGED <<owner, call, executed>>
  <2>1. McpTypes' /\ OwnerFits' /\ SentOnce'
    BY <1>0, <1>2, <1>3, <1>5 DEF McpInv, McpTypes, OwnerFits, SentOnce
  <2>2. ASSUME NEW d \in Callers PROVE CallFits(d)'
    BY <1>2, <1>3, <1>4, <1>5 DEF McpInv, CallFits, Pending
  <2> QED BY <2>1, <2>2 DEF McpInv
<1>6. CASE call' = Resolved({c}, "error") /\ UNCHANGED <<owner, executed>>
  <2>1. \A d \in Callers \ {c} : Pending(d) => d \in On(left) \cup {owner'.active} /\ owner'.at \in ServingAt
    BY <1>4, <1>6
  <2>2. On(left) \subseteq On(queue) /\ owner' = owner
    BY <1>3, <1>6
  <2> QED BY <1>0, <1>2, <1>3, <1>6, <2>1, <2>2, AnswerStep DEF ServingAt
<1>7. CASE /\ Pending(c) /\ owner' = [owner EXCEPT !.at = "busy", !.active = c]
           /\ executed' = Append(executed, c) /\ call' = call
  <2>1. owner' \in OwnerRow /\ owner'.at = "busy" /\ owner'.active = c
    BY <1>0, <1>7 DEF OwnerRow, OwnerAt, ServingAt
  <2>2. executed' \in Seq(Calls) /\ On(executed') = On(executed) \cup {c} /\ Distinct(executed')
    BY <1>0, <1>3, <1>7, OnAppend DEF McpInv, SentOnce
  <2>3. McpTypes'
    BY <1>0, <1>2, <1>7, <2>1, <2>2 DEF McpInv, McpTypes
  <2>4. OwnerFits'
    BY <2>1, <2>2 DEF OwnerFits, ServingAt
  <2>5. SentOnce'
    BY <1>2, <1>3, <2>2 DEF McpInv, SentOnce
  <2>6. ASSUME NEW d \in Callers PROVE CallFits(d)'
    BY <1>2, <1>3, <1>4, <1>7, <2>1, <2>2 DEF McpInv, CallFits, Pending, ServingAt
  <2> QED BY <2>3, <2>4, <2>5, <2>6 DEF McpInv
<1>8. \/ ~Pending(c) /\ UNCHANGED <<owner, call, executed>>
      \/ call' = Resolved({c}, "error") /\ UNCHANGED <<owner, executed>>
      \/ /\ Pending(c) /\ owner' = [owner EXCEPT !.at = "busy", !.active = c]
         /\ executed' = Append(executed, c) /\ call' = call
  BY <1>1, Zenon DEF McpTake
<1> QED BY <1>5, <1>6, <1>7, <1>8

LEMMA ReplyKeeps == McpInv /\ (McpReply \/ McpBreaks) => McpInv'
<1> SUFFICES ASSUME McpInv, McpReply \/ McpBreaks PROVE McpInv'
  OBVIOUS
<1>1. /\ owner.at = "busy" /\ UNCHANGED <<queue, gate, executed>> /\ owner \in OwnerRow
      /\ queue \in Seq(Calls) /\ Distinct(queue)
  BY DEF McpReply, McpBreaks, McpInv, McpTypes, SentOnce
<1>2. PICK how \in {"value", "error"} :
        /\ call' = Resolved({owner.active}, how)
        /\ \/ owner' = [owner EXCEPT !.at = "serving", !.active = NoCall]
           \/ owner' = [owner EXCEPT !.at = "broken"]
  BY DEF McpReply, McpBreaks
<1>3. /\ owner' \in OwnerRow /\ owner'.active \in {owner.active, NoCall} /\ owner'.at \in {"serving", "broken"}
      /\ owner'.at = "serving" => owner'.active = NoCall
  BY <1>1, <1>2 DEF OwnerRow, OwnerAt, ServingAt
<1>4. \A c \in Callers \ {owner.active} : Pending(c) => c \in On(queue) \cup {owner'.active} /\ owner'.at \in ServingAt
  BY <1>3 DEF McpInv, CallFits, ServingAt
<1>5. CASE owner.active = NoCall
  <2>1. call' = Resolved({owner.active}, "error")
    BY <1>2, <1>5, McpAssumption DEF Resolved, Callers
  <2> QED BY <1>1, <1>3, <1>4, <2>1, AnswerStep DEF ServingAt
<1>6. CASE owner.active # NoCall
  <2>1. {owner.active} \subseteq On(executed)
    BY <1>6 DEF McpInv, OwnerFits
  <2> QED BY <1>1, <1>2, <1>3, <1>4, <2>1, AnswerStep DEF ServingAt
<1> QED BY <1>5, <1>6

LEMMA FinallyKeeps == McpInv /\ McpFinally => McpInv'
<1> SUFFICES ASSUME McpInv, McpFinally PROVE McpInv'
  OBVIOUS
<1>1. PICK cs : cs = {owner.active} \cup Queued
  OBVIOUS
<1>2. /\ owner.at \in {"cancelled", "broken"} /\ queue' = <<>> /\ UNCHANGED <<gate, executed>>
      /\ call' = Resolved(cs, "error") /\ owner \in OwnerRow
  BY <1>1, Zenon DEF McpFinally, McpInv, McpTypes
<1>3. PICK r \in {"no", "yes", "failed"} : r = IF owner.ready = "no" THEN "failed" ELSE owner.ready
  BY <1>2 DEF OwnerRow
<1>4. owner' = [owner EXCEPT !.at = "closing", !.active = NoCall, !.alive = FALSE, !.ready = r]
  BY <1>3, Zenon DEF McpFinally
<1>5. owner' \in OwnerRow /\ owner'.active = NoCall /\ owner'.at = "closing" /\ ~owner'.alive
  BY <1>2, <1>4 DEF OwnerRow, OwnerAt
<1>6. \A c \in Callers : Pending(c) => c \in cs
  BY <1>1 DEF McpInv, CallFits, Queued, On
<1>7. <<>> \in Seq(Calls) /\ On(<<>>) \subseteq On(queue) /\ Distinct(<<>>)
  BY OnEmpty
<1> QED BY <1>2, <1>5, <1>6, <1>7, AnswerStep

LEMMA McpInvNext == McpInv /\ [McpNext]_mcpVars => McpInv'
<1> SUFFICES ASSUME McpInv, [McpNext]_mcpVars PROVE McpInv'
  OBVIOUS
<1>1. CASE McpOwner
  BY <1>1, OpensKeeps, OpenFailsKeeps, CleanedKeeps, PausedKeeps, TakeKeeps, ReplyKeeps, FinallyKeeps DEF McpOwner
<1>2. ASSUME NEW c \in Callers, McpAsk(c) \/ McpCaller(c) \/ McpGivesUp(c)
      PROVE  McpInv'
  BY <1>2, AskKeeps, EnterKeeps, StopperKeeps, StarterKeeps, ConnectedCallKeeps, ReturnsKeeps, GivesUpKeeps
     DEF McpCaller
<1>3. CASE UNCHANGED mcpVars
  <2>1. UNCHANGED <<owner, queue, gate, call, executed>>
    BY <1>3 DEF mcpVars
  <2>2. McpTypes' /\ OwnerFits' /\ SentOnce'
    BY <2>1 DEF McpInv, McpTypes, OwnerFits, SentOnce
  <2>3. \A c \in Callers : CallFits(c)'
    BY <2>1 DEF McpInv, CallFits, Pending
  <2> QED BY <2>2, <2>3 DEF McpInv
<1> QED BY <1>1, <1>2, <1>3 DEF McpNext

-----------------------------------------------------------------------------
(* Until a process dies, one process at a time changes an inbox, and a letter    *)
(* its sender was told of is in it once, is shown to its reader at most once,  *)
(* and is unread exactly until then; a refused one is not in it.              *)
THEOREM LettersArriveOnce == MailSpec => [](MailTypeOK /\ MailExactlyOnce)
<1>1. MailInv => MailTypeOK /\ MailExactlyOnce
  BY MailInvGives
<1> QED BY <1>1, MailInvInit, MailInvNext, PTL DEF MailSpec

(* What an item of the board waits for is stored; while no call of one      *)
(* process began inside another's, the board at rest is whole, and no two   *)
(* were told that they own an item.                                         *)
THEOREM BoardAlwaysSound == BoardSpec => [](BoardSound /\ OneOwner)
<1>1. BoardInv => BoardSound /\ OneOwner
  BY BoardInvGives
<1> QED BY <1>1, BoardInvInit, BoardInvNext, PTL DEF BoardSpec

(* A launch of a pane member is worked for by one process only, and a       *)
(* member that left is inactive once its lead let go of it.                 *)
THEOREM LaunchesWorkedOnce == PaneSpec => []PaneSound
<1>1. PaneInv => PaneSound
  BY PaneInvGives
<1> QED BY <1>1, PaneInvInit, PaneInvNext, PTL DEF PaneSpec

(* No tool object is lost or closed twice, and no mark passes to another    *)
(* implementation.                                                          *)
THEOREM ToolsNeverLost == RegSpec => []RegNothingLost
<1>1. RegInv => RegNothingLost
  BY RegInvGives
<1> QED BY <1>1, RegInvInit, RegInvNext, PTL DEF RegSpec

(* No layer of the permission check overrules one of more authority.        *)
THEOREM AuthorityAlwaysKept == PermSpec => []AuthorityKept
<1>1. PermInv => AuthorityKept
  BY PermInvGives
<1> QED BY <1>1, PermInvInit, PermInvNext, PTL DEF PermSpec

(* Where a switch of session settles the open questions, as remote.py does, *)
(* the grants of a session are exactly those the user gave in it.           *)
THEOREM GrantsStayInTheirSession == ASSUME Settles PROVE PermSpec => []GrantsExact
<1>1. PermInv => GrantsExact
  BY PermInvGives
<1> QED BY <1>1, PermInvInit, PermInvNext, PTL DEF PermSpec

(* An installed skill is whole unless a removal of it is under way, failed  *)
(* or was cut short, and a loader that sees no change shows what is         *)
(* installed.                                                               *)
THEOREM SkillsInstalledWhole == SkillSpec => [](InstalledWhole /\ CatalogTrue)
<1>1. SkillInv => InstalledWhole /\ CatalogTrue
  BY SkillInvGives
<1> QED BY <1>1, SkillInvInit, SkillInvNext, PTL DEF SkillSpec

(* A server that fails takes no other with it, and a shutdown leaves no     *)
(* tool and no connection, but for the two cases it names.                  *)
THEOREM ServersAlwaysAccounted == ServersSpec => []ServersAccounted
<1>1. ServersInv => ServersAccounted
  BY ServersInvGives
<1> QED BY <1>1, ServersInvInit, ServersInvNext, PTL DEF ServersSpec

(* No connection takes a request of an MCP server with it, none is          *)
(* performed twice, and an answered one was performed.                      *)
THEOREM RequestsNeverLost == McpSpec => []McpNothingLost
<1>1. McpInv => McpNothingLost
  BY McpInvGives
<1> QED BY <1>1, McpInvInit, McpInvNext, PTL DEF McpSpec
=============================================================================
