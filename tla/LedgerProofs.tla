----------------------------- MODULE LedgerProofs ---------------------------
(***************************************************************************)
(* Proofs about the ledger's consumer group, for every number of replicas, *)
(* partitions, records, crashes and rebalances.                            *)
(*                                                                         *)
(* The inductive invariant is IInv.  Its parts, apart from TypeOK:         *)
(*   DoneIsWorked   whatever a replica or the group takes for done was     *)
(*                  worked on: marked in a deduplicator, past a position,  *)
(*                  committed, or about to be returned;                    *)
(*   WorkExists     what was worked on is a record of its partition;       *)
(*   InOrder        a handler's record has only worked records before it;  *)
(*   Deduplicated   what a living process worked on is in its              *)
(*                  deduplicator, or its handler is between Work and Mark. *)
(***************************************************************************)
EXTENDS Ledger, TLAPS

DoneIsWorked ==
    /\ \A i \in Replicas : \A m \in seen[i] : Worked(m)
    /\ \A i \in Replicas : stage[i] \in {"mark", "return"} => Worked(current[i])
    /\ \A p \in Partitions : \A o \in 1 .. position[p] : Worked(Record(p, o))
    /\ CommittedWasWorked

WorkExists == \A e \in effects : Exists(e.msg)

InOrder ==
    /\ \A i \in Replicas : current[i] # None =>
          \A o \in 1 .. (current[i][2] - 1) : Worked(Record(current[i][1], o))
    /\ WorkedInOrder

Deduplicated ==
    /\ \A i \in Replicas : stage[i] = "work" => current[i] \notin seen[i]
    /\ \A e \in effects : e.life <= life[e.by]
    /\ \A e \in effects : status[e.by] # "down" /\ e.life = life[e.by] =>
          \/ e.msg \in seen[e.by]
          \/ stage[e.by] = "mark" /\ current[e.by] = e.msg

IInv ==
    /\ TypeOK
    /\ DoneIsWorked
    /\ WorkExists
    /\ InOrder
    /\ Deduplicated

-----------------------------------------------------------------------------
(***************************************************************************)
(* What was worked on stays worked on.                                     *)
(***************************************************************************)
LEMMA EffectsGrow ==
    ASSUME [Next]_vars
    PROVE  /\ effects \subseteq effects'
           /\ \A m : Worked(m) => Worked(m)'
  <1>1. effects \subseteq effects'
    BY DEF Next, ConsumerNext, vars, Produce, Assign, Move, Commit, Deliver, HandlerStep, SkipSeen,
       PassUnseen, Work, Mark, Return, SubscribeFails, Cancel, Exit, Crash, Die, Restart
  <1> QED
    BY <1>1 DEF Worked

(***************************************************************************)
(* A record that exists is never taken away.                               *)
(***************************************************************************)
LEMMA LogGrows ==
    ASSUME TypeOK, [Next]_vars, NEW m \in Partitions \X Offsets, Exists(m)
    PROVE  Exists(m)'
  <1>1. m[1] \in Partitions /\ m[2] \in Nat
    BY DEF Offsets
  <1>2. CASE \E p \in Partitions : Produce(p)
    <2>1. PICK p \in Partitions, e \in Events : log' = [log EXCEPT ![p] = Append(@, e)]
      BY <1>2 DEF Produce
    <2>2. log \in [Partitions -> Seq(Events)]
      BY DEF TypeOK
    <2>3. CASE m[1] = p
      <3>1. log[p] \in Seq(Events) /\ log'[p] = Append(log[p], e)
        BY <2>1, <2>2
      <3>2. Len(log[p]) \in Nat /\ Len(log'[p]) = Len(log[p]) + 1
        BY <3>1
      <3> QED
        BY <1>1, <2>3, <3>2 DEF Exists
    <2>4. CASE m[1] # p
      <3>1. log'[m[1]] = log[m[1]]
        BY <1>1, <2>1, <2>2, <2>4
      <3> QED
        BY <3>1 DEF Exists
    <2> QED
      BY <2>3, <2>4
  <1>3. CASE ~ \E p \in Partitions : Produce(p)
    <2>1. UNCHANGED log
      BY <1>3 DEF Next, ConsumerNext, vars, Assign, Move, Commit, Deliver, HandlerStep, SkipSeen,
         PassUnseen, Work, Mark, Return, SubscribeFails, Cancel, Exit, Crash, Die, Restart
    <2> QED
      BY <2>1 DEF Exists
  <1> QED
    BY <1>2, <1>3

(***************************************************************************)
(* Types: one step per action.                                             *)
(***************************************************************************)
LEMMA TypeStep ==
    ASSUME TypeOK, [Next]_vars
    PROVE  TypeOK'
  <1>0. \A j \in Replicas : current'[j] = current[j] /\ current[j] # None => Exists(current[j])'
    BY LogGrows DEF TypeOK, HandlerOK
  <1> USE <1>0, LedgerAssumption
      DEF TypeOK, HandlerOK, Goto, brokerVars, handlerVars, processVars
  <1>1. ASSUME NEW p \in Partitions, Produce(p)
        PROVE  TypeOK'
    <2>1. log' \in [Partitions -> Seq(Events)]
      BY <1>1 DEF Produce
    <2> QED
      BY <1>1, <2>1 DEF Produce
  <1>2. ASSUME NEW p \in Partitions, NEW i \in Replicas, Assign(p, i)
        PROVE  TypeOK'
    BY <1>2 DEF Assign
  <1>3. ASSUME NEW p \in Partitions, NEW i \in Replicas, Move(p, i)
        PROVE  TypeOK'
    <2>1. fenced' \in [Replicas -> BOOLEAN]
      <3>1. \A j \in Replicas : (IF current[j] # None /\ current[j][1] = p THEN TRUE ELSE fenced[j]) \in BOOLEAN
        OBVIOUS
      <3> QED
        BY <1>3, <3>1 DEF Move
    <2>2. owner' \in [Partitions -> Replicas \union {None}] /\ position' \in [Partitions -> Nat]
          /\ moves' \in Nat
      BY <1>3 DEF Move
    <2>3. UNCHANGED <<log, committed, stage, current, seen, processVars, effects>>
      BY <1>3 DEF Move
    <2> QED
      BY <2>1, <2>2, <2>3
  <1>4. ASSUME NEW p \in Partitions, Commit(p)
        PROVE  TypeOK'
    BY <1>4 DEF Commit
  <1>5. ASSUME NEW p \in Partitions, NEW i \in Replicas, Deliver(i, p)
        PROVE  TypeOK'
    <2> DEFINE m == Record(p, position[p] + 1)
    <2>1. m \in Partitions \X Offsets /\ m # None
      BY DEF Record, Offsets
    <2>2. m[2] \in 1 .. Len(log'[m[1]])
      <3>1. Len(log[p]) \in Nat /\ position[p] < Len(log[p])
        BY <1>5 DEF Deliver
      <3> QED
        BY <1>5, <3>1 DEF Deliver, Record
    <2> HIDE DEF m
    <2>3. /\ current' = [current EXCEPT ![i] = m]
          /\ stage' = [stage EXCEPT ![i] = "seen"]
          /\ fenced' = [fenced EXCEPT ![i] = FALSE]
          /\ status[i] = "running"
          /\ UNCHANGED <<log, brokerVars, seen, processVars, effects>>
      BY <1>5 DEF Deliver, m
    <2>4. current' \in [Replicas -> (Partitions \X Offsets) \union {None}]
      BY <2>1, <2>3
    <2>5. ASSUME NEW j \in Replicas
          PROVE  HandlerOK(j)'
      <3>1. CASE j = i
        BY <2>1, <2>2, <2>3, <3>1 DEF Exists
      <3>2. CASE j # i
        BY <2>3, <3>2
      <3> QED
        BY <3>1, <3>2
    <2> QED
      BY <2>3, <2>4, <2>5
  <1>6. ASSUME NEW i \in Replicas, SkipSeen(i) \/ PassUnseen(i)
        PROVE  TypeOK'
    BY <1>6 DEF SkipSeen, PassUnseen
  <1>7. ASSUME NEW i \in Replicas, Work(i)
        PROVE  TypeOK'
    <2>1. current[i] \in Partitions \X Offsets
      BY <1>7 DEF Work
    <2> QED
      BY <1>7, <2>1 DEF Work
  <1>8. ASSUME NEW i \in Replicas, Mark(i)
        PROVE  TypeOK'
    <2>1. current[i] \in Partitions \X Offsets
      BY <1>8 DEF Mark
    <2> QED
      BY <1>8, <2>1 DEF Mark, MsgID
  <1>9. ASSUME NEW i \in Replicas, Return(i)
        PROVE  TypeOK'
    <2>1. current[i] \in Partitions \X Offsets
      BY <1>9 DEF Return
    <2>2. position' \in [Partitions -> Nat]
      BY <1>9, <2>1 DEF Return, Offsets
    <2> QED
      BY <1>9, <2>2 DEF Return
  <1>10. ASSUME NEW i \in Replicas, Cancel(i) \/ Restart(i)
         PROVE  TypeOK'
    <2>1. /\ status' \in [Replicas -> {"running", "deaf", "cancelled", "down"}]
          /\ life' \in [Replicas -> Nat]
          /\ stops' \in Nat
          /\ UNCHANGED <<log, brokerVars, handlerVars, effects>>
      <3>1. CASE Cancel(i)
        BY <3>1 DEF Cancel
      <3>2. CASE Restart(i)
        BY <3>2 DEF Restart
      <3> QED
        BY <1>10, <3>1, <3>2
    <2>2. \A j \in Replicas : status'[j] \in {"deaf", "down"} => status[j] = status'[j]
      BY <1>10 DEF Cancel, Restart
    <2>3. ASSUME NEW j \in Replicas
          PROVE  HandlerOK(j)'
      <3>1. stage'[j] = stage[j] /\ current'[j] = current[j]
        BY <2>1
      <3> QED
        BY <2>2, <3>1
    <2> QED
      BY <2>1, <2>3
  <1>11. ASSUME NEW i \in Replicas, Exit(i) \/ Crash(i)
         PROVE  TypeOK'
    <2>1. Die(i) /\ stops' \in Nat
      BY <1>11 DEF Exit, Crash
    <2>2. /\ status' = [status EXCEPT ![i] = "down"]
          /\ stage' = [stage EXCEPT ![i] = "idle"]
          /\ current' = [current EXCEPT ![i] = None]
          /\ seen' = [seen EXCEPT ![i] = {}]
          /\ UNCHANGED <<log, position, committed, moves, fenced, life, effects>>
      BY <2>1 DEF Die
    <2>3. owner' \in [Partitions -> Replicas \union {None}]
      BY <2>1 DEF Die, Disowned
    <2>4. ASSUME NEW j \in Replicas
          PROVE  HandlerOK(j)'
      <3>1. CASE j = i
        BY <2>2, <3>1
      <3>2. CASE j # i
        BY <2>2, <3>2
      <3> QED
        BY <3>1, <3>2
    <2> QED
      BY <2>1, <2>2, <2>3, <2>4
  <1>12. ASSUME NEW i \in Replicas, SubscribeFails(i)
         PROVE  TypeOK'
    <2>1. /\ status' = [status EXCEPT ![i] = "deaf"]
          /\ stage[i] = "idle"
          /\ stops' \in Nat
          /\ UNCHANGED <<log, position, committed, moves, handlerVars, life, effects>>
      BY <1>12 DEF SubscribeFails
    <2>2. owner' \in [Partitions -> Replicas \union {None}]
      BY <1>12 DEF SubscribeFails, Disowned
    <2>3. ASSUME NEW j \in Replicas
          PROVE  HandlerOK(j)'
      <3>1. CASE j = i
        BY <2>1, <3>1
      <3>2. CASE j # i
        BY <2>1, <3>2
      <3> QED
        BY <3>1, <3>2
    <2> QED
      BY <2>1, <2>2, <2>3
  <1>13. CASE UNCHANGED vars
    BY <1>13 DEF vars
  <1> QED
    BY <1>1, <1>2, <1>3, <1>4, <1>5, <1>6, <1>7, <1>8, <1>9, <1>10, <1>11, <1>12, <1>13
       DEF Next, ConsumerNext, HandlerStep


-----------------------------------------------------------------------------
(***************************************************************************)
(* How each piece of the state can change in one step, whatever the step.  *)
(***************************************************************************)
LEMMA SeenMoves ==
    ASSUME TypeOK, [Next]_vars, NEW i \in Replicas
    PROVE  seen'[i] \subseteq seen[i] \union {m \in {current[i]} : stage[i] = "mark"}
  <1>1. ASSUME NEW j \in Replicas, Mark(j)
        PROVE  seen'[i] \subseteq seen[i] \union {m \in {current[i]} : stage[i] = "mark"}
    <2>1. seen' = [seen EXCEPT ![j] = @ \union {current[j]}] /\ stage[j] = "mark"
      BY <1>1 DEF Mark, MsgID
    <2>2. CASE i = j
      BY <2>1, <2>2 DEF TypeOK
    <2>3. CASE i # j
      BY <2>1, <2>3 DEF TypeOK
    <2> QED
      BY <2>2, <2>3
  <1>2. ASSUME NEW j \in Replicas, Exit(j) \/ Crash(j)
        PROVE  seen'[i] \subseteq seen[i]
    <2>1. seen' = [seen EXCEPT ![j] = {}]
      BY <1>2 DEF Exit, Crash, Die
    <2>2. CASE i = j
      BY <2>1, <2>2 DEF TypeOK
    <2>3. CASE i # j
      BY <2>1, <2>3 DEF TypeOK
    <2> QED
      BY <2>2, <2>3
  <1>3. CASE ~ \E j \in Replicas : Mark(j) \/ Exit(j) \/ Crash(j)
    <2>1. seen' = seen
      BY <1>3 DEF Next, ConsumerNext, vars, handlerVars, Produce, Assign, Move, Commit, Deliver,
         HandlerStep, SkipSeen, PassUnseen, Work, Return, SubscribeFails, Cancel, Restart
    <2> QED
      BY <2>1
  <1> QED
    BY <1>1, <1>2, <1>3

LEMMA StageMoves ==
    ASSUME TypeOK, [Next]_vars, NEW i \in Replicas
    PROVE  \/ stage'[i] = stage[i] /\ current'[i] = current[i]
           \/ /\ stage'[i] = "idle" /\ current'[i] = None
              /\ stage[i] = "return" \/ status'[i] = "down"
           \/ /\ stage[i] = "idle" /\ stage'[i] = "seen"
              /\ \E p \in Partitions : current'[i] = Record(p, position[p] + 1)
           \/ SkipSeen(i)
           \/ PassUnseen(i)
           \/ Work(i)
           \/ Mark(i)
  <1> USE DEF TypeOK, Goto, handlerVars
  <1>1. CASE \E p \in Partitions : Produce(p) \/ Commit(p)
    BY <1>1 DEF Produce, Commit
  <1>2. CASE \E p \in Partitions, j \in Replicas : Assign(p, j) \/ Move(p, j)
    BY <1>2 DEF Assign, Move
  <1>3. ASSUME NEW p \in Partitions, NEW j \in Replicas, Deliver(j, p)
        PROVE  \/ stage'[i] = stage[i] /\ current'[i] = current[i]
               \/ /\ stage[i] = "idle" /\ stage'[i] = "seen"
                  /\ current'[i] = Record(p, position[p] + 1)
    BY <1>3 DEF Deliver
  <1>4. ASSUME NEW j \in Replicas \ {i}, HandlerStep(j)
        PROVE  stage'[i] = stage[i] /\ current'[i] = current[i]
    BY <1>4 DEF HandlerStep, SkipSeen, PassUnseen, Work, Mark, Return
  <1>5. CASE Return(i)
    BY <1>5 DEF Return
  <1>6. ASSUME NEW j \in Replicas, Exit(j) \/ Crash(j)
        PROVE  \/ stage'[i] = stage[i] /\ current'[i] = current[i]
               \/ stage'[i] = "idle" /\ current'[i] = None /\ status'[i] = "down"
    BY <1>6 DEF Exit, Crash, Die
  <1>7. CASE \E j \in Replicas : SubscribeFails(j) \/ Cancel(j) \/ Restart(j)
    BY <1>7 DEF SubscribeFails, Cancel, Restart
  <1>8. CASE UNCHANGED vars
    BY <1>8 DEF vars
  <1> QED
    BY <1>1, <1>2, <1>3, <1>4, <1>5, <1>6, <1>7, <1>8 DEF Next, ConsumerNext, HandlerStep

LEMMA PositionMoves ==
    ASSUME TypeOK, [Next]_vars, NEW p \in Partitions
    PROVE  /\ \/ position'[p] \in {position[p], committed[p]}
              \/ \E i \in Replicas : /\ stage[i] = "return"
                                     /\ current[i] = Record(p, position'[p])
           /\ committed'[p] \in {committed[p], position[p]}
  <1> USE DEF TypeOK, brokerVars
  <1>1. ASSUME NEW i \in Replicas, Return(i)
        PROVE  /\ \/ position'[p] = position[p]
                  \/ stage[i] = "return" /\ current[i] = Record(p, position'[p])
               /\ committed'[p] = committed[p]
    <2>1. /\ stage[i] = "return" /\ committed' = committed
          /\ position' = IF fenced[i] THEN position
                         ELSE [position EXCEPT ![current[i][1]] = current[i][2]]
      BY <1>1 DEF Return
    <2>2. current[i] \in Partitions \X Offsets
      BY <2>1 DEF HandlerOK
    <2>3. current[i] = <<current[i][1], current[i][2]>>
      BY <2>2
    <2>4. CASE fenced[i] \/ current[i][1] # p
      BY <2>1, <2>2, <2>4
    <2>5. CASE ~ fenced[i] /\ current[i][1] = p
      BY <2>1, <2>2, <2>3, <2>5 DEF Record
    <2> QED
      BY <2>1, <2>4, <2>5
  <1>2. ASSUME NEW q \in Partitions, NEW i \in Replicas, Assign(q, i) \/ Move(q, i)
        PROVE  position'[p] \in {position[p], committed[p]} /\ committed'[p] = committed[p]
    BY <1>2 DEF Assign, Move
  <1>3. ASSUME NEW q \in Partitions, Commit(q)
        PROVE  position'[p] = position[p] /\ committed'[p] \in {committed[p], position[p]}
    BY <1>3 DEF Commit
  <1>4. ASSUME NEW q \in Partitions, NEW i \in Replicas, Deliver(i, q)
        PROVE  UNCHANGED <<position, committed>>
    BY <1>4 DEF Deliver
  <1>5. ASSUME NEW i \in Replicas, HandlerStep(i), ~ Return(i)
        PROVE  UNCHANGED <<position, committed>>
    BY <1>5 DEF HandlerStep, SkipSeen, PassUnseen, Work, Mark
  <1>6. ASSUME NEW i \in Replicas, SubscribeFails(i) \/ Cancel(i) \/ Exit(i) \/ Crash(i) \/ Restart(i)
        PROVE  UNCHANGED <<position, committed>>
    BY <1>6 DEF SubscribeFails, Cancel, Exit, Crash, Die, Restart
  <1>7. CASE \E q \in Partitions : Produce(q)
    BY <1>7 DEF Produce
  <1>8. CASE UNCHANGED vars
    BY <1>8 DEF vars
  <1> QED
    BY <1>1, <1>2, <1>3, <1>4, <1>5, <1>6, <1>7, <1>8 DEF Next, ConsumerNext

LEMMA EffectsMove ==
    ASSUME [Next]_vars
    PROVE  \/ effects' = effects
           \/ \E i \in Replicas : Work(i)
  BY DEF Next, ConsumerNext, vars, Produce, Assign, Move, Commit, Deliver, HandlerStep, SkipSeen,
     PassUnseen, Mark, Return, SubscribeFails, Cancel, Exit, Crash, Die, Restart


LEMMA LifeMoves ==
    ASSUME TypeOK, [Next]_vars, NEW i \in Replicas
    PROVE  \/ life'[i] = life[i] /\ status'[i] = "down"
           \/ life'[i] = life[i] /\ status[i] # "down" /\ seen[i] \subseteq seen'[i]
           \/ life'[i] = life[i] + 1
  <1> USE DEF TypeOK, handlerVars, processVars
  <1>1. ASSUME NEW j \in Replicas, Exit(j) \/ Crash(j)
        PROVE  \/ life'[i] = life[i] /\ status'[i] = "down"
               \/ UNCHANGED <<life, seen[i], status[i]>>
    <2>1. /\ status' = [status EXCEPT ![j] = "down"] /\ seen' = [seen EXCEPT ![j] = {}]
          /\ life' = life
      BY <1>1 DEF Exit, Crash, Die
    <2>2. CASE i = j
      BY <2>1, <2>2
    <2>3. CASE i # j
      BY <2>1, <2>3
    <2> QED
      BY <2>2, <2>3
  <1>2. ASSUME NEW j \in Replicas, Restart(j)
        PROVE  \/ life'[i] = life[i] + 1
               \/ UNCHANGED <<life[i], seen[i], status[i]>>
    BY <1>2 DEF Restart
  <1>3. ASSUME NEW j \in Replicas, SubscribeFails(j) \/ Cancel(j)
        PROVE  life' = life /\ seen' = seen /\ (status'[i] # "down" => status[i] # "down")
    BY <1>3 DEF SubscribeFails, Cancel
  <1>4. ASSUME NEW j \in Replicas, Mark(j)
        PROVE  life' = life /\ seen[i] \subseteq seen'[i] /\ status' = status
    <2>1. seen' = [seen EXCEPT ![j] = @ \union {current[j]}]
      BY <1>4 DEF Mark, MsgID
    <2>2. CASE i = j
      BY <1>4, <2>1, <2>2 DEF Mark
    <2>3. CASE i # j
      BY <1>4, <2>1, <2>3 DEF Mark
    <2> QED
      BY <2>2, <2>3
  <1>5. CASE ~ \E j \in Replicas : Exit(j) \/ Crash(j) \/ Restart(j) \/ SubscribeFails(j) \/ Cancel(j) \/ Mark(j)
    <2>1. UNCHANGED <<life, seen, status>>
      BY <1>5 DEF Next, ConsumerNext, vars, Produce, Assign, Move, Commit, Deliver,
         HandlerStep, SkipSeen, PassUnseen, Work, Return
    <2> QED
      BY <2>1
  <1> QED
    BY <1>1, <1>2, <1>3, <1>4, <1>5

-----------------------------------------------------------------------------
(***************************************************************************)
(* Whatever is taken for done was worked on.                               *)
(***************************************************************************)
LEMMA DoneIsWorkedStep ==
    ASSUME TypeOK, DoneIsWorked, InOrder, [Next]_vars
    PROVE  DoneIsWorked'
  <1>1. ASSUME NEW i \in Replicas, NEW m \in seen'[i]
        PROVE  Worked(m)'
    <2>1. m \in seen[i] \/ (stage[i] = "mark" /\ m = current[i])
      BY SeenMoves
    <2>2. Worked(m)
      BY <2>1 DEF DoneIsWorked
    <2> QED
      BY <2>2, EffectsGrow
  <1>2. ASSUME NEW i \in Replicas, stage'[i] \in {"mark", "return"}
        PROVE  Worked(current[i])'
    <2>1. CASE Work(i)
      <3>1. /\ effects' = effects \union {[msg |-> current[i], by |-> i, life |-> life[i]]}
            /\ current' = current
        BY <2>1 DEF Work
      <3>2. [msg |-> current[i], by |-> i, life |-> life[i]] \in effects'
        BY <3>1
      <3>3. \E e \in effects' : e.msg = current'[i]
        BY <3>1, <3>2
      <3> QED
        BY <3>3 DEF Worked
    <2>2. CASE SkipSeen(i) \/ Mark(i)
      <3>1. Worked(current[i]) /\ current' = current
        BY <2>2 DEF SkipSeen, Mark, MsgID, DoneIsWorked
      <3> QED
        BY <3>1, EffectsGrow
    <2>3. CASE stage'[i] = stage[i] /\ current'[i] = current[i]
      <3>1. Worked(current[i])
        BY <1>2, <2>3 DEF DoneIsWorked
      <3> QED
        BY <2>3, <3>1, EffectsGrow DEF Worked
    <2>4. CASE PassUnseen(i)
      BY <1>2, <2>4 DEF PassUnseen, Goto, TypeOK
    <2> QED
      BY <1>2, <2>1, <2>2, <2>3, <2>4, StageMoves
  <1>3. ASSUME NEW p \in Partitions, NEW o \in 1 .. position'[p]
        PROVE  Worked(Record(p, o))'
    <2>1. CASE position'[p] \in {position[p], committed[p]}
      <3>1. Worked(Record(p, o))
        BY <1>3, <2>1 DEF DoneIsWorked, CommittedWasWorked
      <3> QED
        BY <3>1, EffectsGrow DEF Record
    <2>2. CASE \E i \in Replicas : stage[i] = "return" /\ current[i] = Record(p, position'[p])
      <3>1. PICK i \in Replicas : stage[i] = "return" /\ current[i] = Record(p, position'[p])
        BY <2>2
      <3>2. current[i] # None /\ current[i] \in Partitions \X Offsets
        BY <3>1 DEF TypeOK, HandlerOK
      <3>3. current[i][1] = p /\ current[i][2] = position'[p] /\ position'[p] \in Nat
        BY <3>1, <3>2 DEF Record, Offsets
      <3>4. CASE o = position'[p]
        <4>1. Worked(Record(p, o))
          BY <3>1, <3>4 DEF DoneIsWorked
        <4> QED
          BY <4>1, EffectsGrow DEF Record
      <3>5. CASE o # position'[p]
        <4>1. o \in 1 .. (current[i][2] - 1)
          BY <1>3, <3>3, <3>5
        <4>2. Worked(Record(p, o))
          BY <3>2, <3>3, <4>1 DEF InOrder
        <4> QED
          BY <4>2, EffectsGrow DEF Record
      <3> QED
        BY <3>4, <3>5
    <2> QED
      BY <2>1, <2>2, PositionMoves
  <1>4. ASSUME NEW p \in Partitions, NEW o \in 1 .. committed'[p]
        PROVE  Worked(Record(p, o))'
    <2>1. o \in 1 .. committed[p] \/ o \in 1 .. position[p]
      BY <1>4, PositionMoves
    <2>2. Worked(Record(p, o))
      BY <2>1 DEF DoneIsWorked, CommittedWasWorked
    <2> QED
      BY <2>2, EffectsGrow DEF Record
  <1> QED
    BY <1>1, <1>2, <1>3, <1>4 DEF DoneIsWorked, CommittedWasWorked

(***************************************************************************)
(* Nothing is worked on ahead of an earlier record of its partition.       *)
(***************************************************************************)
LEMMA InOrderStep ==
    ASSUME TypeOK, DoneIsWorked, InOrder, [Next]_vars
    PROVE  InOrder'
  <1>1. ASSUME NEW i \in Replicas, current'[i] # None, NEW o \in 1 .. (current'[i][2] - 1)
        PROVE  Worked(Record(current[i][1], o))'
    <2>1. CASE current'[i] = current[i]
      <3>1. Worked(Record(current[i][1], o))
        BY <1>1, <2>1 DEF InOrder
      <3> QED
        BY <2>1, <3>1, EffectsGrow DEF Worked, Record
    <2>2. CASE \E p \in Partitions : current'[i] = Record(p, position[p] + 1)
      <3>1. PICK p \in Partitions : current'[i] = Record(p, position[p] + 1)
        BY <2>2
      <3>2. current'[i][1] = p /\ current'[i][2] = position[p] + 1 /\ position[p] \in Nat
        BY <3>1 DEF Record, TypeOK
      <3>3. o \in 1 .. position[p]
        BY <1>1, <3>2
      <3>4. Worked(Record(p, o))
        BY <3>3 DEF DoneIsWorked
      <3> QED
        BY <3>2, <3>4, EffectsGrow DEF Worked, Record
    <2>3. current'[i] = current[i] \/ \E p \in Partitions : current'[i] = Record(p, position[p] + 1)
      BY <1>1, StageMoves DEF SkipSeen, PassUnseen, Work, Mark
    <2> QED
      BY <2>1, <2>2, <2>3
  <1>2. ASSUME NEW e \in effects', NEW o \in 1 .. e.msg[2]
        PROVE  Worked(Record(e.msg[1], o))'
    <2>1. CASE e \in effects
      <3>1. Worked(Record(e.msg[1], o))
        BY <1>2, <2>1 DEF InOrder, WorkedInOrder
      <3> QED
        BY <3>1, EffectsGrow DEF Worked, Record
    <2>2. CASE e \notin effects
      <3>1. PICK i \in Replicas : Work(i)
        BY <2>2, EffectsMove DEF Work
      <3>2. e.msg = current[i] /\ stage[i] = "work"
        BY <2>2, <3>1 DEF Work
      <3>3. current[i] # None /\ current[i] \in Partitions \X Offsets
        BY <3>2 DEF TypeOK, HandlerOK
      <3>4. e.msg = Record(e.msg[1], e.msg[2]) /\ e.msg[2] \in Nat
        BY <3>2, <3>3 DEF Record, Offsets
      <3>5. CASE o = e.msg[2]
        BY <3>4, <3>5 DEF Worked, Record
      <3>6. CASE o # e.msg[2]
        <4>1. o \in 1 .. (current[i][2] - 1)
          BY <1>2, <3>2, <3>4, <3>6
        <4>2. Worked(Record(e.msg[1], o))
          BY <3>2, <3>3, <4>1 DEF InOrder
        <4> QED
          BY <4>2, EffectsGrow DEF Worked, Record
      <3> QED
        BY <3>5, <3>6
    <2> QED
      BY <2>1, <2>2
  <1> QED
    BY <1>1, <1>2 DEF InOrder, WorkedInOrder


(***************************************************************************)
(* A living process remembers what it worked on.                           *)
(***************************************************************************)
LEMMA DeduplicatedStep ==
    ASSUME TypeOK, Deduplicated, [Next]_vars
    PROVE  Deduplicated'
  <1>1. ASSUME NEW i \in Replicas, stage'[i] = "work"
        PROVE  current'[i] \notin seen'[i]
    <2>1. CASE PassUnseen(i)
      BY <2>1 DEF PassUnseen, MsgID
    <2>2. CASE stage'[i] = stage[i] /\ current'[i] = current[i]
      <3>1. current[i] \notin seen[i]
        BY <1>1, <2>2 DEF Deduplicated
      <3>2. seen'[i] \subseteq seen[i]
        BY <1>1, <2>2, SeenMoves
      <3> QED
        BY <2>2, <3>1, <3>2
    <2>3. CASE SkipSeen(i) \/ Work(i) \/ Mark(i)
      BY <1>1, <2>3 DEF SkipSeen, Work, Mark, Goto, TypeOK
    <2> QED
      BY <1>1, <2>1, <2>2, <2>3, StageMoves
  <1>2. ASSUME NEW e \in effects, e \in effects'
        PROVE  /\ e.life <= life'[e.by]
               /\ status'[e.by] # "down" /\ e.life = life'[e.by] =>
                     \/ e.msg \in seen'[e.by]
                     \/ stage'[e.by] = "mark" /\ current'[e.by] = e.msg
    <2> DEFINE i == e.by
    <2>1. i \in Replicas /\ e.life \in Nat /\ life[i] \in Nat /\ e.life <= life[i]
      BY <1>2 DEF TypeOK, Deduplicated
    <2>2. CASE life'[i] = life[i] /\ status'[i] = "down"
      BY <2>1, <2>2
    <2>3. CASE life'[i] = life[i] + 1
      BY <2>1, <2>3
    <2>4. CASE /\ life'[i] = life[i] /\ status[i] # "down" /\ seen[i] \subseteq seen'[i]
               /\ status'[i] # "down" /\ e.life = life'[i]
      <3>1. CASE e.msg \in seen[i]
        BY <2>1, <2>4, <3>1
      <3>2. CASE stage[i] = "mark" /\ current[i] = e.msg
        <4>1. CASE Mark(i)
          <5>1. current[i] \in seen'[i]
            BY <2>1, <4>1 DEF Mark, MsgID, TypeOK
          <5> QED
            BY <2>1, <2>4, <3>2, <5>1
        <4>2. CASE stage'[i] = stage[i] /\ current'[i] = current[i]
          BY <2>1, <2>4, <3>2, <4>2
        <4>3. ~ SkipSeen(i) /\ ~ PassUnseen(i) /\ ~ Work(i)
          BY <3>2 DEF SkipSeen, PassUnseen, Work
        <4> QED
          BY <2>1, <2>4, <3>2, <4>1, <4>2, <4>3, StageMoves
      <3> QED
        BY <1>2, <2>4, <3>1, <3>2 DEF Deduplicated
    <2> QED
      BY <2>1, <2>2, <2>3, <2>4, LifeMoves
  <1>3. ASSUME NEW e \in effects', e \notin effects
        PROVE  /\ e.life <= life'[e.by]
               /\ status'[e.by] # "down" /\ e.life = life'[e.by] =>
                     \/ e.msg \in seen'[e.by]
                     \/ stage'[e.by] = "mark" /\ current'[e.by] = e.msg
    <2>1. PICK i \in Replicas : Work(i)
      BY <1>3, EffectsMove
    <2>2. e = [msg |-> current[i], by |-> i, life |-> life[i]]
      BY <1>3, <2>1 DEF Work
    <2>3. stage'[i] = "mark" /\ current' = current /\ life' = life /\ life[i] \in Nat
      BY <2>1 DEF Work, Goto, processVars, TypeOK
    <2> QED
      BY <2>2, <2>3
  <1>4. \A e \in effects' :
           /\ e.life <= life'[e.by]
           /\ status'[e.by] # "down" /\ e.life = life'[e.by] =>
                 \/ e.msg \in seen'[e.by]
                 \/ stage'[e.by] = "mark" /\ current'[e.by] = e.msg
    BY <1>2, <1>3
  <1> QED
    BY <1>1, <1>4 DEF Deduplicated

(***************************************************************************)
(* A handler works on the record it was called with, which exists.         *)
(***************************************************************************)
LEMMA WorkExistsStep ==
    ASSUME TypeOK, WorkExists, [Next]_vars
    PROVE  WorkExists'
  <1> SUFFICES ASSUME NEW e \in effects'
               PROVE  Exists(e.msg)'
    BY DEF WorkExists
  <1>1. e.msg \in Partitions \X Offsets /\ Exists(e.msg)
    <2>1. CASE e \in effects
      BY <2>1 DEF TypeOK, WorkExists
    <2>2. CASE e \notin effects
      <3>1. PICK i \in Replicas : /\ stage[i] = "work"
                                  /\ e = [msg |-> current[i], by |-> i, life |-> life[i]]
        BY <2>2, EffectsMove DEF Work
      <3>2. current[i] # None /\ current[i] \in Partitions \X Offsets
        BY <3>1 DEF TypeOK, HandlerOK
      <3> QED
        BY <3>1, <3>2 DEF TypeOK, HandlerOK
    <2> QED
      BY <2>1, <2>2
  <1> QED
    BY <1>1, LogGrows

-----------------------------------------------------------------------------
LEMMA IInvInit == Init => IInv
  <1> SUFFICES ASSUME Init
               PROVE  IInv
    OBVIOUS
  <1>1. TypeOK
    BY DEF Init, TypeOK, HandlerOK
  <1>2. DoneIsWorked /\ WorkExists
    BY DEF Init, DoneIsWorked, CommittedWasWorked, WorkExists
  <1>3. InOrder
    BY DEF Init, InOrder, WorkedInOrder
  <1>4. Deduplicated
    BY DEF Init, Deduplicated
  <1> QED
    BY <1>1, <1>2, <1>3, <1>4 DEF IInv

LEMMA IInvStep == IInv /\ [Next]_vars => IInv'
  BY TypeStep, DoneIsWorkedStep, WorkExistsStep, InOrderStep, DeduplicatedStep DEF IInv

(***************************************************************************)
(* The inductive invariant holds in every reachable state.                 *)
(***************************************************************************)
THEOREM LedgerInvariant == Spec => []IInv
  BY IInvInit, IInvStep, PTL DEF Spec

(***************************************************************************)
(* Type correctness of the consumer group; a handler only ever runs for a  *)
(* record that exists and in a process that is up (main.go:98-136).        *)
(***************************************************************************)
THEOREM LedgerTypeCorrect == Spec => []TypeOK
  <1>1. IInv => TypeOK
    BY DEF IInv
  <1> QED
    BY <1>1, LedgerInvariant, PTL

(***************************************************************************)
(* At least once: no offset is committed over a record that nobody worked  *)
(* on (main.go:106-132).                                                   *)
(***************************************************************************)
THEOREM NothingIsSkipped == Spec => []CommittedWasWorked
  <1>1. IInv => CommittedWasWorked
    BY DEF IInv, DoneIsWorked
  <1> QED
    BY <1>1, LedgerInvariant, PTL

(***************************************************************************)
(* The records of a partition are first worked on in their order           *)
(* (message.go:9-11); nothing is said of two partitions.                   *)
(***************************************************************************)
THEOREM PartitionsAreWorkedInOrder == Spec => []WorkedInOrder
  <1>1. IInv => WorkedInOrder
    BY DEF IInv, InOrder
  <1> QED
    BY <1>1, LedgerInvariant, PTL

(***************************************************************************)
(* A handler that is about to do its work does it for the first time in    *)
(* this process.                                                           *)
(***************************************************************************)
LEMMA WorkIsNew ==
    ASSUME IInv, [Next]_vars, NEW i \in Replicas, stage[i] = "work", stage'[i] = "mark"
    PROVE  [msg |-> current[i], by |-> i, life |-> life[i]] \notin effects
  <1> DEFINE e == [msg |-> current[i], by |-> i, life |-> life[i]]
  <1>1. status[i] # "down" /\ current[i] \notin seen[i]
    BY DEF IInv, TypeOK, HandlerOK, Deduplicated
  <1>2. ASSUME e \in effects
        PROVE  FALSE
    <2>1. e.by = i /\ e.life = life[i] /\ e.msg = current[i]
      OBVIOUS
    <2>2. e.msg \in seen[i] \/ stage[i] = "mark"
      BY <1>1, <1>2, <2>1 DEF IInv, Deduplicated
    <2> QED
      BY <1>1, <2>1, <2>2
  <1> QED
    BY <1>2

(***************************************************************************)
(* At most once per process: the deduplicator keeps one process from doing *)
(* the work of a record twice, however often it is delivered               *)
(* (main.go:106-113, 131, 165-190).                                        *)
(***************************************************************************)
THEOREM AtMostOncePerProcess == Spec => OncePerProcess
  <1> DEFINE A == \A i \in Replicas :
                     stage[i] = "work" /\ stage'[i] = "mark" =>
                        [msg |-> current[i], by |-> i, life |-> life[i]] \notin effects
  <1>1. IInv /\ [Next]_vars => [A]_vars
    BY WorkIsNew
  <1> QED
    BY <1>1, LedgerInvariant, PTL DEF Spec, OncePerProcess

=============================================================================
