--------------------------- MODULE NotifierProofs ---------------------------
(* Proofs about Notifier, for every set of alerts and of sinks.            *)
EXTENDS Notifier, TLAPS

USE ConsumerAssumption, NotifierAssumption

\* Init establishes the type invariant.
LEMMA InitTypeOK == Init => TypeOK
  <1> SUFFICES ASSUME Init PROVE TypeOK
    OBVIOUS
  <1>1. ConsumerTypeOK
    BY DEF Init, ConsumerInit, ConsumerTypeOK
  <1> QED
    BY <1>1 DEF Init, TypeOK, Keys

\* Every action keeps the types.
LEMMA NextTypeOK == TypeOK /\ [Next]_vars => TypeOK'
  <1> SUFFICES ASSUME TypeOK, [Next]_vars PROVE TypeOK'
    OBVIOUS
  <1> USE DEF TypeOK, ConsumerTypeOK, streamVars, gateVars, sendVars
  <1>1. ASSUME NEW m \in Msgs, Broker(Publish(m)) PROVE TypeOK'
    BY <1>1 DEF Broker, Publish
  <1>2. ASSUME NEW m \in Msgs, Broker(Deliver(m)) PROVE TypeOK'
    BY <1>2 DEF Broker, Deliver, Deliverable
  <1>3. CASE Broker(Tick)
    BY <1>3 DEF Broker, Tick
  <1>4. ASSUME NEW m \in Msgs, HandleUnwanted(m) PROVE TypeOK'
    BY <1>4 DEF HandleUnwanted, UpNext, Settle
  <1>5. Pruned \in [Keys -> {Never} \cup 0..MaxClock]
    BY DEF Pruned
  <1>6. ASSUME NEW m \in Msgs, HandleThrottled(m) PROVE TypeOK'
    <2>1. lastSeen' \in [Keys -> {Never} \cup 0..MaxClock]
      BY <1>5, <1>6 DEF HandleThrottled
    <2>2. buffer' \in Seq(Msgs) /\ settled' \subseteq Msgs
      BY <1>6 DEF HandleThrottled, UpNext, Settle
    <2> QED
      BY <1>6, <2>1, <2>2 DEF HandleThrottled, Settle
  <1>7. ASSUME NEW m \in Msgs, HandleDispatch(m) PROVE TypeOK'
    <2>1. KeyOf[m] \in Keys
      BY DEF Keys
    <2>2. lastSeen' \in [Keys -> {Never} \cup 0..MaxClock]
      <3>1. CASE Cooldown = 0
        BY <1>7, <3>1 DEF HandleDispatch
      <3>2. CASE Cooldown # 0
        BY <1>5, <1>7, <2>1, <3>2 DEF HandleDispatch
      <3> QED
        BY <3>1, <3>2
    <2>3. dispatched' \in [Keys -> {Never} \cup 0..MaxClock]
      BY <1>7, <2>1 DEF HandleDispatch
    <2>4. buffer' \in Seq(Msgs)
      BY <1>7 DEF HandleDispatch, UpNext
    <2> QED
      BY <1>7, <2>2, <2>3, <2>4 DEF HandleDispatch
  <1>8. ASSUME NEW m \in Msgs, HandleReturns(m) PROVE TypeOK'
    <2>1. settled' \subseteq Msgs /\ published' = published /\ deliveries' = deliveries
      BY <1>8 DEF HandleReturns, Settle, Retry
    <2>2. dueAt' \in [Msgs -> Nat]
      <3>1. CASE failures
        <4>1. clock + NakDelay \in Nat
          OBVIOUS
        <4> QED
          BY <1>8, <3>1, <4>1 DEF HandleReturns, Retry
      <3>2. CASE ~failures
        BY <1>8, <3>2 DEF HandleReturns, Settle
      <3> QED
        BY <3>1, <3>2
    <2> QED
      BY <1>8, <2>1, <2>2 DEF HandleReturns
  <1>9. ASSUME NEW s \in Sinks, SinkReturns(s) PROVE TypeOK'
    <2>1. reached' \subseteq Msgs \X Sinks
      BY <1>9 DEF SinkReturns
    <2>2. failures' \in BOOLEAN
      BY <1>9 DEF SinkReturns
    <2> QED
      BY <1>9, <2>1, <2>2 DEF SinkReturns
  <1>10. CASE Crash
    <2>1. lastSeen' \in [Keys -> {Never} \cup 0..MaxClock]
          /\ dispatched' \in [Keys -> {Never} \cup 0..MaxClock]
      BY <1>10 DEF Crash
    <2>2. buffer' \in Seq(Msgs) /\ failures' \in BOOLEAN
      <3>1. buffer' = <<>>
        BY <1>10 DEF Crash
      <3>2. failures' = FALSE
        BY <1>10 DEF Crash
      <3>3. <<>> \in Seq(Msgs)
        OBVIOUS
      <3> QED
        BY <3>1, <3>2, <3>3, Zenon
    <2>3. ConsumerTypeOK'
      BY <1>10, <2>2 DEF Crash
    <2>4. handling' \in Msgs \cup {NoMsg} /\ pending' \subseteq Sinks /\ reached' \subseteq Msgs \X Sinks
      BY <1>10 DEF Crash
    <2> HIDE DEF ConsumerTypeOK
    <2> QED
      BY <2>1, <2>2, <2>3, <2>4
  <1>11. CASE UNCHANGED vars
    BY <1>11 DEF vars
  <1> QED
    BY <1>1, <1>2, <1>3, <1>4, <1>6, <1>7, <1>8, <1>9, <1>10, <1>11 DEF Next, Handle

\* The variables keep their types.
THEOREM TypeCorrect == Spec => []TypeOK
  BY InitTypeOK, NextTypeOK, PTL DEF Spec

\* A successful dispatch has reached the sinks that returned.
LEMMA NextDispatchInv == TypeOK /\ DispatchInv /\ [Next]_vars => DispatchInv'
  <1> SUFFICES ASSUME TypeOK, DispatchInv, [Next]_vars PROVE DispatchInv'
    OBVIOUS
  <1> USE DEF TypeOK, DispatchInv, sendVars
  <1>1. CASE UNCHANGED sendVars
    BY <1>1
  <1>2. ASSUME NEW m \in Msgs, HandleDispatch(m) PROVE DispatchInv'
    BY <1>2 DEF HandleDispatch
  <1>3. ASSUME NEW m \in Msgs, HandleReturns(m) PROVE DispatchInv'
    BY <1>3 DEF HandleReturns
  <1>4. ASSUME NEW s \in Sinks, SinkReturns(s) PROVE DispatchInv'
    BY <1>4 DEF SinkReturns
  <1>5. CASE Crash
    BY <1>5 DEF Crash
  <1> QED
    BY <1>1, <1>2, <1>3, <1>4, <1>5
    DEF Next, Handle, Broker, HandleUnwanted, HandleThrottled, vars

\* The gate keeps an entry as long as the window of its dispatch runs.
LEMMA NextGateInv == TypeOK /\ GateInv /\ [Next]_vars => GateInv'
  <1> SUFFICES ASSUME TypeOK, GateInv, [Next]_vars PROVE GateInv'
    OBVIOUS
  <1> USE DEF TypeOK, ConsumerTypeOK, GateInv, gateVars, Never
  <1>1. CASE UNCHANGED <<gateVars, clock>>
    BY <1>1
  <1>2. CASE Broker(Tick)
    BY <1>2 DEF Broker, Tick
  <1>3. ASSUME NEW m \in Msgs, HandleThrottled(m) PROVE GateInv'
    BY <1>3 DEF HandleThrottled, Pruned
  <1>4. ASSUME NEW m \in Msgs, HandleDispatch(m) PROVE GateInv'
    <2> SUFFICES ASSUME NEW k \in Keys
                 PROVE  /\ dispatched'[k] <= clock'
                        /\ lastSeen'[k] \in {Never, dispatched'[k]}
                        /\ Cooldown = 0 => lastSeen'[k] = Never
                        /\ Cooldown > 0 /\ dispatched'[k] # Never /\ lastSeen'[k] = Never
                             => clock' - dispatched'[k] >= Cooldown
      BY DEF GateInv
    <2>1. clock' = clock /\ clock \in 0..MaxClock
      BY <1>4 DEF HandleDispatch
    <2>2. CASE k = KeyOf[m]
      <3>1. dispatched'[k] = clock
        BY <1>4, <2>2 DEF HandleDispatch
      <3>2. lastSeen'[k] = IF Cooldown = 0 THEN lastSeen[k] ELSE clock
        BY <1>4, <2>2 DEF HandleDispatch, Pruned
      <3>3. Cooldown = 0 => lastSeen[k] = Never
        BY DEF GateInv
      <3> QED
        BY <2>1, <3>1, <3>2, <3>3
    <2>3. CASE k # KeyOf[m]
      <3>1. dispatched'[k] = dispatched[k]
        BY <1>4, <2>3 DEF HandleDispatch
      <3>2. lastSeen'[k] = IF Cooldown = 0 THEN lastSeen[k] ELSE Pruned[k]
        BY <1>4, <2>3 DEF HandleDispatch, Pruned
      <3> QED
        BY <2>1, <3>1, <3>2 DEF Pruned
    <2> QED
      BY <2>2, <2>3
  <1>5. CASE Crash
    BY <1>5 DEF Crash
  <1> QED
    BY <1>1, <1>2, <1>3, <1>4, <1>5
    DEF Next, Handle, Broker, Publish, Deliver, HandleUnwanted, HandleReturns, SinkReturns, vars

\* Dispatches of one key are a window apart for as long as the process lives.
THEOREM CooldownHolds == Spec => CooldownSpacing
  <1> DEFINE Inv == TypeOK /\ GateInv
  <1>1. Init => Inv
    BY InitTypeOK DEF Init, ConsumerInit, GateInv, Never
  <1>2. Inv /\ [Next]_vars => Inv'
    BY NextTypeOK, NextGateInv
  <1>3. Inv /\ [Next]_vars => [CooldownStep]_vars
    <2> SUFFICES ASSUME Inv, [Next]_vars, NEW k \in Keys, dispatched[k] # Never,
                        dispatched'[k] # dispatched[k], dispatched'[k] # Never
                 PROVE  dispatched'[k] - dispatched[k] >= Cooldown
      BY DEF CooldownStep
    <2> USE DEF TypeOK, ConsumerTypeOK, GateInv, gateVars, Never
    <2>1. CASE UNCHANGED dispatched
      BY <2>1
    <2>2. ASSUME NEW m \in Msgs, HandleDispatch(m)
          PROVE  dispatched'[k] - dispatched[k] >= Cooldown
      <3>1. dispatched'[k] = clock /\ KeyOf[m] = k
        BY <2>2 DEF HandleDispatch
      <3>2. Cooldown = 0 \/ Pruned[k] = Never
        BY <2>2, <3>1 DEF HandleDispatch, Allowed
      <3>3. CASE Cooldown = 0
        BY <3>1, <3>3
      <3>4. CASE Cooldown > 0 /\ Pruned[k] = Never
        BY <3>1, <3>4 DEF Pruned
      <3> QED
        BY <3>2, <3>3, <3>4
    <2>3. CASE Crash
      BY <2>3 DEF Crash
    <2> QED
      BY <2>1, <2>2, <2>3
      DEF Next, Handle, Broker, HandleUnwanted, HandleThrottled, HandleReturns, SinkReturns, vars
  <1> QED
    BY <1>1, <1>2, <1>3, PTL DEF Spec, CooldownSpacing

\* An acknowledged alert reached every sink, or another dispatch of its key by
\* the same process came less than a window before it.
THEOREM AcksAreJustified == Spec => AckJustified
  <1> DEFINE Inv == TypeOK /\ DispatchInv /\ GateInv
  <1>1. Init => Inv
    BY InitTypeOK DEF Init, ConsumerInit, DispatchInv, GateInv, Never
  <1>2. Inv /\ [Next]_vars => Inv'
    BY NextTypeOK, NextDispatchInv, NextGateInv
  <1>3. Inv /\ [Next]_vars => [AckStep]_vars
    <2> SUFFICES ASSUME Inv, [Next]_vars, NEW a \in settled' \ settled, Wanted(a)
                 PROVE  \/ ReachedAll(a)
                        \/ dispatched[KeyOf[a]] # Never /\ clock - dispatched[KeyOf[a]] < Cooldown
      BY DEF AckStep
    <2> USE DEF streamVars, gateVars, sendVars
    <2>1. ASSUME NEW m \in Msgs, HandleUnwanted(m) PROVE FALSE
      BY <2>1 DEF HandleUnwanted, Settle
    <2>2. ASSUME NEW m \in Msgs, HandleThrottled(m)
          PROVE  dispatched[KeyOf[a]] # Never /\ clock - dispatched[KeyOf[a]] < Cooldown
      <3>1. a = m /\ KeyOf[m] \in Keys
        BY <2>2 DEF HandleThrottled, Settle, Keys
      <3>2. Pruned[KeyOf[m]] # Never
        BY <2>2 DEF HandleThrottled, Allowed
      <3>3. lastSeen[KeyOf[m]] # Never /\ clock - lastSeen[KeyOf[m]] < Cooldown
        BY <3>1, <3>2 DEF Pruned, TypeOK, ConsumerTypeOK, Never
      <3> QED
        BY <3>1, <3>3 DEF GateInv
    <2>3. ASSUME NEW m \in Msgs, HandleReturns(m) PROVE ReachedAll(a)
      BY <2>3 DEF HandleReturns, Settle, Retry, DispatchInv, ReachedAll, TypeOK
    <2> QED
      BY <2>1, <2>2, <2>3
      DEF Next, Handle, Broker, Publish, Deliver, Tick, HandleDispatch, SinkReturns, Crash, vars
  <1> QED
    BY <1>1, <1>2, <1>3, PTL DEF Spec, AckJustified

=============================================================================
