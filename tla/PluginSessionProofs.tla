------------------------ MODULE PluginSessionProofs ------------------------
(* What tests and threads may count on, proved for any number of tests,    *)
(* reruns, threads, connections and queries.                               *)
EXTENDS PluginSession, SequenceTheorems, FiniteSetTheorems, TLAPS

Conns(r, n, m) ==
    [run : 1 .. r, test : Tests, driver : Drivers, session : Sessions,
     inner : 0 .. n, late : BOOLEAN, clone : BOOLEAN, state : 1 .. m,
     closed : BOOLEAN]

Recs(r) == [run : 0 .. r, session : Sessions]

Keys(m) == [test : Tests, driver : Drivers, state : 1 .. m]

ConnectionsTyped == connections \in Seq(Conns(run, Len(connections), Len(states)))

StatesTyped ==
    /\ states \in Seq(States)
    /\ cassette_states \in [Sessions -> SUBSET Keys(Len(states))]

CassettesTyped ==
    /\ DOMAIN cassettes = Cassettes
    /\ \A p \in Cassettes : cassettes[p] \in Seq(Recs(run))
    /\ queries \in 0 .. MaxQueries
    /\ recorded \in [Cassettes -> Nat]
    /\ \A p \in Cassettes : recorded[p] <= queries

(* The test that runs, and what the hooks have made of the plugin's item.  *)
HooksTyped ==
    /\ mode \in Modes
    /\ run \in 0 .. MaxRuns
    /\ session_state \in Sessions
    /\ phase \in {"between", "running", "finalised", "cleared", "closing"}
    /\ running \in (IF phase = "between" THEN {NoTest} ELSE Tests)
    /\ phase # "between" => run > 0
    /\ current_item = (IF phase \in {"running", "finalised"} THEN running ELSE NoTest)

OpenTyped ==
    /\ closing \subseteq 1 .. Len(connections)
    /\ open_connections \in [Tests -> SUBSET (1 .. Len(connections))]
    /\ phase # "closing" => closing = {}

(* A thread has its locals only while it is in connect().                  *)
ThreadsTyped ==
    /\ pc \in [Threads -> {"idle", "item", "session", "wrapped"}]
    /\ item \in [Threads -> Tests \union {NoTest}]
    /\ called \in [Threads -> 0 .. run]
    /\ session_obj \in [Threads -> Sessions \union {NoSession}]
    /\ conn \in [Threads -> 0 .. Len(connections)]
    /\ \A th \in Threads :
         /\ pc[th] = "idle" => called[th] = 0
         /\ pc[th] # "idle" => item[th] \in Tests /\ called[th] > 0
         /\ pc[th] \in {"session", "wrapped"} => session_obj[th] \in Sessions
         /\ (pc[th] = "wrapped") = (conn[th] # 0)

TypesInv ==
    /\ ConnectionsTyped /\ StatesTyped /\ CassettesTyped
    /\ HooksTyped /\ OpenTyped /\ ThreadsTyped

LEMMA ConnsGrow ==
    ASSUME NEW r \in Nat, NEW n \in Nat, NEW m \in Nat,
           NEW r2 \in Nat, NEW n2 \in Nat, NEW m2 \in Nat,
           r <= r2, n <= n2, m <= m2
    PROVE  Conns(r, n, m) \subseteq Conns(r2, n2, m2)
  <1>1. 1 .. r \subseteq 1 .. r2 /\ 0 .. n \subseteq 0 .. n2 /\ 1 .. m \subseteq 1 .. m2
    OBVIOUS
  <1>2. QED  BY <1>1, Zenon DEF Conns

LEMMA KeysGrow ==
    ASSUME NEW m \in Nat, NEW m2 \in Nat, m <= m2
    PROVE  Keys(m) \subseteq Keys(m2)
  BY DEF Keys

LEMMA NewStateType == NewState \in States
  BY DEF NewState, States

(* cassette_state() and the connection that gets its answer.               *)
LEMMA TakesState ==
    ASSUME TypesInv, NEW r \in 1 .. run, NEW s \in Sessions, NEW t \in Tests,
           NEW d \in Drivers, NEW inner \in Nat, TakeState(s, t, d)
    PROVE  /\ StatesTyped'
           /\ Len(states') \in {Len(states), Len(states) + 1}
           /\ \A i \in 1 .. Len(states) : states'[i] = states[i]
           /\ Connection(r, s, t, d, inner) \in Conns(run, inner, Len(states'))
  <1>0. /\ Len(states) \in Nat /\ cassette_states[s] \subseteq Keys(Len(states))
        /\ states \in Seq(States)
    BY LenProperties DEF TypesInv, StatesTyped
  <1>a. SharedState(s, t, d) \subseteq Keys(Len(states))
    BY <1>0 DEF SharedState, Known
  <1>1. CASE SharedState(s, t, d) # {}
    <2>1. UNCHANGED <<cassette_states, states>>
      BY <1>1 DEF TakeState
    <2>2. (CHOOSE e \in SharedState(s, t, d) : TRUE).state \in 1 .. Len(states)
      <3>1. (CHOOSE e \in SharedState(s, t, d) : TRUE) \in SharedState(s, t, d)
        BY <1>1
      <3>2. QED  BY <3>1, <1>a DEF Keys
    <2>3. Connection(r, s, t, d, inner) \in Conns(run, inner, Len(states))
      BY <2>2, <1>1, <1>0 DEF Connection, Conns
    <2>4. QED  BY <2>1, <2>3, <1>0 DEF TypesInv, StatesTyped
  <1>2. CASE SharedState(s, t, d) = {}
    <2>1. /\ states' = Append(states, NewState)
          /\ cassette_states' = [cassette_states EXCEPT ![s] = (@ \ Known(s, t, d)) \union
                     {[test |-> t, driver |-> d, state |-> Len(states) + 1]}]
      BY <1>2 DEF TakeState
    <2>2. /\ states' \in Seq(States) /\ Len(states') = Len(states) + 1
          /\ \A i \in 1 .. Len(states) : states'[i] = states[i]
      BY <2>1, <1>0, NewStateType, AppendProperties
    <2>3. cassette_states' \in [Sessions -> SUBSET Keys(Len(states'))]
      <3>1. \A z \in Sessions : cassette_states[z] \subseteq Keys(Len(states) + 1)
        BY KeysGrow, <1>0 DEF TypesInv, StatesTyped
      <3>2. [test |-> t, driver |-> d, state |-> Len(states) + 1] \in Keys(Len(states) + 1)
        BY <1>0 DEF Keys
      <3>3. QED  BY <3>1, <3>2, <2>1, <2>2 DEF TypesInv, StatesTyped
    <2>4. Connection(r, s, t, d, inner) \in Conns(run, inner, Len(states) + 1)
      BY <1>2, <1>0 DEF Connection, Conns
    <2>5. QED  BY <2>2, <2>3, <2>4 DEF StatesTyped
  <1>3. QED  BY <1>1, <1>2

(* What a step leaves of the connections that are there.                   *)
Same(k) ==
    /\ connections'[k].run = connections[k].run
    /\ connections'[k].test = connections[k].test
    /\ connections'[k].driver = connections[k].driver
    /\ connections'[k].session = connections[k].session
    /\ connections'[k].inner = connections[k].inner
    /\ connections'[k].late = connections[k].late
    /\ connections'[k].clone = connections[k].clone
    /\ connections'[k].state = connections[k].state

LEMMA Closes ==
    ASSUME TypesInv, NEW ks, connections' = Closed(ks)
    PROVE  /\ connections' \in Seq(Conns(run, Len(connections), Len(states)))
           /\ Len(connections') = Len(connections)
           /\ \A k \in 1 .. Len(connections) :
                /\ Same(k)
                /\ connections[k].closed \/ k \in ks => connections'[k].closed
  <1>. DEFINE C == Conns(run, Len(connections), Len(states))
              new(k) == [connections[k] EXCEPT !.closed = @ \/ k \in ks
                         \/ \E j \in ks : connections[j].inner = k /\ ~connections[j].clone]
  <1>0. Len(connections) \in Nat /\ connections \in [1 .. Len(connections) -> C]
    BY LenProperties DEF TypesInv, ConnectionsTyped
  <1>1. connections' = [k \in 1 .. Len(connections) |-> new(k)]
    BY DEF Closed
  <1>2. ASSUME NEW k \in 1 .. Len(connections)
        PROVE  /\ new(k) \in C
               /\ connections[k].closed \/ k \in ks => connections'[k].closed
               /\ Same(k)
    <2>1. connections[k] \in C
      BY <1>0
    <2>2. connections'[k] = new(k)
      BY <1>1
    <2>3. Same(k)
      BY <2>1, <2>2 DEF Same, Conns
    <2>4. new(k) \in C /\ (connections[k].closed \/ k \in ks => new(k).closed)
      BY <2>1 DEF Conns
    <2>5. QED
      <3>. HIDE DEF new
      <3>1. QED  BY <2>2, <2>3, <2>4
  <1>3. connections' \in [1 .. Len(connections) -> C]
    <2>. HIDE DEF new, C
    <2>1. QED  BY <1>1, <1>2
  <1>4. connections' \in Seq(C) /\ Len(connections') = Len(connections)
    <2>. HIDE DEF C
    <2>1. QED  BY <1>3, <1>0
  <1>5. QED
    <2>. HIDE DEF new
    <2>1. QED  BY <1>2, <1>4

(* The connections that are there are kept, and others come behind them.   *)
Kept ==
    \A k \in 1 .. Len(connections) :
        Same(k) /\ (connections[k].closed => connections'[k].closed)

LEMMA Appends ==
    ASSUME TypesInv, Len(states') \in Nat, Len(states) <= Len(states'),
           NEW c \in Conns(run, Len(connections), Len(states')),
           connections' = Append(connections, c)
    PROVE  /\ connections' \in Seq(Conns(run, Len(connections'), Len(states')))
           /\ Len(connections') = Len(connections) + 1
           /\ \A k \in 1 .. Len(connections) : connections'[k] = connections[k]
           /\ connections'[Len(connections) + 1] = c
           /\ Kept
  <1>1. /\ Len(connections) \in Nat /\ run \in Nat /\ Len(states) \in Nat
        /\ connections \in Seq(Conns(run, Len(connections), Len(states)))
    BY LenProperties DEF TypesInv, ConnectionsTyped, StatesTyped, HooksTyped
  <1>2. /\ Conns(run, Len(connections), Len(states))
             \subseteq Conns(run, Len(connections) + 1, Len(states'))
        /\ c \in Conns(run, Len(connections) + 1, Len(states'))
    BY SMTT(30), <1>1, ConnsGrow
  <1>3. connections \in Seq(Conns(run, Len(connections) + 1, Len(states')))
    BY <1>1, <1>2, SeqMonotonic
  <1>4. /\ connections' \in Seq(Conns(run, Len(connections) + 1, Len(states')))
        /\ Len(connections') = Len(connections) + 1
        /\ \A k \in 1 .. Len(connections) : connections'[k] = connections[k]
        /\ connections'[Len(connections) + 1] = c
    BY <1>2, <1>3, AppendProperties
  <1>5. Kept
    BY <1>4 DEF Kept, Same
  <1>6. QED  BY <1>4, <1>5

LEMMA AppendsTwo ==
    ASSUME TypesInv, Len(states') \in Nat, Len(states) <= Len(states'),
           NEW c \in Conns(run, Len(connections), Len(states')),
           NEW d \in Conns(run, Len(connections) + 1, Len(states')),
           connections' = connections \o <<c, d>>
    PROVE  /\ connections' \in Seq(Conns(run, Len(connections'), Len(states')))
           /\ Len(connections') = Len(connections) + 2
           /\ \A k \in 1 .. Len(connections) : connections'[k] = connections[k]
           /\ connections'[Len(connections) + 1] = c
           /\ connections'[Len(connections) + 2] = d
           /\ Kept
  <1>. DEFINE C == Conns(run, Len(connections) + 2, Len(states'))
  <1>1. /\ Len(connections) \in Nat /\ run \in Nat /\ Len(states) \in Nat
        /\ connections \in Seq(Conns(run, Len(connections), Len(states)))
    BY LenProperties DEF TypesInv, ConnectionsTyped, StatesTyped, HooksTyped
  <1>2. Conns(run, Len(connections), Len(states)) \subseteq C /\ c \in C /\ d \in C
    <2>. DEFINE n == Len(connections)  m == Len(states)
    <2>0. /\ n \in Nat /\ n + 1 \in Nat /\ n + 2 \in Nat /\ run \in Nat
          /\ m \in Nat /\ m' \in Nat
          /\ run <= run /\ n <= n + 2 /\ n + 1 <= n + 2 /\ m <= m' /\ m' <= m'
      BY <1>1
    <2>1. Conns(run, n, m) \subseteq Conns(run, n + 2, m')
      BY ONLY SMTT(30), <2>0, ConnsGrow
    <2>2. Conns(run, n, m') \subseteq Conns(run, n + 2, m')
      BY ONLY SMTT(30), <2>0, ConnsGrow
    <2>3. Conns(run, n + 1, m') \subseteq Conns(run, n + 2, m')
      BY ONLY SMTT(30), <2>0, ConnsGrow
    <2>4. QED  BY <2>1, <2>2, <2>3
  <1>3. connections \in Seq(C)
    BY <1>1, <1>2, SeqMonotonic
  <1>4. /\ <<c, d>> \in Seq(C) /\ Len(<<c, d>>) = 2
        /\ <<c, d>>[1] = c /\ <<c, d>>[2] = d
    <2>. HIDE DEF C
    <2>1. QED  BY <1>2
  <1>5. /\ connections' \in Seq(C) /\ Len(connections') = Len(connections) + 2
        /\ \A i \in 1 .. Len(connections) + 2 :
             connections'[i] = IF i <= Len(connections) THEN connections[i]
                               ELSE <<c, d>>[i - Len(connections)]
    <2>. HIDE DEF C
    <2>1. QED  BY <1>3, <1>4, ConcatProperties
  <1>6. /\ \A k \in 1 .. Len(connections) : connections'[k] = connections[k]
        /\ connections'[Len(connections) + 1] = c
        /\ connections'[Len(connections) + 2] = d
    <2>1. /\ \A k \in 1 .. Len(connections) : k \in 1 .. Len(connections) + 2 /\ k <= Len(connections)
          /\ Len(connections) + 1 \in 1 .. Len(connections) + 2
          /\ Len(connections) + 2 \in 1 .. Len(connections) + 2
          /\ ~(Len(connections) + 1 <= Len(connections))
          /\ ~(Len(connections) + 2 <= Len(connections))
          /\ Len(connections) + 1 - Len(connections) = 1
          /\ Len(connections) + 2 - Len(connections) = 2
      BY <1>1
    <2>2. QED  BY <2>1, <1>4, <1>5
  <1>7. Kept
    BY <1>6 DEF Kept, Same
  <1>8. QED  BY <1>5, <1>6, <1>7

(* The two steps by which connect() opens connections, and adbc_clone().   *)
LEMMA Wraps ==
    ASSUME TypesInv, NEW th \in Threads, NEW d \in Patched, Wrap(th, d)
    PROVE  LET new == Connection(called[th], session_obj[th], item[th], d, 0)
           IN /\ ConnectionsTyped' /\ StatesTyped' /\ Kept
              /\ new \in Conns(run, 0, Len(states'))
              /\ Len(states') \in {Len(states), Len(states) + 1}
              /\ \A i \in 1 .. Len(states) : states'[i] = states[i]
              /\ Len(connections') = Len(connections) + 1
              /\ \A k \in 1 .. Len(connections) : connections'[k] = connections[k]
              /\ connections'[Len(connections) + 1] = new
  <1>. DEFINE new == Connection(called[th], session_obj[th], item[th], d, 0)
  <1>0. /\ called[th] \in 1 .. run /\ session_obj[th] \in Sessions /\ item[th] \in Tests
        /\ d \in Drivers /\ run \in Nat /\ Len(states) \in Nat /\ Len(connections) \in Nat
    BY LenProperties, PluginAssumption
       DEF Wrap, TypesInv, ThreadsTyped, HooksTyped, StatesTyped, ConnectionsTyped
  <1>1. TakeState(session_obj[th], item[th], d) /\ connections' = Append(connections, new)
        /\ run' = run
    BY DEF Wrap, pytest
  <1>2. /\ StatesTyped' /\ Len(states') \in {Len(states), Len(states) + 1}
        /\ \A i \in 1 .. Len(states) : states'[i] = states[i]
        /\ new \in Conns(run, 0, Len(states'))
    BY <1>0, <1>1, TakesState
  <1>3. new \in Conns(run, Len(connections), Len(states'))
    BY <1>0, <1>2, ConnsGrow
  <1>. HIDE DEF new
  <1>4. /\ connections' \in Seq(Conns(run, Len(connections'), Len(states')))
        /\ Len(connections') = Len(connections) + 1
        /\ \A k \in 1 .. Len(connections) : connections'[k] = connections[k]
        /\ connections'[Len(connections) + 1] = new
        /\ Kept
    BY <1>0, <1>1, <1>2, <1>3, Appends
  <1>5. QED  BY <1>1, <1>2, <1>4 DEF ConnectionsTyped, new

LEMMA AdbcConnects ==
    ASSUME TypesInv, NEW d \in Explicit, AdbcConnect(d)
    PROVE  LET only == Connection(run, "full", running, d, 0)
               outer == Connection(run, "full", running, d, Len(connections) + 1)
               n == Len(connections)
           IN /\ ConnectionsTyped' /\ StatesTyped' /\ Kept
              /\ Len(states') \in {Len(states), Len(states) + 1}
              /\ \A i \in 1 .. Len(states) : states'[i] = states[i]
              /\ \A k \in 1 .. Len(connections) : connections'[k] = connections[k]
              /\ connections'[n + 1] = only
              /\ \/ /\ Len(connections') = n + 1 /\ UNCHANGED open_connections
                 \/ /\ mode # "none" /\ d \in Patched
                    /\ Len(connections') = n + 2 /\ connections'[n + 2] = outer
                    /\ open_connections' =
                         [open_connections EXCEPT ![running] = @ \union {n + 1}]
  <1>. DEFINE n == Len(connections)
              only == Connection(run, "full", running, d, 0)
              outer == Connection(run, "full", running, d, n + 1)
  <1>0. /\ run \in 1 .. run /\ "full" \in Sessions /\ running \in Tests
        /\ d \in Drivers /\ run \in Nat /\ Len(states) \in Nat /\ n \in Nat
    BY LenProperties, PluginAssumption
       DEF AdbcConnect, TypesInv, HooksTyped, StatesTyped, ConnectionsTyped, Sessions
  <1>1. TakeState("full", running, d) /\ run' = run
    BY DEF AdbcConnect, pytest
  <1>2. /\ StatesTyped' /\ Len(states') \in {Len(states), Len(states) + 1}
        /\ \A i \in 1 .. Len(states) : states'[i] = states[i]
        /\ only \in Conns(run, 0, Len(states'))
        /\ outer \in Conns(run, n + 1, Len(states'))
    <2>1. 0 \in Nat /\ n + 1 \in Nat /\ run \in 1 .. run
      BY <1>0
    <2>2. /\ StatesTyped' /\ Len(states') \in {Len(states), Len(states) + 1}
          /\ \A i \in 1 .. Len(states) : states'[i] = states[i]
          /\ only \in Conns(run, 0, Len(states'))
      BY <1>0, <1>1, <2>1, TakesState
    <2>3. outer \in Conns(run, n + 1, Len(states'))
      <3>. HIDE DEF n
      <3>1. QED  BY <1>0, <1>1, <2>1, TakesState
    <2>4. QED  BY <2>2, <2>3
  <1>3. only \in Conns(run, n, Len(states'))
    BY <1>0, <1>2, ConnsGrow
  <1>. HIDE DEF only, outer
  <1>4. CASE mode # "none" /\ d \in Patched
    <2>1. /\ connections' = connections \o <<only, outer>>
          /\ open_connections' = [open_connections EXCEPT ![running] = @ \union {n + 1}]
      BY <1>4 DEF AdbcConnect, only, outer
    <2>2. /\ connections' \in Seq(Conns(run, Len(connections'), Len(states')))
          /\ Len(connections') = n + 2
          /\ \A k \in 1 .. n : connections'[k] = connections[k]
          /\ connections'[n + 1] = only /\ connections'[n + 2] = outer
          /\ Kept
      BY SMTT(30), <1>0, <1>2, <1>3, <2>1, AppendsTwo
    <2>3. QED  BY <1>1, <1>2, <1>4, <2>1, <2>2 DEF ConnectionsTyped, only, outer
  <1>5. CASE ~(mode # "none" /\ d \in Patched)
    <2>1. connections' = Append(connections, only) /\ UNCHANGED open_connections
      BY <1>5 DEF AdbcConnect, only
    <2>2. /\ connections' \in Seq(Conns(run, Len(connections'), Len(states')))
          /\ Len(connections') = n + 1
          /\ \A k \in 1 .. n : connections'[k] = connections[k]
          /\ connections'[n + 1] = only
          /\ Kept
      BY <1>0, <1>2, <1>3, <2>1, Appends
    <2>3. QED  BY <1>1, <1>2, <2>1, <2>2 DEF ConnectionsTyped, only
  <1>6. QED  BY <1>4, <1>5

LEMMA Clones ==
    ASSUME TypesInv, NEW k \in InHand, Clone(k)
    PROVE  LET new == connections'[Len(connections) + 1]
           IN /\ ConnectionsTyped' /\ StatesTyped' /\ Kept
              /\ Len(connections') = Len(connections) + 1
              /\ \A j \in 1 .. Len(connections) : connections'[j] = connections[j]
              /\ k \in 1 .. Len(connections) /\ connections[k].run = run
              /\ new.run = connections[k].run /\ new.test = connections[k].test
              /\ new.driver = connections[k].driver /\ new.session = connections[k].session
              /\ new.inner = connections[k].inner /\ new.late = connections[k].late
              /\ new.state = connections[k].state /\ new.clone
  <1>. DEFINE new == [connections[k] EXCEPT !.clone = TRUE]
  <1>0. /\ k \in 1 .. Len(connections) /\ connections[k].run = run
        /\ Len(states) \in Nat /\ run' = run
        /\ UNCHANGED <<cassette_states, states>>
        /\ connections' = Append(connections, new)
    BY LenProperties DEF InHand, InThisRun, Clone, TypesInv, StatesTyped, pytest
  <1>1. connections[k] \in Conns(run, Len(connections), Len(states))
    BY <1>0, ElementOfSeq DEF TypesInv, ConnectionsTyped
  <1>2. /\ new \in Conns(run, Len(connections), Len(states))
        /\ new.run = connections[k].run /\ new.test = connections[k].test
        /\ new.driver = connections[k].driver /\ new.session = connections[k].session
        /\ new.inner = connections[k].inner /\ new.late = connections[k].late
        /\ new.state = connections[k].state /\ new.clone
    BY <1>1 DEF Conns
  <1>. HIDE DEF new
  <1>3. /\ connections' \in Seq(Conns(run, Len(connections'), Len(states')))
        /\ Len(connections') = Len(connections) + 1
        /\ \A j \in 1 .. Len(connections) : connections'[j] = connections[j]
        /\ connections'[Len(connections) + 1] = new
        /\ Kept
    BY <1>0, <1>2, Appends
  <1>4. QED  BY <1>0, <1>2, <1>3 DEF ConnectionsTyped, TypesInv, StatesTyped

(* Every other step leaves the sequences as they are, or the connections.  *)
Opens ==
    \/ \E th \in Threads, d \in Patched : Wrap(th, d)
    \/ \E d \in Explicit : AdbcConnect(d)
    \/ \E k \in InHand : Clone(k)

Shuts ==
    \/ \E k \in InHand : CloseInTest(k)
    \/ TeardownFixtures
    \/ \E k \in closing, raises \in BOOLEAN : CloseConnection(k, raises)

LEMMA QueryTypes ==
    ASSUME TypesInv, NEW k \in InHand, Query(k)
    PROVE  /\ states' \in Seq(States) /\ Len(states') = Len(states)
           /\ UNCHANGED <<mode, pytest, globals, cassette_states, connections, locals>>
           /\ k \in 1 .. Len(connections)
           /\ connections[k].state \in 1 .. Len(states)
           /\ connections[k].test \in Tests /\ connections[k].driver \in Drivers
           /\ connections[k].session \in Sessions
           /\ CassettePath(connections[k].test, connections[k].driver) \in Cassettes
  <1>. DEFINE id   == connections[k].state
              path == CassettePath(connections[k].test, connections[k].driver)
              st   == Initialised(states[id], cassettes[path])
  <1>1. k \in 1 .. Len(connections)
    BY DEF InHand, InThisRun
  <1>2. connections[k] \in Conns(run, Len(connections), Len(states))
    BY <1>1, ElementOfSeq DEF TypesInv, ConnectionsTyped
  <1>3. /\ id \in 1 .. Len(states) /\ connections[k].test \in Tests
        /\ connections[k].driver \in Drivers /\ connections[k].session \in Sessions
    BY <1>2 DEF Conns
  <1>4. path \in Cassettes
    BY <1>3 DEF Cassettes, CassettePath
  <1>5. states[id] \in States /\ states \in Seq(States)
    BY <1>3, ElementOfSeq DEF TypesInv, StatesTyped
  <1>6. Len(cassettes[path]) \in Nat
    <2>1. cassettes[path] \in Seq(Recs(run))
      BY <1>4 DEF TypesInv, CassettesTyped
    <2>2. QED  BY <2>1, LenProperties
  <1>7. st \in States
    <2>1. states[id].wiped \in BOOLEAN /\ states[id].loaded \in BOOLEAN
          /\ states[id].once_replay \in {"undecided", "replay", "record"}
          /\ states[id].queued \in Nat
      BY <1>5 DEF States
    <2>2. Decision(states[id], cassettes[path]) \in {"undecided", "replay", "record"}
      BY <2>1 DEF Decision
    <2>3. (IF Loads(states[id], cassettes[path]) THEN Len(cassettes[path])
           ELSE states[id].queued) \in Nat
      BY <2>1, <1>6
    <2>4. (states[id].wiped \/ mode = "all") \in BOOLEAN
          /\ (states[id].loaded \/ Loads(states[id], cassettes[path])) \in BOOLEAN
      OBVIOUS
    <2>5. QED  BY <2>2, <2>3, <2>4, Zenon DEF Initialised, States
  <1>8. PICK after \in States : states' = [states EXCEPT ![id] = after]
    <2>. HIDE DEF st, id, path
    <2>1. CASE states' = [states EXCEPT ![id] = st]
      BY <2>1, <1>7
    <2>2. CASE Available(st) /\ states' = [states EXCEPT ![id] = [st EXCEPT !.queued = @ - 1]]
      <3>1. [st EXCEPT !.queued = @ - 1] \in States
        BY <2>2, <1>7 DEF States, Available
      <3>2. QED  BY <3>1, <2>2
    <2>3. QED  BY Zenon, <2>1, <2>2 DEF Query, st, id, path
  <1>9. states' \in Seq(States) /\ Len(states') = Len(states)
    BY <1>3, <1>5, <1>8, ExceptSeq
  <1>10. QED  BY Zenon, <1>1, <1>3, <1>4, <1>9 DEF Query

LEMMA SequencesStep ==
    ASSUME TypesInv, [Next]_vars
    PROVE  /\ ConnectionsTyped' /\ StatesTyped' /\ Kept
           /\ Len(connections) \in Nat /\ Len(connections') \in Nat
           /\ Len(connections) <= Len(connections')
           /\ Len(states) \in Nat /\ Len(states') \in Nat /\ Len(states) <= Len(states')
           /\ run \in Nat /\ run' \in Nat /\ run <= run'
  <1>. DEFINE Goal == ConnectionsTyped' /\ StatesTyped' /\ Kept
                      /\ Len(connections) <= Len(connections')
                      /\ Len(states) <= Len(states') /\ run' \in Nat /\ run <= run'
  <1>0. /\ Len(connections) \in Nat /\ Len(states) \in Nat /\ run \in Nat
        /\ connections \in Seq(Conns(run, Len(connections), Len(states)))
        /\ StatesTyped
    BY LenProperties DEF TypesInv, ConnectionsTyped, StatesTyped, HooksTyped
  <1>a. ASSUME UNCHANGED connections, run' = run, StatesTyped',
               Len(states') \in Nat, Len(states) <= Len(states')
        PROVE  Goal
    <2>1. Conns(run, Len(connections), Len(states))
            \subseteq Conns(run, Len(connections), Len(states'))
      BY SMTT(30), <1>0, <1>a, ConnsGrow
    <2>2. ConnectionsTyped'
      BY <2>1, <1>0, <1>a, SeqMonotonic DEF ConnectionsTyped
    <2>3. QED  BY <2>2, <1>a, <1>0 DEF Kept, Same
  <1>b. ASSUME UNCHANGED <<connections, states, cassette_states>>, run' = run
        PROVE  Goal
    BY <1>b, <1>a, <1>0 DEF StatesTyped
  <1>1. CASE UNCHANGED vars
    BY <1>1, <1>b DEF vars, pytest
  <1>2. ASSUME NEW t \in Tests, StartTest(t)
        PROVE  Goal
    <2>1. run' = run + 1 /\ UNCHANGED <<connections, states, cassette_states>>
      BY <1>2 DEF StartTest
    <2>2. Conns(run, Len(connections), Len(states))
            \subseteq Conns(run + 1, Len(connections), Len(states))
      BY SMTT(30), <1>0, ConnsGrow
    <2>3. ConnectionsTyped' /\ StatesTyped'
      BY <2>1, <2>2, <1>0, SeqMonotonic DEF ConnectionsTyped, StatesTyped
    <2>4. QED  BY <2>1, <2>3, <1>0 DEF Kept, Same
  <1>3. CASE RequestFixture \/ ClearItem \/ PopConnections
    BY <1>3, <1>b DEF RequestFixture, ClearItem, PopConnections, pytest
  <1>4. ASSUME NEW th \in Threads, CallConnect(th) \/ ReadSession(th) \/ Register(th)
        PROVE  Goal
    BY <1>4, <1>b DEF CallConnect, ReadSession, Register, pytest
  <1>5. ASSUME NEW th \in Threads, NEW d \in Patched, Wrap(th, d)
        PROVE  Goal
    <2>1. run' = run
      BY <1>5 DEF Wrap, pytest
    <2>2. QED  BY <1>5, <1>0, <2>1, Wraps
  <1>6. ASSUME NEW th \in Threads, NEW d \in Patched, ConnectFails(th, d)
        PROVE  Goal
    <2>1. /\ called[th] \in 1 .. run /\ session_obj[th] \in Sessions /\ item[th] \in Tests
          /\ d \in Drivers
      BY <1>6, <1>0, PluginAssumption DEF ConnectFails, TypesInv, ThreadsTyped
    <2>2. /\ TakeState(session_obj[th], item[th], d) /\ run' = run /\ UNCHANGED connections
      BY <1>6 DEF ConnectFails, pytest
    <2>3. StatesTyped' /\ Len(states') \in {Len(states), Len(states) + 1}
      BY <2>1, <2>2, TakesState
    <2>4. QED  BY <2>2, <2>3, <1>0, <1>a
  <1>7. ASSUME NEW d \in Explicit, AdbcConnect(d)
        PROVE  Goal
    <2>1. run' = run
      BY <1>7 DEF AdbcConnect, pytest
    <2>2. QED  BY <1>7, <1>0, <2>1, AdbcConnects
  <1>8. ASSUME NEW k \in InHand, Query(k)
        PROVE  Goal
    <2>1. /\ states' \in Seq(States) /\ Len(states') = Len(states)
          /\ UNCHANGED <<cassette_states, connections>> /\ run' = run
      BY <1>8, QueryTypes DEF pytest
    <2>2. StatesTyped'
      BY <2>1, <1>0 DEF StatesTyped
    <2>3. QED  BY <2>1, <2>2, <1>0, <1>a
  <1>9. ASSUME NEW k \in InHand, Clone(k)
        PROVE  Goal
    <2>1. run' = run /\ UNCHANGED states
      BY <1>9 DEF Clone, pytest
    <2>2. QED  BY <1>9, <1>0, <2>1, Clones
  <1>10. CASE Shuts
    <2>1. PICK ks : connections' = Closed(ks)
      BY <1>10 DEF Shuts, CloseInTest, TeardownFixtures, CloseConnection
    <2>2. run' = run /\ UNCHANGED <<cassette_states, states>>
      BY <1>10 DEF Shuts, CloseInTest, TeardownFixtures, CloseConnection, pytest
    <2>3. /\ connections' \in Seq(Conns(run, Len(connections), Len(states)))
          /\ Len(connections') = Len(connections)
          /\ \A k \in 1 .. Len(connections) :
               Same(k) /\ (connections[k].closed \/ k \in ks => connections'[k].closed)
      BY <2>1, Closes
    <2>4. Kept
      BY <2>3 DEF Kept
    <2>5. QED  BY <2>2, <2>3, <2>4, <1>0 DEF ConnectionsTyped, StatesTyped
  <1>11. CASE ReleaseTest
    <2>1. /\ UNCHANGED <<connections, states>> /\ run' = run
          /\ cassette_states' =
               [cassette_states EXCEPT ![session_state] = KeysAfterRelease(running)]
      BY <1>11 DEF ReleaseTest
    <2>2. KeysAfterRelease(running) \subseteq cassette_states[session_state]
      BY DEF KeysAfterRelease
    <2>3. StatesTyped'
      BY <2>1, <2>2, <1>0 DEF StatesTyped, TypesInv, HooksTyped
    <2>4. QED  BY <2>1, <2>3, <1>0, <1>a
  <1>12. Goal
    BY <1>1, <1>2, <1>3, <1>4, <1>5, <1>6, <1>7, <1>8, <1>9, <1>10, <1>11
       DEF Next, Finished, Shuts
  <1>13. Len(connections') \in Nat /\ Len(states') \in Nat
    BY <1>12, LenProperties DEF ConnectionsTyped, StatesTyped
  <1>14. QED  BY <1>0, <1>12, <1>13

LEMMA HooksStep ==
    ASSUME TypesInv, [Next]_vars
    PROVE  HooksTyped'
  <1>. USE DEF HooksTyped, TypesInv, OpenTyped
  <1>1. CASE UNCHANGED vars
    BY <1>1 DEF vars, pytest, globals
  <1>2. ASSUME NEW t \in Tests, StartTest(t)
        PROVE  HooksTyped'
    BY <1>2, PluginAssumption DEF StartTest
  <1>3. CASE RequestFixture
    BY <1>3 DEF RequestFixture, pytest, Sessions
  <1>4. ASSUME NEW th \in Threads,
               \/ CallConnect(th) \/ ReadSession(th) \/ Register(th)
               \/ \E d \in Patched : Wrap(th, d) \/ ConnectFails(th, d)
        PROVE  HooksTyped'
    BY <1>4 DEF CallConnect, ReadSession, Register, Wrap, ConnectFails, pytest, globals
  <1>5. ASSUME NEW d \in Explicit, AdbcConnect(d)
        PROVE  HooksTyped'
    BY <1>5 DEF AdbcConnect, pytest
  <1>6. ASSUME NEW k \in InHand, Query(k) \/ Clone(k) \/ CloseInTest(k)
        PROVE  HooksTyped'
    BY Zenon, <1>6 DEF Query, Clone, CloseInTest, pytest, globals
  <1>7. CASE TeardownFixtures
    BY <1>7 DEF TeardownFixtures, globals
  <1>8. CASE ClearItem
    BY <1>8 DEF ClearItem
  <1>9. CASE PopConnections
    BY <1>9 DEF PopConnections
  <1>10. ASSUME NEW k \in closing, NEW raises \in BOOLEAN, CloseConnection(k, raises)
         PROVE  HooksTyped'
    BY <1>10 DEF CloseConnection, EndsHook, globals
  <1>11. CASE ReleaseTest
    BY <1>11 DEF ReleaseTest, globals
  <1>12. QED
    BY <1>1, <1>2, <1>3, <1>4, <1>5, <1>6, <1>7, <1>8, <1>9, <1>10, <1>11
       DEF Next, Finished

LEMMA OpenStep ==
    ASSUME TypesInv, [Next]_vars
    PROVE  OpenTyped'
  <1>0. 1 .. Len(connections) \subseteq 1 .. Len(connections')
    BY SequencesStep
  <1>. USE DEF OpenTyped
  <1>a. OpenTyped
    BY DEF TypesInv
  <1>b. ASSUME UNCHANGED <<closing, phase, open_connections>>
        PROVE  OpenTyped'
    BY <1>b, <1>a, <1>0
  <1>1. CASE UNCHANGED vars
    BY <1>1, <1>b DEF vars, pytest, globals
  <1>2. ASSUME NEW t \in Tests, StartTest(t)
        PROVE  OpenTyped'
    BY <1>2, <1>0, <1>a DEF StartTest
  <1>3. CASE RequestFixture
    BY <1>3, <1>b DEF RequestFixture, pytest
  <1>4. ASSUME NEW th \in Threads,
               \/ CallConnect(th) \/ ReadSession(th)
               \/ \E d \in Patched : Wrap(th, d) \/ ConnectFails(th, d)
        PROVE  OpenTyped'
    BY <1>4, <1>b DEF CallConnect, ReadSession, Wrap, ConnectFails, pytest, globals
  <1>5. ASSUME NEW th \in Threads, Register(th)
        PROVE  OpenTyped'
    <2>1. conn[th] \in 1 .. Len(connections) /\ item[th] \in Tests
      BY <1>5 DEF Register, TypesInv, ThreadsTyped
    <2>2. QED  BY <1>5, <2>1, <1>0, <1>a DEF Register, pytest
  <1>6. ASSUME NEW d \in Explicit, AdbcConnect(d)
        PROVE  OpenTyped'
    <2>1. \/ UNCHANGED open_connections
          \/ /\ Len(connections') = Len(connections) + 2
             /\ open_connections' = [open_connections EXCEPT ![running] =
                                       @ \union {Len(connections) + 1}]
      BY <1>6, AdbcConnects
    <2>2. UNCHANGED <<closing, phase>>
      BY <1>6 DEF AdbcConnect, pytest
    <2>3. Len(connections) + 1 \in 1 .. (Len(connections) + 2)
      BY SequencesStep
    <2>4. QED  BY <2>1, <2>2, <2>3, <1>0, <1>a
  <1>7. ASSUME NEW k \in InHand, Query(k) \/ Clone(k) \/ CloseInTest(k)
        PROVE  OpenTyped'
    BY Zenon, <1>7, <1>b DEF Query, Clone, CloseInTest, pytest, globals
  <1>8. CASE TeardownFixtures
    BY <1>8, <1>0, <1>a DEF TeardownFixtures, globals
  <1>9. CASE ClearItem
    BY <1>9, <1>0, <1>a DEF ClearItem
  <1>10. CASE PopConnections
    <2>1. running \in Tests
      BY <1>10 DEF PopConnections, TypesInv, HooksTyped
    <2>2. QED  BY <1>10, <2>1, <1>0, <1>a DEF PopConnections
  <1>11. ASSUME NEW k \in closing, NEW raises \in BOOLEAN, CloseConnection(k, raises)
         PROVE  OpenTyped'
    BY <1>11, <1>0, <1>a DEF CloseConnection, EndsHook, globals
  <1>12. CASE ReleaseTest
    BY <1>12, <1>0, <1>a DEF ReleaseTest, globals
  <1>13. QED
    BY <1>1, <1>2, <1>3, <1>4, <1>5, <1>6, <1>7, <1>8, <1>9, <1>10, <1>11, <1>12
       DEF Next, Finished

LEMMA LeaveTypes ==
    ASSUME TypesInv, NEW th \in Threads, Leave(th), run' = run,
           Len(connections) <= Len(connections'),
           Len(connections) \in Nat, Len(connections') \in Nat
    PROVE  ThreadsTyped'
  BY DEF Leave, TypesInv, ThreadsTyped, HooksTyped

LEMMA ThreadsStep ==
    ASSUME TypesInv, [Next]_vars
    PROVE  ThreadsTyped'
  <1>0. /\ Len(connections) <= Len(connections') /\ run <= run'
        /\ Len(connections) \in Nat /\ Len(connections') \in Nat
        /\ run \in Nat /\ run' \in Nat
    BY SequencesStep
  <1>. USE DEF ThreadsTyped
  <1>a. ThreadsTyped
    BY DEF TypesInv
  <1>b. ASSUME UNCHANGED locals
        PROVE  ThreadsTyped'
    <2>1. 0 .. run \subseteq 0 .. run' /\ 0 .. Len(connections) \subseteq 0 .. Len(connections')
      BY <1>0
    <2>2. UNCHANGED <<pc, item, called, session_obj, conn>>
      BY <1>b DEF locals
    <2>3. QED  BY <2>1, <2>2, <1>a
  <1>1. CASE UNCHANGED vars
    BY <1>1, <1>b DEF vars
  <1>2. ASSUME NEW th \in Threads, CallConnect(th)
        PROVE  ThreadsTyped'
    BY <1>2, <1>a, <1>0 DEF CallConnect, TypesInv, HooksTyped, pytest
  <1>3. ASSUME NEW th \in Threads, ReadSession(th)
        PROVE  ThreadsTyped'
    BY <1>3, <1>a, <1>0 DEF ReadSession, TypesInv, HooksTyped, pytest
  <1>4. ASSUME NEW th \in Threads, NEW d \in Patched, Wrap(th, d)
        PROVE  ThreadsTyped'
    <2>1. Len(connections') = Len(connections) + 1
      BY <1>4, Wraps
    <2>2. QED  BY SMTT(30), <1>4, <2>1, <1>a, <1>0 DEF Wrap, pytest
  <1>5. ASSUME NEW th \in Threads, Register(th) \/ \E d \in Patched : ConnectFails(th, d)
        PROVE  ThreadsTyped'
    BY <1>5, <1>0, LeaveTypes DEF Register, ConnectFails, pytest
  <1>6. CASE \/ RequestFixture \/ TeardownFixtures \/ ClearItem \/ PopConnections
             \/ ReleaseTest \/ \E t \in Tests : StartTest(t)
             \/ \E d \in Explicit : AdbcConnect(d)
             \/ \E k \in InHand : Query(k) \/ Clone(k) \/ CloseInTest(k)
             \/ \E k \in closing, raises \in BOOLEAN : CloseConnection(k, raises)
    BY Zenon, <1>6, <1>b DEF RequestFixture, TeardownFixtures, ClearItem, PopConnections,
       ReleaseTest, StartTest, AdbcConnect, Query, Clone, CloseInTest, CloseConnection
  <1>7. QED
    BY <1>1, <1>2, <1>3, <1>4, <1>5, <1>6 DEF Next, Finished

(* The recordings that a query leaves and those that it adds.              *)
LEMMA Recordings ==
    ASSUME TypesInv, NEW k \in InHand, Query(k)
    PROVE  LET path == CassettePath(connections[k].test, connections[k].driver)
               kept == Remaining(states[connections[k].state], cassettes[path])
               new  == [run |-> run, session |-> connections[k].session]
           IN /\ queries' = queries + 1 /\ queries < MaxQueries
              /\ kept \in Seq(Recs(run))
              /\ new \in Recs(run)
              /\ \/ UNCHANGED <<cassettes, recorded>>
                 \/ /\ cassettes' = [cassettes EXCEPT ![path] =
                                       kept \o [n \in 1 .. Layers(k) |-> new]]
                    /\ recorded' = [recorded EXCEPT ![path] = @ + 1]
  <1>. DEFINE path == CassettePath(connections[k].test, connections[k].driver)
              kept == Remaining(states[connections[k].state], cassettes[path])
              new  == [run |-> run, session |-> connections[k].session]
  <1>1. path \in Cassettes /\ connections[k].session \in Sessions
    BY QueryTypes
  <1>2. /\ cassettes[path] \in Seq(Recs(run))
        /\ <<>> \in Seq(Recs(run))
    BY <1>1, EmptySeq DEF TypesInv, CassettesTyped
  <1>3. kept \in Seq(Recs(run))
    BY <1>2 DEF Remaining
  <1>4. new \in Recs(run)
    BY <1>1 DEF TypesInv, HooksTyped, Recs
  <1>5. QED  BY Zenon, <1>3, <1>4 DEF Query

LEMMA CassettesStep ==
    ASSUME TypesInv, [Next]_vars
    PROVE  CassettesTyped'
  <1>0. run \in Nat /\ run' \in Nat /\ run <= run' /\ CassettesTyped
    BY SequencesStep DEF TypesInv
  <1>a. ASSUME UNCHANGED <<cassettes, queries, recorded>>
        PROVE  CassettesTyped'
    <2>1. Recs(run) \subseteq Recs(run')
      BY <1>0 DEF Recs
    <2>2. \A p \in Cassettes : cassettes[p] \in Seq(Recs(run'))
      BY <2>1, <1>0, SeqMonotonic DEF CassettesTyped
    <2>3. QED  BY <2>2, <1>a, <1>0 DEF CassettesTyped, Cassettes
  <1>1. CASE UNCHANGED vars
    BY <1>1, <1>a DEF vars, history
  <1>2. ASSUME NEW t \in Tests, StartTest(t)
        PROVE  CassettesTyped'
    <2>1. run' = run + 1 /\ UNCHANGED cassettes /\ queries' = 0
          /\ recorded' = [p \in Cassettes |-> 0]
      BY <1>2 DEF StartTest
    <2>2. Recs(run) \subseteq Recs(run')
      BY <1>0 DEF Recs
    <2>3. \A p \in Cassettes : cassettes[p] \in Seq(Recs(run'))
      BY <2>2, <1>0, SeqMonotonic DEF CassettesTyped
    <2>4. QED  BY <2>1, <2>3, <1>0, PluginAssumption DEF CassettesTyped, Cassettes
  <1>3. ASSUME NEW k \in InHand, Query(k)
        PROVE  CassettesTyped'
    <2>. DEFINE path == CassettePath(connections[k].test, connections[k].driver)
                kept == Remaining(states[connections[k].state], cassettes[path])
                new  == [run |-> run, session |-> connections[k].session]
    <2>1. /\ queries' = queries + 1 /\ queries < MaxQueries /\ queries \in Nat
          /\ path \in Cassettes /\ run' = run
      <3>1. queries' = queries + 1 /\ queries < MaxQueries
        BY <1>3, Recordings
      <3>2. path \in Cassettes /\ run' = run
        BY <1>3, QueryTypes DEF pytest
      <3>3. QED  BY <3>1, <3>2, <1>0, PluginAssumption DEF CassettesTyped
    <2>2. CASE UNCHANGED <<cassettes, recorded>>
      BY <2>1, <2>2, <1>0, PluginAssumption DEF CassettesTyped, Cassettes
    <2>3. CASE /\ cassettes' = [cassettes EXCEPT ![path] =
                                  kept \o [n \in 1 .. Layers(k) |-> new]]
               /\ recorded' = [recorded EXCEPT ![path] = @ + 1]
      <3>1. [n \in 1 .. Layers(k) |-> new] \in Seq(Recs(run))
        <4>1. new \in Recs(run)
          BY <1>3, Recordings
        <4>2. Layers(k) \in Nat
          BY DEF Layers
        <4>. HIDE DEF new
        <4>3. QED  BY <4>1, <4>2
      <3>2. kept \o [n \in 1 .. Layers(k) |-> new] \in Seq(Recs(run))
        <4>1. kept \in Seq(Recs(run))
          BY <1>3, Recordings
        <4>. HIDE DEF new, kept
        <4>2. QED  BY <4>1, <3>1, ConcatProperties
      <3>3. \A p \in Cassettes : cassettes'[p] \in Seq(Recs(run))
        <4>. HIDE DEF new, kept
        <4>1. QED  BY <2>3, <3>2, <1>0 DEF CassettesTyped
      <3>4. DOMAIN cassettes' = Cassettes /\ recorded' \in [Cassettes -> Nat]
            /\ \A p \in Cassettes : recorded'[p] <= queries + 1
        <4>. HIDE DEF new, kept, path
        <4>1. QED  BY <2>1, <2>3, <1>0 DEF CassettesTyped
      <3>5. QED  BY <2>1, <3>3, <3>4, PluginAssumption DEF CassettesTyped, Cassettes
    <2>4. QED
      <3>. HIDE DEF new, kept, path
      <3>1. QED  BY <1>3, <2>2, <2>3, Recordings DEF new, kept, path
  <1>4. CASE \/ RequestFixture \/ TeardownFixtures \/ ClearItem \/ PopConnections
             \/ ReleaseTest \/ \E d \in Explicit : AdbcConnect(d)
             \/ \E th \in Threads : CallConnect(th) \/ ReadSession(th) \/ Register(th)
             \/ \E th \in Threads, d \in Patched : Wrap(th, d) \/ ConnectFails(th, d)
             \/ \E k \in InHand : Clone(k) \/ CloseInTest(k)
             \/ \E k \in closing, raises \in BOOLEAN : CloseConnection(k, raises)
    BY <1>4, <1>a DEF RequestFixture, TeardownFixtures, ClearItem, PopConnections,
       ReleaseTest, AdbcConnect, CallConnect, ReadSession, Register, Wrap, ConnectFails,
       Clone, CloseInTest, CloseConnection, history
  <1>5. QED
    BY <1>1, <1>2, <1>3, <1>4 DEF Next, Finished

LEMMA TypesInit == Init => TypesInv
  <1>. SUFFICES ASSUME Init PROVE TypesInv
    OBVIOUS
  <1>1. connections \in Seq(Conns(run, 0, 0)) /\ states \in Seq(States)
        /\ Len(connections) = 0 /\ Len(states) = 0
    BY EmptySeq DEF Init
  <1>2. ConnectionsTyped /\ StatesTyped
    BY <1>1 DEF ConnectionsTyped, StatesTyped, Init
  <1>3. CassettesTyped
    <2>1. Earlier \in Recs(0)
      BY DEF Earlier, Sessions, Recs
    <2>2. <<>> \in Seq(Recs(0))
          /\ <<Earlier>> \in Seq(Recs(0))
      <3>. HIDE DEF Earlier
      <3>1. QED  BY <2>1, EmptySeq
    <2>3. PICK held \in {<<>>, <<Earlier>>} : cassettes = [p \in Cassettes |-> held]
      BY DEF Init
    <2>4. \A p \in Cassettes : cassettes[p] \in Seq(Recs(0))
      BY <2>2, <2>3
    <2>5. QED  BY <2>3, <2>4, PluginAssumption DEF Init, CassettesTyped
  <1>4. HooksTyped
    BY PluginAssumption DEF Init, HooksTyped, Sessions
  <1>5. OpenTyped /\ ThreadsTyped
    BY <1>1 DEF Init, OpenTyped, ThreadsTyped
  <1>6. QED  BY <1>2, <1>3, <1>4, <1>5 DEF TypesInv

LEMMA TypesStep == TypesInv /\ [Next]_vars => TypesInv'
  BY SequencesStep, HooksStep, OpenStep, ThreadsStep, CassettesStep DEF TypesInv

LEMMA TypesImply == TypesInv => TypeOK
  <1>. SUFFICES ASSUME TypesInv PROVE TypeOK
    OBVIOUS
  <1>1. recorded \in [Cassettes -> 0 .. MaxQueries]
    BY PluginAssumption DEF TypesInv, CassettesTyped
  <1>2. /\ DOMAIN cassettes = Cassettes
        /\ \A p \in Cassettes : cassettes[p] \in Seq([run : 0 .. run, session : Sessions])
        /\ queries \in 0 .. MaxQueries
    BY DEF TypesInv, CassettesTyped, Recs
  <1>3. /\ mode \in Modes
        /\ run \in 0 .. MaxRuns /\ running \in Tests \union {NoTest}
        /\ phase \in {"between", "running", "finalised", "cleared", "closing"}
        /\ current_item \in {NoTest, running} /\ session_state \in Sessions
    BY DEF TypesInv, HooksTyped
  <1>4. /\ connections \in Seq([run : 1 .. run, test : Tests, driver : Drivers,
                            session : Sessions, inner : 0 .. Len(connections),
                            late : BOOLEAN, clone : BOOLEAN,
                            state : 1 .. Len(states), closed : BOOLEAN])
        /\ states \in Seq(States)
        /\ cassette_states \in [Sessions -> SUBSET [test : Tests, driver : Drivers,
                                                    state : 1 .. Len(states)]]
    BY DEF TypesInv, ConnectionsTyped, StatesTyped, Conns, Keys
  <1>5. /\ closing \subseteq 1 .. Len(connections)
        /\ open_connections \in [Tests -> SUBSET (1 .. Len(connections))]
    BY DEF TypesInv, OpenTyped
  <1>6. /\ pc \in [Threads -> {"idle", "item", "session", "wrapped"}]
        /\ item \in [Threads -> Tests \union {NoTest}]
        /\ called \in [Threads -> 0 .. run]
        /\ session_obj \in [Threads -> Sessions \union {NoSession}]
        /\ conn \in [Threads -> 0 .. Len(connections)]
    BY DEF TypesInv, ThreadsTyped
  <1>7. QED  BY <1>1, <1>2, <1>3, <1>4, <1>5, <1>6 DEF TypeOK

(* Every variable keeps its type, for any number of tests, threads and     *)
(* runs; in particular a thread has a session before it opens a connection *)
(* and a connection before it registers one (plugin.py:303-347).           *)
THEOREM SessionTypes == Spec => []TypeOK
  <1>1. Spec => []TypesInv
    BY TypesInit, TypesStep, PTL DEF Spec
  <1>2. QED  BY <1>1, TypesImply, PTL
-----------------------------------------------------------------------------
(* Who will close a connection, or has.                                    *)
Accounted(k) ==
    \/ connections[k].closed \/ connections[k].clone
    \/ \E t \in Tests : k \in open_connections[t]
    \/ \E th \in Threads : conn[th] = k
    \/ k \in closing

(* ... or the finalizer of adbc_connect, which has opened it for the test  *)
(* that runs, and not for another connection to use.                       *)
HeldByFixture(k) ==
    /\ phase = "running" /\ connections[k].run = run
    /\ \A j \in 1 .. Len(connections) : connections[j].inner # k

ClosedInv == \A k \in 1 .. Len(connections) : Accounted(k) \/ HeldByFixture(k)

LEMMA InnerOfConnection ==
    ASSUME TypesInv, NEW k \in 1 .. Len(connections)
    PROVE  connections[k].inner \in 0 .. Len(connections)
  <1>1. connections[k] \in Conns(run, Len(connections), Len(states))
    BY ElementOfSeq DEF TypesInv, ConnectionsTyped
  <1>2. QED  BY <1>1 DEF Conns

LEMMA ClosedStep ==
    ASSUME TypesInv, ClosedInv, [Next]_vars
    PROVE  ClosedInv'
  <1>0. /\ Kept /\ Len(connections) \in Nat /\ Len(connections') \in Nat
        /\ Len(connections) <= Len(connections')
    BY SequencesStep
  <1>k. \A k \in 1 .. Len(connections) :
          /\ k \in 1 .. Len(connections')
          /\ connections'[k].run = connections[k].run
          /\ connections'[k].inner = connections[k].inner
          /\ connections'[k].clone = connections[k].clone
          /\ connections[k].closed => connections'[k].closed
    BY <1>0 DEF Kept, Same
  (* Nothing is opened and nothing forgotten. *)
  <1>a. ASSUME Len(connections') = Len(connections),
               NEW more, \A k \in more : k \in 1 .. Len(connections) => connections'[k].closed,
               \A t \in Tests : open_connections[t] \subseteq
                  open_connections'[t] \union closing',
               closing \subseteq closing' \union more,
               \A th \in Threads : \/ conn'[th] = conn[th] \/ conn[th] = 0
                                   \/ \E t \in Tests : conn[th] \in open_connections'[t],
               \/ phase' = "running" /\ phase = "running" /\ run' = run
               \/ phase # "running"
        PROVE  ClosedInv'
    <2>. SUFFICES ASSUME NEW k \in 1 .. Len(connections)
                  PROVE  Accounted(k)' \/ HeldByFixture(k)'
      BY <1>a DEF ClosedInv
    <2>1. CASE Accounted(k)
      BY <2>1, <1>a, <1>k DEF Accounted
    <2>2. CASE HeldByFixture(k)
      BY <2>2, <1>a, <1>k DEF HeldByFixture
    <2>3. QED  BY <2>1, <2>2 DEF ClosedInv
  <1>b. ASSUME UNCHANGED <<connections, open_connections, closing, conn, phase, run>>
        PROVE  ClosedInv'
    BY <1>b DEF ClosedInv, Accounted, HeldByFixture
  (* Connections are opened while their test runs. *)
  <1>c. ASSUME NEW fresh \in 1 .. Len(connections'),
               \A k \in 1 .. Len(connections) : connections'[k] = connections[k],
               \A k \in 1 .. Len(connections') :
                 \/ k \in 1 .. Len(connections)
                 \/ connections'[k].inner \in {0, fresh}
                 \/ \E j \in 1 .. Len(connections) : connections'[k].inner = connections[j].inner,
               fresh > Len(connections),
               \A k \in 1 .. Len(connections') :
                 k \in 1 .. Len(connections) \/ Accounted(k)' \/ HeldByFixture(k)',
               UNCHANGED <<closing, phase, run>>,
               \A t \in Tests : open_connections[t] \subseteq open_connections'[t],
               \A th \in Threads : conn'[th] = conn[th] \/ conn[th] = 0
        PROVE  ClosedInv'
    <2>. SUFFICES ASSUME NEW k \in 1 .. Len(connections)
                  PROVE  Accounted(k)' \/ HeldByFixture(k)'
      BY <1>c DEF ClosedInv
    <2>1. CASE Accounted(k)
      BY <2>1, <1>c, <1>k, <1>0 DEF Accounted
    <2>2. CASE HeldByFixture(k)
      <3>1. \A j \in 1 .. Len(connections') : connections'[j].inner # k
        BY <2>2, <1>c, <1>k, <1>0 DEF HeldByFixture
      <3>2. QED  BY <2>2, <3>1, <1>c, <1>k DEF HeldByFixture
    <2>3. QED  BY <2>1, <2>2 DEF ClosedInv
  <1>1. CASE UNCHANGED vars
    BY <1>1, <1>b DEF vars, pytest, globals, locals
  <1>2. ASSUME NEW t \in Tests, StartTest(t)
        PROVE  ClosedInv'
    <2>1. /\ UNCHANGED <<connections, open_connections, closing, conn>>
          /\ phase # "running"
      BY <1>2 DEF StartTest, locals
    <2>2. QED  BY <2>1 DEF ClosedInv, Accounted, HeldByFixture
  <1>3. CASE RequestFixture
    BY <1>3, <1>b DEF RequestFixture, pytest, locals
  <1>4. ASSUME NEW th \in Threads, CallConnect(th) \/ ReadSession(th)
        PROVE  ClosedInv'
    BY <1>4, <1>b DEF CallConnect, ReadSession, pytest, globals
  <1>5. ASSUME NEW th \in Threads, NEW d \in Patched, Wrap(th, d)
        PROVE  ClosedInv'
    <2>0. PICK k \in Nat : k = Len(connections) + 1
      BY <1>0
    <2>1. /\ Len(connections') = k
          /\ \A i \in 1 .. Len(connections) : connections'[i] = connections[i]
          /\ connections'[k] =
               Connection(called[th], session_obj[th], item[th], d, 0)
      BY <1>5, <2>0, Wraps
    <2>2. connections'[k].inner = 0
      BY <2>1 DEF Connection
    <2>3. /\ conn' = [conn EXCEPT ![th] = k] /\ conn[th] = 0
          /\ conn'[th] = k
          /\ UNCHANGED <<open_connections, closing, phase, run>>
      BY <1>5, <2>0 DEF Wrap, TypesInv, ThreadsTyped, pytest, globals
    <2>4. Accounted(k)'
      BY <2>3 DEF Accounted
    <2>5. \A i \in 1 .. Len(connections') : i \in 1 .. Len(connections) \/ i = k
      BY <2>0, <2>1, <1>0
    <2>6. \A u \in Threads : conn'[u] = conn[u] \/ conn[u] = 0
      BY <2>3 DEF TypesInv, ThreadsTyped
    <2>7. k \in 1 .. Len(connections') /\ k > Len(connections)
      BY <2>0, <2>1, <1>0
    <2>8. QED  BY <1>c, <2>1, <2>2, <2>3, <2>4, <2>5, <2>6, <2>7
  <1>6. ASSUME NEW th \in Threads, NEW d \in Patched, ConnectFails(th, d)
        PROVE  ClosedInv'
    <2>1. conn[th] = 0 /\ conn' = [conn EXCEPT ![th] = 0]
      BY <1>6 DEF ConnectFails, Leave, TypesInv, ThreadsTyped
    <2>2. UNCHANGED <<connections, open_connections, closing, conn, phase, run>>
      BY <1>6, <2>1 DEF ConnectFails, pytest, globals, TypesInv, ThreadsTyped
    <2>3. QED  BY <2>2, <1>b
  <1>7. ASSUME NEW th \in Threads, Register(th)
        PROVE  ClosedInv'
    <2>1. item[th] \in Tests
      BY <1>7 DEF Register, TypesInv, ThreadsTyped
    <2>2. /\ open_connections' = [open_connections EXCEPT ![item[th]] = @ \union {conn[th]}]
          /\ conn' = [conn EXCEPT ![th] = 0]
          /\ UNCHANGED <<connections, closing, phase, run>>
      BY <1>7 DEF Register, Leave, pytest
    <2>3. /\ conn[th] \in open_connections'[item[th]]
          /\ \A t \in Tests : open_connections[t] \subseteq open_connections'[t]
      BY <2>1, <2>2 DEF TypesInv, OpenTyped
    <2>4. \A u \in Threads : conn'[u] = conn[u] \/ u = th
      BY <2>2 DEF TypesInv, ThreadsTyped
    <2>5. QED  BY <2>1, <2>2, <2>3, <2>4, <1>k DEF ClosedInv, Accounted, HeldByFixture
  <1>8. ASSUME NEW d \in Explicit, AdbcConnect(d)
        PROVE  ClosedInv'
    <2>0. PICK n \in Nat : n = Len(connections)
      BY <1>0
    <2>1. /\ \A k \in 1 .. n : connections'[k] = connections[k]
          /\ connections'[n + 1] = Connection(run, "full", running, d, 0)
          /\ \/ Len(connections') = n + 1 /\ UNCHANGED open_connections
             \/ /\ Len(connections') = n + 2
                /\ connections'[n + 2] = Connection(run, "full", running, d, n + 1)
                /\ open_connections' = [open_connections EXCEPT ![running] = @ \union {n + 1}]
      BY <1>8, <2>0, AdbcConnects
    <2>2. /\ UNCHANGED <<closing, phase, run, conn>> /\ phase = "running" /\ running \in Tests
      BY <1>8 DEF AdbcConnect, pytest, locals, TypesInv, HooksTyped
    <2>3. connections'[n + 1].inner = 0 /\ connections'[n + 1].run = run
      BY <2>1 DEF Connection
    <2>4. \A k \in 1 .. n : connections'[k].inner \in 0 .. n
      BY <2>0, <2>1, InnerOfConnection
    <2>5. n + 1 \in 1 .. Len(connections') /\ n + 1 > n
      BY <2>0, <2>1
    <2>6. \A t \in Tests : open_connections[t] \subseteq open_connections'[t]
      BY <2>1, <2>2 DEF TypesInv, OpenTyped
    <2>7. CASE Len(connections') = n + 1 /\ UNCHANGED open_connections
      <3>1. \A k \in 1 .. Len(connections') : k \in 1 .. n \/ k = n + 1
        BY <2>7, <2>5
      <3>2. HeldByFixture(n + 1)'
        BY <3>1, <2>2, <2>3, <2>4, <2>5 DEF HeldByFixture
      <3>3. QED  BY <1>c, <2>0, <2>1, <2>2, <2>3, <2>5, <2>6, <3>1, <3>2
    <2>8. CASE /\ Len(connections') = n + 2
               /\ connections'[n + 2] = Connection(run, "full", running, d, n + 1)
               /\ open_connections' = [open_connections EXCEPT ![running] = @ \union {n + 1}]
      <3>1. \A k \in 1 .. Len(connections') : k \in 1 .. n \/ k = n + 1 \/ k = n + 2
        BY <2>8, <2>5
      <3>2. connections'[n + 2].inner = n + 1 /\ connections'[n + 2].run = run
        BY <2>8 DEF Connection
      <3>3. n + 1 \in open_connections'[running]
        BY <2>8, <2>2 DEF TypesInv, OpenTyped
      <3>4. Accounted(n + 1)'
        BY <3>3, <2>2 DEF Accounted
      <3>5. HeldByFixture(n + 2)'
        BY <3>1, <3>2, <2>2, <2>3, <2>4, <2>5 DEF HeldByFixture
      <3>6. QED  BY <1>c, <2>0, <2>1, <2>2, <2>3, <2>5, <2>6, <3>1, <3>2, <3>4, <3>5
    <2>9. QED  BY <2>1, <2>7, <2>8
  <1>9. ASSUME NEW j \in InHand, Clone(j)
        PROVE  ClosedInv'
    <2>0. PICK k \in Nat : k = Len(connections) + 1
      BY <1>0
    <2>1. /\ Len(connections') = k
          /\ \A i \in 1 .. Len(connections) : connections'[i] = connections[i]
          /\ j \in 1 .. Len(connections)
          /\ connections'[k].inner = connections[j].inner
          /\ connections'[k].clone
      BY <1>9, <2>0, Clones
    <2>2. UNCHANGED <<open_connections, closing, phase, run, conn>>
      BY <1>9 DEF Clone, pytest, globals, locals
    <2>3. Accounted(k)'
      BY <2>1 DEF Accounted
    <2>4. /\ \A i \in 1 .. Len(connections') : i \in 1 .. Len(connections) \/ i = k
          /\ k \in 1 .. Len(connections') /\ k > Len(connections)
      BY <2>0, <2>1, <1>0
    <2>5. QED  BY <1>c, <2>1, <2>2, <2>3, <2>4
  <1>10. ASSUME NEW k \in InHand, Query(k)
         PROVE  ClosedInv'
    <2>1. UNCHANGED <<connections, pytest, globals, locals>>
      BY <1>10, QueryTypes
    <2>2. QED  BY <2>1, <1>b DEF pytest, globals, locals
  <1>11. ASSUME NEW k \in InHand, CloseInTest(k)
         PROVE  ClosedInv'
    <2>1. Len(connections') = Len(connections)
      BY <1>11, Closes DEF CloseInTest
    <2>2. UNCHANGED <<open_connections, closing, phase, run, conn>>
      BY <1>11 DEF CloseInTest, pytest, globals, locals
    <2>3. QED  BY <2>1, <2>2, <1>k DEF ClosedInv, Accounted, HeldByFixture
  <1>12. CASE TeardownFixtures
    <2>. DEFINE ks == {k \in InHand : ~connections[k].clone /\ k \notin open_connections[running]}
    <2>1. /\ Len(connections') = Len(connections)
          /\ \A k \in 1 .. Len(connections) : k \in ks => connections'[k].closed
      <3>1. connections' = Closed(ks)
        BY <1>12 DEF TeardownFixtures
      <3>. HIDE DEF ks
      <3>2. QED  BY <3>1, Closes
    <2>2. /\ UNCHANGED <<open_connections, closing, run, conn>> /\ running \in Tests
      BY <1>12 DEF TeardownFixtures, globals, locals, TypesInv, HooksTyped
    <2>3. ASSUME NEW k \in 1 .. Len(connections)
          PROVE  Accounted(k)'
      <3>1. CASE Accounted(k)
        BY <3>1, <2>2, <1>k DEF Accounted
      <3>2. CASE HeldByFixture(k) /\ ~Accounted(k)
        <4>1. k \in ks
          BY <3>2, <2>2 DEF HeldByFixture, Accounted, InHand, InThisRun
        <4>2. QED  BY <4>1, <2>1 DEF Accounted
      <3>3. QED  BY <3>1, <3>2 DEF ClosedInv
    <2>4. QED  BY <2>1, <2>3 DEF ClosedInv
  <1>13. CASE ClearItem \/ ReleaseTest
    <2>1. /\ UNCHANGED <<connections, open_connections, closing, conn>> /\ phase # "running"
      BY <1>13 DEF ClearItem, ReleaseTest, globals, locals
    <2>2. QED  BY <2>1 DEF ClosedInv, Accounted, HeldByFixture
  <1>14. CASE PopConnections
    <2>1. /\ UNCHANGED <<connections, conn>> /\ phase = "cleared" /\ closing = {}
          /\ running \in Tests
          /\ closing' = open_connections[running]
          /\ open_connections' = [open_connections EXCEPT ![running] = {}]
      BY <1>14 DEF PopConnections, locals, TypesInv, OpenTyped, HooksTyped
    <2>2. \A t \in Tests : open_connections[t] \subseteq open_connections'[t] \union closing'
      BY <2>1 DEF TypesInv, OpenTyped
    <2>3. QED  BY <2>1, <2>2 DEF ClosedInv, Accounted, HeldByFixture
  <1>15. ASSUME NEW k \in closing, NEW raises \in BOOLEAN, CloseConnection(k, raises)
         PROVE  ClosedInv'
    <2>1. /\ connections' = Closed({k}) /\ closing' = closing \ {k} /\ phase # "running"
          /\ UNCHANGED <<open_connections, conn>>
      BY <1>15 DEF CloseConnection, EndsHook, globals, locals
    <2>2. /\ Len(connections') = Len(connections)
          /\ \A i \in 1 .. Len(connections) : i \in {k} => connections'[i].closed
      BY <2>1, Closes
    <2>3. QED  BY <2>1, <2>2, <1>k DEF ClosedInv, Accounted, HeldByFixture
  <1>16. QED
    BY <1>1, <1>2, <1>3, <1>4, <1>5, <1>6, <1>7, <1>8, <1>9, <1>10, <1>11, <1>12,
       <1>13, <1>14, <1>15 DEF Next, Finished

(* No connection is left open behind a test, whatever close() raises and   *)
(* however threads are overtaken by the teardown (plugin.py:363-373).      *)
THEOREM NoneLeftOpen == Spec => []ClosedAfterTest
  <1>1. Init => ClosedInv
    BY DEF Init, ClosedInv
  <1>2. TypesInv /\ ClosedInv /\ [Next]_vars => TypesInv' /\ ClosedInv'
    BY TypesStep, ClosedStep
  <1>3. TypesInv /\ ClosedInv => ClosedAfterTest
    BY DEF ClosedInv, ClosedAfterTest, Accounted, HeldByFixture, TypesInv, OpenTyped
  <1>4. QED  BY TypesInit, <1>1, <1>2, <1>3, PTL DEF Spec
-----------------------------------------------------------------------------
(* Which CassetteState a connection has, when adbc_replay is requested     *)
(* before the test connects.  In a session a key leads to one state and a  *)
(* state belongs to one key; connections of the running test have that of  *)
(* their key in the session patched calls use; and a state that a session  *)
(* still holds is not that of an earlier run.                              *)
KeysUnique ==
    \A s \in Sessions : \A e, f \in cassette_states[s] :
        e.test = f.test /\ e.driver = f.driver => e = f

StatesDistinct ==
    \A s, z \in Sessions : \A e \in cassette_states[s], f \in cassette_states[z] :
        e.state = f.state => s = z /\ e = f

KeyOfState ==
    \A k \in 1 .. Len(connections) :
        connections[k].run = run /\ phase # "between" /\ ~connections[k].late =>
            /\ connections[k].test = running
            /\ \E e \in cassette_states[session_state] :
                 /\ e.test = running /\ e.driver = connections[k].driver
                 /\ e.state = connections[k].state

HeldByTest ==
    \A k \in 1 .. Len(connections), s \in Sessions : \A e \in cassette_states[s] :
        ~connections[k].late /\ e.state = connections[k].state =>
            /\ connections[k].run = run /\ phase # "between"
            /\ s = session_state /\ e.test = running

ThreadsOfTest ==
    \A th \in Threads :
        called[th] = run /\ phase # "between" =>
            /\ item[th] = running
            /\ pc[th] \in {"session", "wrapped"} => session_obj[th] = session_state

Sharing ==
    /\ KeysUnique /\ StatesDistinct /\ KeyOfState /\ HeldByTest
    /\ OneStatePerCassette /\ RerunDecidesAfresh

SharingInv == Sharing /\ ThreadsOfTest

StateOf(s, t, d) ==
    IF Known(s, t, d) # {} THEN (CHOOSE e \in Known(s, t, d) : TRUE).state
    ELSE Len(states) + 1

LEMMA ConnectionFields ==
    ASSUME TypesInv, NEW k \in 1 .. Len(connections)
    PROVE  /\ connections[k].run \in 1 .. run /\ connections[k].late \in BOOLEAN
           /\ connections[k].state \in 1 .. Len(states)
  <1>1. connections[k] \in Conns(run, Len(connections), Len(states))
    BY ElementOfSeq DEF TypesInv, ConnectionsTyped
  <1>2. QED  BY <1>1 DEF Conns

(* What cassette_state() does to the keys.                                 *)
LEMMA TakesKey ==
    ASSUME TypesInv, KeysUnique, StatesDistinct,
           NEW s \in Sessions, NEW t \in Tests, NEW d \in Drivers, TakeState(s, t, d)
    PROVE  /\ KeysUnique' /\ StatesDistinct'
           /\ [test |-> t, driver |-> d, state |-> StateOf(s, t, d)] \in cassette_states'[s]
           /\ \A z \in Sessions :
                /\ cassette_states[z] \subseteq cassette_states'[z]
                /\ \A e \in cassette_states'[z] :
                     e \in cassette_states[z] \/ e.state > Len(states)
                /\ \A e \in cassette_states'[z] :
                     e.state = StateOf(s, t, d) => z = s /\ e.test = t /\ e.driver = d
  <1>. DEFINE q == StateOf(s, t, d)
              key == [test |-> t, driver |-> d, state |-> q]
  <1>0. /\ Len(states) \in Nat
        /\ \A z \in Sessions : cassette_states[z] \subseteq Keys(Len(states))
        /\ DOMAIN cassette_states = Sessions
    BY LenProperties DEF TypesInv, StatesTyped
  <1>1. CASE Known(s, t, d) # {}
    <2>1. UNCHANGED cassette_states
      BY <1>1 DEF TakeState, SharedState
    <2>2. PICK e \in Known(s, t, d) : q = e.state
      BY <1>1 DEF StateOf
    <2>3. e \in cassette_states[s] /\ e.test = t /\ e.driver = d
      BY <2>2 DEF Known
    <2>4. e = key
      <3>1. e \in Keys(Len(states))
        BY <2>3, <1>0
      <3>2. QED  BY <3>1, <2>2, <2>3 DEF Keys
    <2>5. key \in cassette_states[s] /\ key.state = q /\ key.test = t /\ key.driver = d
      BY <2>3, <2>4
    <2>. HIDE DEF q, key
    <2>6. \A z \in Sessions : \A f \in cassette_states[z] :
            f.state = q => z = s /\ f.test = t /\ f.driver = d
      BY <2>5 DEF StatesDistinct
    <2>7. QED  BY <2>1, <2>5, <2>6 DEF KeysUnique, StatesDistinct, q, key
  <1>2. CASE Known(s, t, d) = {}
    <2>0. q = Len(states) + 1
      BY <1>2 DEF StateOf
    <2>1. cassette_states' = [cassette_states EXCEPT ![s] = @ \union {key}]
      BY <1>2, <2>0 DEF TakeState, SharedState
    <2>2. \A z \in Sessions : \A f \in cassette_states'[z] :
            f \in cassette_states[z] \/ (z = s /\ f = key)
      <3>. HIDE DEF key
      <3>1. /\ cassette_states'[s] = cassette_states[s] \union {key}
            /\ \A z \in Sessions \ {s} : cassette_states'[z] = cassette_states[z]
        BY <2>1, <1>0
      <3>2. QED  BY <3>1
    <2>3. key.state = q /\ key.test = t /\ key.driver = d
      OBVIOUS
    <2>4. \A z \in Sessions : \A f \in cassette_states[z] : f.state # q
      <3>1. \A f \in Keys(Len(states)) : f.state # Len(states) + 1
        BY <1>0 DEF Keys
      <3>2. QED  BY <3>1, <2>0, <1>0
    <2>5. \A f \in cassette_states[s] : ~(f.test = t /\ f.driver = d)
      BY <1>2 DEF Known
    <2>6. q > Len(states)
      BY <2>0, <1>0
    <2>7. key \in cassette_states'[s] /\ \A z \in Sessions : cassette_states[z] \subseteq cassette_states'[z]
      BY <2>1, <1>0
    <2>. HIDE DEF q, key
    <2>8. KeysUnique'
      BY <2>2, <2>3, <2>5 DEF KeysUnique
    <2>9. StatesDistinct'
      BY <2>2, <2>3, <2>4 DEF StatesDistinct
    <2>10. QED  BY <2>2, <2>3, <2>4, <2>6, <2>7, <2>8, <2>9 DEF q, key
  <1>3. QED  BY <1>1, <1>2

(* No key comes or goes, and every connection is there or is like one.     *)
LEMMA LikeBefore ==
    ASSUME Sharing,
           UNCHANGED <<run, running, session_state, cassette_states>>,
           (phase' = "between") = (phase = "between"),
           \A k \in 1 .. Len(connections') : \E j \in 1 .. Len(connections) :
             /\ connections'[k].run = connections[j].run
             /\ connections'[k].test = connections[j].test
             /\ connections'[k].driver = connections[j].driver
             /\ connections'[k].late = connections[j].late
             /\ connections'[k].state = connections[j].state
    PROVE  Sharing'
  <1>1. KeysUnique' /\ StatesDistinct'
    BY DEF Sharing, KeysUnique, StatesDistinct
  <1>2. KeyOfState'
    BY SMTT(30) DEF Sharing, KeyOfState
  <1>3. HeldByTest'
    BY DEF Sharing, HeldByTest
  <1>4. OneStatePerCassette'
    BY DEF Sharing, OneStatePerCassette
  <1>5. RerunDecidesAfresh'
    BY DEF Sharing, RerunDecidesAfresh
  <1>6. QED  BY <1>1, <1>2, <1>3, <1>4, <1>5 DEF Sharing

(* A key is asked for, and connections with its state may be opened.       *)
LEMMA SharesKey ==
    ASSUME TypesInv, Sharing,
           NEW s \in Sessions, NEW t \in Tests, NEW d \in Drivers, TakeState(s, t, d),
           UNCHANGED <<run, running, phase, session_state>>,
           \A k \in 1 .. Len(connections') :
             \/ k \in 1 .. Len(connections) /\ connections'[k] = connections[k]
             \/ /\ connections'[k].test = t /\ connections'[k].driver = d
                /\ connections'[k].state = StateOf(s, t, d)
                /\ connections'[k].late
                     \/ /\ connections'[k].run = run /\ phase # "between"
                        /\ s = session_state /\ t = running
    PROVE  Sharing'
  <1>. DEFINE q == StateOf(s, t, d)
              Old(k) == k \in 1 .. Len(connections) /\ connections'[k] = connections[k]
              New(k) == /\ connections'[k].test = t /\ connections'[k].driver = d
                        /\ connections'[k].state = q
                        /\ ~connections'[k].late =>
                             /\ connections'[k].run = run /\ phase # "between"
                             /\ s = session_state /\ t = running
  <1>1. /\ KeysUnique' /\ StatesDistinct'
        /\ [test |-> t, driver |-> d, state |-> q] \in cassette_states'[s]
        /\ \A z \in Sessions :
             /\ cassette_states[z] \subseteq cassette_states'[z]
             /\ \A e \in cassette_states'[z] :
                  e \in cassette_states[z] \/ e.state > Len(states)
             /\ \A e \in cassette_states'[z] :
                  e.state = q => z = s /\ e.test = t /\ e.driver = d
    BY TakesKey DEF Sharing
  <1>2. \A k \in 1 .. Len(connections') : Old(k) \/ New(k)
    OBVIOUS
  <1>3. PICK f \in cassette_states'[s] : f.test = t /\ f.driver = d /\ f.state = q
    BY <1>1
  <1>4. session_state \in Sessions /\ session_state' = session_state /\ run' = run
        /\ running' = running /\ phase' = phase
    BY DEF TypesInv, HooksTyped
  <1>. HIDE DEF q
  <1>5. \A k \in 1 .. Len(connections) : \A z \in Sessions : \A e \in cassette_states'[z] :
          e.state = connections[k].state => e \in cassette_states[z]
    <2>1. \A k \in 1 .. Len(connections) : ~(connections[k].state > Len(states))
      BY ConnectionFields, LenProperties DEF TypesInv, StatesTyped
    <2>2. QED  BY <2>1, <1>1
  <1>6. KeyOfState'
    <2>. SUFFICES ASSUME NEW k \in 1 .. Len(connections'), connections'[k].run = run,
                         phase # "between", ~connections'[k].late
                  PROVE  /\ connections'[k].test = running
                         /\ \E e \in cassette_states'[session_state] :
                              /\ e.test = running /\ e.driver = connections'[k].driver
                              /\ e.state = connections'[k].state
      BY <1>4 DEF KeyOfState
    <2>1. CASE Old(k)
      BY <2>1, <1>1, <1>4 DEF Sharing, KeyOfState
    <2>2. CASE New(k)
      BY <2>2, <1>3
    <2>3. QED  BY <1>2, <2>1, <2>2
  <1>7. HeldByTest'
    <2>. SUFFICES ASSUME NEW k \in 1 .. Len(connections'), NEW z \in Sessions,
                         NEW e \in cassette_states'[z],
                         ~connections'[k].late, e.state = connections'[k].state
                  PROVE  /\ connections'[k].run = run /\ phase # "between"
                         /\ z = session_state /\ e.test = running
      BY <1>4 DEF HeldByTest
    <2>1. CASE Old(k)
      BY <2>1, <1>5 DEF Sharing, HeldByTest
    <2>2. CASE New(k)
      BY <2>2, <1>1
    <2>3. QED  BY <1>2, <2>1, <2>2
  (* The connections of earlier runs have other states. *)
  <1>8. ASSUME NEW k \in 1 .. Len(connections'), NEW j \in 1 .. Len(connections'),
               ~connections'[k].late, ~connections'[j].late, New(k)
        PROVE  (connections'[j].run = run /\ connections'[j].driver = d)
                  => connections'[j].state = q
    <2>1. CASE Old(j)
      <3>. SUFFICES ASSUME connections'[j].run = run, connections'[j].driver = d
                    PROVE  connections'[j].state = q
        OBVIOUS
      <3>1. PICK e \in cassette_states[session_state] :
              /\ e.test = running /\ e.driver = d /\ e.state = connections[j].state
        BY <2>1, <1>8 DEF Sharing, KeyOfState
      <3>2. e \in cassette_states'[s] /\ e.test = t /\ e.driver = d
        BY <3>1, <1>1, <1>4, <1>8
      <3>3. e = f
        BY <3>2, <1>1, <1>3 DEF KeysUnique
      <3>4. QED  BY <3>1, <3>3, <1>3, <2>1
    <2>2. QED  BY <1>2, <2>1
  <1>9. ASSUME NEW k \in 1 .. Len(connections'), NEW j \in 1 .. Len(connections'),
               ~connections'[k].late, ~connections'[j].late, New(k),
               connections'[j].state = q
        PROVE  connections'[j].run = run
    <2>1. CASE Old(j)
      BY <2>1, <1>3, <1>5, <1>9 DEF Sharing, HeldByTest
    <2>2. QED  BY <1>2, <2>1, <1>9
  <1>10. OneStatePerCassette'
    <2>. SUFFICES ASSUME NEW j \in 1 .. Len(connections'), NEW k \in 1 .. Len(connections'),
                         connections'[j].run = connections'[k].run,
                         connections'[j].driver = connections'[k].driver,
                         ~connections'[j].late, ~connections'[k].late
                  PROVE  connections'[j].state = connections'[k].state
      BY DEF OneStatePerCassette
    <2>1. CASE Old(j) /\ Old(k)
      BY <2>1 DEF Sharing, OneStatePerCassette
    <2>2. CASE New(k)
      BY <2>2, <1>8
    <2>3. CASE New(j)
      BY <2>3, <1>8
    <2>4. QED  BY <1>2, <2>1, <2>2, <2>3
  <1>11. RerunDecidesAfresh'
    <2>. SUFFICES ASSUME NEW j \in 1 .. Len(connections'), NEW k \in 1 .. Len(connections'),
                         connections'[j].run # connections'[k].run,
                         ~connections'[j].late, ~connections'[k].late
                  PROVE  connections'[j].state # connections'[k].state
      BY DEF RerunDecidesAfresh
    <2>1. CASE Old(j) /\ Old(k)
      BY <2>1 DEF Sharing, RerunDecidesAfresh
    <2>2. CASE New(k)
      BY <2>2, <1>9
    <2>3. CASE New(j)
      BY <2>3, <1>9
    <2>4. QED  BY <1>2, <2>1, <2>2, <2>3
  <1>12. QED  BY <1>1, <1>6, <1>7, <1>10, <1>11 DEF Sharing

LEMMA ThreadsOfTestStep ==
    ASSUME FixtureFirst, TypesInv, ThreadsOfTest, [Next]_vars
    PROVE  ThreadsOfTest'
  <1>. USE DEF ThreadsOfTest
  <1>a. ASSUME UNCHANGED <<pc, item, called, session_obj, run, running, session_state>>,
               phase = "between" => phase' = "between"
        PROVE  ThreadsOfTest'
    BY <1>a
  <1>b. \A th \in Threads : called[th] \in 0 .. run /\ (pc[th] = "idle" => called[th] = 0)
    BY DEF TypesInv, ThreadsTyped
  <1>c. run \in Nat
    BY DEF TypesInv, HooksTyped
  <1>1. CASE UNCHANGED vars
    BY <1>1, <1>a DEF vars, pytest, globals, locals
  <1>2. ASSUME NEW t \in Tests, StartTest(t)
        PROVE  ThreadsOfTest'
    BY <1>2, <1>b, <1>c DEF StartTest, locals
  <1>3. CASE RequestFixture
    BY <1>3 DEF RequestFixture, NoneConnects, pytest, locals
  <1>4. ASSUME NEW th \in Threads, CallConnect(th)
        PROVE  ThreadsOfTest'
    <2>1. /\ pc' = [pc EXCEPT ![th] = "item"]
          /\ item' = [item EXCEPT ![th] = running]
          /\ called' = [called EXCEPT ![th] = run]
          /\ UNCHANGED <<session_obj, run, running, phase, session_state>>
      BY <1>4 DEF CallConnect, TypesInv, HooksTyped, pytest, globals
    <2>2. QED  BY <2>1 DEF TypesInv, ThreadsTyped
  <1>5. ASSUME NEW th \in Threads, ReadSession(th)
        PROVE  ThreadsOfTest'
    <2>1. /\ pc' = [pc EXCEPT ![th] = "session"]
          /\ session_obj' = [session_obj EXCEPT ![th] = session_state]
          /\ UNCHANGED <<item, called, run, running, phase, session_state>>
      BY <1>5 DEF ReadSession, pytest, globals
    <2>2. QED  BY <2>1 DEF TypesInv, ThreadsTyped
  <1>6. ASSUME NEW th \in Threads, NEW d \in Patched, Wrap(th, d)
        PROVE  ThreadsOfTest'
    <2>1. /\ pc' = [pc EXCEPT ![th] = "wrapped"] /\ pc[th] = "session"
          /\ UNCHANGED <<session_obj, item, called, run, running, phase, session_state>>
      BY <1>6 DEF Wrap, pytest, globals
    <2>2. QED  BY <2>1 DEF TypesInv, ThreadsTyped
  <1>7. ASSUME NEW th \in Threads,
               Register(th) \/ \E d \in Patched : ConnectFails(th, d)
        PROVE  ThreadsOfTest'
    <2>1. Leave(th) /\ UNCHANGED <<run, running, phase, session_state>> /\ pc[th] # "idle"
      BY <1>7 DEF Register, ConnectFails, pytest, globals
    <2>2. called'[th] = 0 /\ \A u \in Threads \ {th} :
            /\ called'[u] = called[u] /\ item'[u] = item[u] /\ pc'[u] = pc[u]
            /\ session_obj'[u] = session_obj[u]
      BY <2>1 DEF Leave, TypesInv, ThreadsTyped
    <2>3. phase # "between" => run # 0
      BY DEF TypesInv, HooksTyped
    <2>4. QED  BY <2>1, <2>2, <2>3
  <1>8. ASSUME NEW d \in Explicit, AdbcConnect(d)
        PROVE  ThreadsOfTest'
    BY <1>8, <1>a DEF AdbcConnect, pytest, locals
  <1>9. ASSUME NEW k \in InHand, Query(k) \/ Clone(k) \/ CloseInTest(k)
        PROVE  ThreadsOfTest'
    BY Zenon, <1>9, <1>a DEF Query, Clone, CloseInTest, pytest, globals, locals
  <1>10. CASE TeardownFixtures
    BY <1>10, <1>a DEF TeardownFixtures, globals, locals
  <1>11. CASE ClearItem
    BY <1>11, <1>a DEF ClearItem, locals
  <1>12. CASE PopConnections
    BY <1>12, <1>a DEF PopConnections, locals
  <1>13. ASSUME NEW k \in closing, NEW raises \in BOOLEAN, CloseConnection(k, raises)
         PROVE  ThreadsOfTest'
    BY <1>13, <1>a DEF CloseConnection, EndsHook, globals, locals
  <1>14. CASE ReleaseTest
    BY <1>14 DEF ReleaseTest
  <1>15. QED
    BY <1>1, <1>2, <1>3, <1>4, <1>5, <1>6, <1>7, <1>8, <1>9, <1>10, <1>11, <1>12,
       <1>13, <1>14 DEF Next, Finished

LEMMA SharingStep ==
    ASSUME FixtureFirst, TypesInv, SharingInv, [Next]_vars
    PROVE  Sharing'
  <1>0. Sharing /\ ThreadsOfTest /\ Len(connections) \in Nat
    BY LenProperties DEF SharingInv, TypesInv, ConnectionsTyped
  <1>1. ASSUME UNCHANGED <<connections, run, running, session_state, cassette_states>>,
               (phase' = "between") = (phase = "between")
        PROVE  Sharing'
    BY <1>0, <1>1, LikeBefore
  <1>2. CASE UNCHANGED vars
    BY <1>1, <1>2 DEF vars, pytest, globals
  <1>3. ASSUME NEW t \in Tests, StartTest(t)
        PROVE  Sharing'
    <2>1. /\ UNCHANGED <<connections, session_state, cassette_states>>
          /\ phase = "between" /\ run' = run + 1 /\ run \in Nat
      BY <1>3 DEF StartTest, TypesInv, HooksTyped
    <2>2. \A k \in 1 .. Len(connections) : connections[k].run # run'
      BY <2>1, ConnectionFields
    <2>3. KeyOfState' /\ HeldByTest'
      BY <2>1, <2>2, <1>0 DEF Sharing, KeyOfState, HeldByTest
    <2>4. QED
      BY <2>1, <2>3, <1>0
         DEF Sharing, KeysUnique, StatesDistinct, OneStatePerCassette, RerunDecidesAfresh
  <1>4. CASE RequestFixture
    <2>1. /\ UNCHANGED <<connections, run, running, phase, cassette_states>>
          /\ phase # "between" /\ \A k \in 1 .. Len(connections) : connections[k].run # run
      BY <1>4 DEF RequestFixture, InThisRun, pytest
    <2>2. KeyOfState' /\ HeldByTest'
      BY <2>1, <1>0 DEF Sharing, KeyOfState, HeldByTest
    <2>3. QED
      BY <2>1, <2>2, <1>0
         DEF Sharing, KeysUnique, StatesDistinct, OneStatePerCassette, RerunDecidesAfresh
  <1>5. ASSUME NEW th \in Threads, CallConnect(th) \/ ReadSession(th) \/ Register(th)
        PROVE  Sharing'
    BY <1>1, <1>5 DEF CallConnect, ReadSession, Register, pytest, globals
  <1>6. ASSUME NEW th \in Threads, NEW d \in Patched,
               Wrap(th, d) \/ ConnectFails(th, d)
        PROVE  Sharing'
    <2>. DEFINE s == session_obj[th]  t == item[th]
    <2>1. /\ s \in Sessions /\ t \in Tests /\ d \in Drivers /\ called[th] \in 1 .. run
          /\ TakeState(s, t, d) /\ UNCHANGED <<run, running, phase, session_state>>
      BY <1>6, PluginAssumption
         DEF Wrap, ConnectFails, TypesInv, ThreadsTyped, HooksTyped, pytest, globals
    <2>2. CASE Wrap(th, d)
      <3>1. PICK n \in Nat : n = Len(connections) + 1
        BY <1>0
      <3>2. /\ Len(connections') = n
            /\ \A k \in 1 .. Len(connections) : connections'[k] = connections[k]
            /\ connections'[n] = Connection(called[th], s, t, d, 0)
        BY <2>2, <3>1, Wraps
      <3>3. /\ connections'[n].run = called[th]
            /\ connections'[n].late = (called[th] # run \/ phase = "between")
            /\ connections'[n].test = t /\ connections'[n].driver = d
            /\ connections'[n].state = StateOf(s, t, d)
        BY <3>2 DEF Connection, SharedState, StateOf
      <3>4. ~connections'[n].late =>
              /\ connections'[n].run = run /\ phase # "between"
              /\ s = session_state /\ t = running
        BY <3>3, <1>0, <2>2 DEF ThreadsOfTest, Wrap
      <3>5. \A k \in 1 .. Len(connections') :
              (k \in 1 .. Len(connections) /\ connections'[k] = connections[k]) \/ k = n
        BY <3>1, <3>2, <1>0
      <3>. HIDE DEF s, t
      <3>6. QED  BY <2>1, <3>3, <3>4, <3>5, <1>0, SharesKey
    <2>3. CASE ConnectFails(th, d)
      <3>1. UNCHANGED connections
        BY <2>3 DEF ConnectFails
      <3>. HIDE DEF s, t
      <3>2. QED  BY <2>1, <3>1, <1>0, SharesKey
    <2>4. QED  BY <1>6, <2>2, <2>3
  <1>7. ASSUME NEW d \in Explicit, AdbcConnect(d)
        PROVE  Sharing'
    <2>1. PICK n \in Nat : n = Len(connections)
      BY <1>0
    <2>2. /\ \A k \in 1 .. n : connections'[k] = connections[k]
          /\ connections'[n + 1] = Connection(run, "full", running, d, 0)
          /\ \/ Len(connections') = n + 1
             \/ /\ Len(connections') = n + 2
                /\ connections'[n + 2] = Connection(run, "full", running, d, n + 1)
      BY <1>7, <2>1, AdbcConnects
    <2>3. /\ "full" \in Sessions /\ running \in Tests /\ d \in Drivers
          /\ TakeState("full", running, d) /\ UNCHANGED <<run, running, phase, session_state>>
          /\ phase = "running" /\ session_state = "full"
      BY <1>7, PluginAssumption DEF AdbcConnect, TypesInv, HooksTyped, Sessions, pytest
    <2>4. \A inner : LET c == Connection(run, "full", running, d, inner)
                     IN /\ c.run = run /\ c.test = running /\ c.driver = d
                        /\ c.state = StateOf("full", running, d)
      BY DEF Connection, SharedState, StateOf
    <2>5. \A k \in 1 .. Len(connections') :
            \/ k \in 1 .. n
            \/ /\ connections'[k].run = run /\ connections'[k].test = running
               /\ connections'[k].driver = d
               /\ connections'[k].state = StateOf("full", running, d)
      <3>1. \A k \in 1 .. Len(connections') :
              \/ k \in 1 .. n
              \/ k = n + 1
              \/ k = n + 2 /\ Len(connections') = n + 2
        BY <2>2
      <3>2. QED  BY <3>1, <2>2, <2>4
    <2>6. QED  BY <2>1, <2>2, <2>3, <2>5, <1>0, SharesKey
  <1>8. ASSUME NEW j \in InHand, Clone(j)
        PROVE  Sharing'
    <2>1. PICK n \in Nat : n = Len(connections) + 1
      BY <1>0
    <2>2. /\ Len(connections') = n
          /\ \A k \in 1 .. Len(connections) : connections'[k] = connections[k]
          /\ j \in 1 .. Len(connections)
          /\ connections'[n].run = connections[j].run
          /\ connections'[n].test = connections[j].test
          /\ connections'[n].driver = connections[j].driver
          /\ connections'[n].late = connections[j].late
          /\ connections'[n].state = connections[j].state
      BY <1>8, <2>1, Clones
    <2>3. \A k \in 1 .. Len(connections') : k \in 1 .. Len(connections) \/ k = n
      BY <2>1, <2>2, <1>0
    <2>4. UNCHANGED <<run, running, phase, session_state, cassette_states>>
      BY <1>8 DEF Clone, pytest, globals
    <2>5. QED  BY <2>2, <2>3, <2>4, <1>0, LikeBefore
  <1>9. ASSUME NEW k \in InHand, Query(k)
        PROVE  Sharing'
    BY <1>1, <1>9, QueryTypes DEF pytest, globals
  <1>10. ASSUME NEW ks, connections' = Closed(ks),
                UNCHANGED <<run, session_state, cassette_states, running>>,
                (phase' = "between") = (phase = "between")
         PROVE  Sharing'
    <2>1. /\ Len(connections') = Len(connections)
          /\ \A k \in 1 .. Len(connections) : Same(k)
      BY <1>10, Closes
    <2>2. QED  BY <1>0, <1>10, <2>1, LikeBefore DEF Same
  <1>11. ASSUME NEW k \in InHand, CloseInTest(k)
         PROVE  Sharing'
    BY <1>10, <1>11 DEF CloseInTest, pytest, globals
  <1>12. CASE TeardownFixtures
    BY <1>10, <1>12 DEF TeardownFixtures, globals
  <1>13. CASE ClearItem \/ PopConnections
    BY <1>1, <1>13 DEF ClearItem, PopConnections
  <1>14. ASSUME NEW k \in closing, NEW raises \in BOOLEAN, CloseConnection(k, raises)
         PROVE  Sharing'
    BY <1>10, <1>14 DEF CloseConnection, EndsHook, globals
  <1>15. CASE ReleaseTest
    <2>1. /\ UNCHANGED <<connections, run, session_state>> /\ phase' = "between"
          /\ session_state \in Sessions
          /\ cassette_states' = [cassette_states EXCEPT ![session_state] =
               {e \in cassette_states[session_state] : e.test # running}]
      BY <1>15 DEF ReleaseTest, KeysAfterRelease, globals, TypesInv, HooksTyped
    <2>2. /\ \A s \in Sessions : cassette_states'[s] \subseteq cassette_states[s]
          /\ \A e \in cassette_states'[session_state] : e.test # running
      BY <2>1 DEF TypesInv, StatesTyped
    <2>3. KeysUnique' /\ StatesDistinct'
      BY <2>2, <1>0 DEF Sharing, KeysUnique, StatesDistinct
    <2>4. KeyOfState' /\ HeldByTest'
      BY <2>1, <2>2, <1>0 DEF Sharing, KeyOfState, HeldByTest
    <2>5. QED
      BY <2>1, <2>3, <2>4, <1>0 DEF Sharing, OneStatePerCassette, RerunDecidesAfresh
  <1>16. QED
    BY <1>2, <1>3, <1>4, <1>5, <1>6, <1>7, <1>8, <1>9, <1>11, <1>12, <1>13, <1>14,
       <1>15 DEF Next, Finished

LEMMA SharingInit == Init => SharingInv
  BY DEF Init, SharingInv, Sharing, ThreadsOfTest, KeysUnique, StatesDistinct, KeyOfState,
         HeldByTest, OneStatePerCassette, RerunDecidesAfresh

(* If adbc_replay is requested before the test connects, what the threads  *)
(* of a test open on one cassette, in any order and by connect() or by     *)
(* adbc_connect, shares one CassetteState (_session.py:58-74).             *)
THEOREM OneStateEach ==
    ASSUME FixtureFirst
    PROVE  Spec => []OneStatePerCassette
  <1>1. TypesInv /\ SharingInv /\ [Next]_vars => TypesInv' /\ SharingInv'
    BY TypesStep, SharingStep, ThreadsOfTestStep DEF SharingInv
  <1>2. SharingInv => OneStatePerCassette
    BY DEF SharingInv, Sharing
  <1>3. QED  BY TypesInit, SharingInit, <1>1, <1>2, PTL DEF Spec

(* Under the same condition no state outlives the run that made it, so     *)
(* that a rerun decides again whether to replay and whether to wipe        *)
(* (plugin.py:374-376, _session.py:76-86).                                 *)
THEOREM RerunsDecide ==
    ASSUME FixtureFirst
    PROVE  Spec => []RerunDecidesAfresh
  <1>1. TypesInv /\ SharingInv /\ [Next]_vars => TypesInv' /\ SharingInv'
    BY TypesStep, SharingStep, ThreadsOfTestStep DEF SharingInv
  <1>2. SharingInv => RerunDecidesAfresh
    BY DEF SharingInv, Sharing
  <1>3. QED  BY TypesInit, SharingInit, <1>1, <1>2, PTL DEF Spec
-----------------------------------------------------------------------------
(* What a query records, when moreover no driver is opened explicitly that *)
(* is patched as well: no connection is inside another; a late connection  *)
(* is not one of the running test; and in 'all' a cassette on which this   *)
(* run has recorded belongs to a connection whose state remembers that it  *)
(* was wiped.                                                              *)
NoneInside == \A k \in 1 .. Len(connections) : connections[k].inner = 0

LateIsOver ==
    \A k \in 1 .. Len(connections) :
        connections[k].late => connections[k].run # run \/ phase = "between"

WipeRemembered ==
    \A p \in Cassettes :
        recorded[p] > 0 /\ mode = "all" =>
            \E k \in 1 .. Len(connections) :
                /\ connections[k].run = run /\ ~connections[k].late
                /\ p = CassettePath(connections[k].test, connections[k].driver)
                /\ states[connections[k].state].wiped

RecordsInv == NoneInside /\ LateIsOver /\ WipeRemembered /\ RecordsWhatItAsks

OfThisRun(recordings) == {n \in 1 .. Len(recordings) : recordings[n].run = run /\ run > 0}

LEMMA OneMore ==
    ASSUME NEW recordings \in Seq(Recs(run)), NEW new, new.run = run, run \in Nat, run > 0
    PROVE  /\ Cardinality(OfThisRun(recordings)) \in Nat
           /\ Cardinality(OfThisRun(recordings \o [n \in 1 .. 1 |-> new]))
                = Cardinality(OfThisRun(recordings)) + 1
  <1>. DEFINE more == recordings \o [n \in 1 .. 1 |-> new]
              last == Len(recordings) + 1
  <1>1. Len(recordings) \in Nat
    BY LenProperties
  <1>2. /\ Len(more) = last /\ more[last] = new
        /\ \A n \in 1 .. Len(recordings) : more[n] = recordings[n]
    <2>1. Len([n \in 1 .. 1 |-> new]) = 1
      OBVIOUS
    <2>2. QED  BY <1>1, <2>1
  <1>3. OfThisRun(more) = OfThisRun(recordings) \union {last}
    <2>. HIDE DEF more
    <2>1. QED  BY <1>1, <1>2 DEF OfThisRun
  <1>4. last \notin OfThisRun(recordings)
    BY <1>1 DEF OfThisRun
  <1>5. IsFiniteSet(OfThisRun(recordings))
    <2>1. IsFiniteSet(1 .. Len(recordings))
      BY <1>1, FS_Interval
    <2>2. QED  BY <2>1, FS_Subset DEF OfThisRun
  <1>. HIDE DEF more, last
  <1>6. QED  BY <1>3, <1>4, <1>5, FS_AddElement, FS_CardinalityType DEF more

(* A query leaves its state wiped in 'all', and no other state changes.    *)
LEMMA QueryWipes ==
    ASSUME TypesInv, NEW k \in InHand, Query(k)
    PROVE  /\ states'[connections[k].state].wiped
                = (states[connections[k].state].wiped \/ mode = "all")
           /\ \A i \in 1 .. Len(states) :
                i # connections[k].state => states'[i] = states[i]
  <1>. DEFINE id == connections[k].state
              path == CassettePath(connections[k].test, connections[k].driver)
              st == Initialised(states[id], cassettes[path])
  <1>1. id \in DOMAIN states /\ DOMAIN states = 1 .. Len(states)
    BY QueryTypes, LenProperties DEF TypesInv, StatesTyped
  <1>2. st.wiped = (states[id].wiped \/ mode = "all")
        /\ [st EXCEPT !.queued = @ - 1].wiped = st.wiped
    BY DEF Initialised
  <1>3. \/ states' = [states EXCEPT ![id] = st]
        \/ states' = [states EXCEPT ![id] = [st EXCEPT !.queued = @ - 1]]
    BY Zenon DEF Query
  <1>4. PICK after : /\ states' = [states EXCEPT ![id] = after]
                     /\ after.wiped = (states[id].wiped \/ mode = "all")
    <2>. HIDE DEF st
    <2>1. QED  BY <1>2, <1>3
  <1>. HIDE DEF id, st
  <1>5. states'[id] = after /\ \A i \in DOMAIN states : i # id => states'[i] = states[i]
    BY <1>1, <1>4
  <1>6. QED  BY <1>1, <1>4, <1>5 DEF id

(* No step makes a state forget that it was wiped.                         *)
LEMMA WipedStays ==
    ASSUME TypesInv, [Next]_vars
    PROVE  \A i \in 1 .. Len(states) : states[i].wiped => states'[i].wiped
  <1>1. CASE UNCHANGED states
    BY <1>1
  <1>2. ASSUME NEW k \in InHand, Query(k)
        PROVE  \A i \in 1 .. Len(states) : states[i].wiped => states'[i].wiped
    BY <1>2, QueryWipes
  <1>3. ASSUME NEW th \in Threads, NEW d \in Patched, Wrap(th, d) \/ ConnectFails(th, d)
        PROVE  \A i \in 1 .. Len(states) : states[i].wiped => states'[i].wiped
    <2>1. /\ called[th] \in 1 .. run /\ session_obj[th] \in Sessions /\ item[th] \in Tests
          /\ d \in Drivers /\ 0 \in Nat
      BY <1>3, PluginAssumption DEF Wrap, ConnectFails, TypesInv, ThreadsTyped, HooksTyped
    <2>2. TakeState(session_obj[th], item[th], d)
      BY <1>3 DEF Wrap, ConnectFails
    <2>3. QED  BY <2>1, <2>2, TakesState
  <1>4. ASSUME NEW d \in Explicit, AdbcConnect(d)
        PROVE  \A i \in 1 .. Len(states) : states[i].wiped => states'[i].wiped
    BY <1>4, AdbcConnects
  <1>5. ASSUME \/ \E t \in Tests : StartTest(t)
               \/ \E th \in Threads : CallConnect(th) \/ ReadSession(th) \/ Register(th)
               \/ \E k \in InHand : Clone(k) \/ CloseInTest(k)
               \/ RequestFixture \/ TeardownFixtures \/ ClearItem \/ PopConnections
               \/ ReleaseTest
               \/ \E k \in closing, raises \in BOOLEAN : CloseConnection(k, raises)
        PROVE  UNCHANGED states
    BY <1>5 DEF StartTest, CallConnect, ReadSession, Register, Clone, CloseInTest,
       RequestFixture, TeardownFixtures, ClearItem, PopConnections, ReleaseTest,
       CloseConnection
  <1>6. QED
    BY <1>1, <1>2, <1>3, <1>4, <1>5 DEF Next, Finished, vars

(* No test starts and none asks: what is recorded stays.                   *)
LEMMA NothingRecorded ==
    ASSUME TypesInv, RecordsInv, [Next]_vars, UNCHANGED <<cassettes, recorded, run, mode>>
    PROVE  WipeRemembered' /\ RecordsWhatItAsks'
  <1>1. RecordsWhatItAsks'
    BY DEF RecordsInv, RecordsWhatItAsks, Cassettes
  <1>2. /\ Kept /\ Len(connections) \in Nat /\ Len(connections') \in Nat
        /\ Len(connections) <= Len(connections')
    BY SequencesStep
  <1>3. \A k \in 1 .. Len(connections) :
          /\ k \in 1 .. Len(connections') /\ Same(k)
          /\ connections[k].state \in 1 .. Len(states)
    BY <1>2, ConnectionFields DEF Kept
  <1>4. WipeRemembered'
    <2>. SUFFICES ASSUME NEW p \in Cassettes, recorded[p] > 0, mode = "all"
                  PROVE  \E k \in 1 .. Len(connections') :
                           /\ connections'[k].run = run /\ ~connections'[k].late
                           /\ p = CassettePath(connections'[k].test, connections'[k].driver)
                           /\ states'[connections'[k].state].wiped
      BY DEF WipeRemembered, Cassettes, CassettePath
    <2>1. PICK k \in 1 .. Len(connections) :
            /\ connections[k].run = run /\ ~connections[k].late
            /\ p = CassettePath(connections[k].test, connections[k].driver)
            /\ states[connections[k].state].wiped
      BY DEF RecordsInv, WipeRemembered
    <2>2. QED  BY <2>1, <1>3, WipedStays DEF Same
  <1>5. QED  BY <1>1, <1>4

(* Every connection that a step leaves is one there was, a clone of one,   *)
(* or a new one with nothing inside it, late only if its run is over.      *)
LikeOne(k) ==
    \E j \in 1 .. Len(connections) :
        /\ connections'[k].inner = connections[j].inner
        /\ connections'[k].late = connections[j].late
        /\ connections'[k].run = connections[j].run

OnItsOwn(k) ==
    /\ connections'[k].inner = 0
    /\ connections'[k].late => connections'[k].run # run \/ phase = "between"

RunGoesOn ==
    /\ run' = run /\ (phase = "between" => phase' = "between")
    /\ \A k \in 1 .. Len(connections') : LikeOne(k) \/ OnItsOwn(k)

LEMMA WhileRunGoesOn ==
    ASSUME Patched \cap Explicit = {}, TypesInv, [Next]_vars,
           \A t \in Tests : ~StartTest(t)
    PROVE  RunGoesOn
  <1>0. Len(connections) \in Nat
    BY LenProperties DEF TypesInv, ConnectionsTyped
  <1>a. ASSUME run' = run, phase = "between" => phase' = "between",
               Len(connections') = Len(connections), Kept
        PROVE  RunGoesOn
    BY <1>a DEF Kept, Same, RunGoesOn, LikeOne
  <1>b. ASSUME UNCHANGED <<connections, run>>, phase = "between" => phase' = "between"
        PROVE  RunGoesOn
    BY <1>b DEF RunGoesOn, LikeOne
  <1>c. ASSUME UNCHANGED <<run, phase>>, Len(connections') = Len(connections) + 1,
               \A k \in 1 .. Len(connections) : connections'[k] = connections[k],
               LikeOne(Len(connections) + 1) \/ OnItsOwn(Len(connections) + 1)
        PROVE  RunGoesOn
    <2>1. \A k \in 1 .. Len(connections') :
            k \in 1 .. Len(connections) \/ k = Len(connections) + 1
      BY <1>0, <1>c
    <2>2. \A k \in 1 .. Len(connections) : LikeOne(k)
      BY <1>c DEF LikeOne
    <2>3. QED  BY <1>c, <2>1, <2>2 DEF RunGoesOn
  <1>1. CASE UNCHANGED vars
    BY <1>1, <1>b DEF vars, pytest
  <1>2. CASE \/ \E th \in Threads : \/ CallConnect(th) \/ ReadSession(th) \/ Register(th)
                                    \/ \E d \in Patched : ConnectFails(th, d)
             \/ \E k \in InHand : Query(k)
             \/ RequestFixture \/ ClearItem \/ PopConnections \/ ReleaseTest
    BY Zenon, <1>2, <1>b DEF CallConnect, ReadSession, Register, ConnectFails, Query,
       RequestFixture, ClearItem, PopConnections, ReleaseTest, pytest
  <1>3. CASE Shuts
    <2>1. PICK ks : connections' = Closed(ks)
      BY <1>3 DEF Shuts, CloseInTest, TeardownFixtures, CloseConnection
    <2>2. run' = run /\ (phase = "between" => phase' = "between")
      BY <1>3 DEF Shuts, CloseInTest, TeardownFixtures, CloseConnection, pytest
    <2>3. Len(connections') = Len(connections) /\ Kept
      BY <2>1, Closes DEF Kept
    <2>4. QED  BY <2>2, <2>3, <1>a
  <1>4. ASSUME NEW th \in Threads, NEW d \in Patched, Wrap(th, d)
        PROVE  RunGoesOn
    <2>1. /\ Len(connections') = Len(connections) + 1
          /\ \A k \in 1 .. Len(connections) : connections'[k] = connections[k]
          /\ connections'[Len(connections) + 1]
               = Connection(called[th], session_obj[th], item[th], d, 0)
      BY <1>4, Wraps
    <2>2. OnItsOwn(Len(connections) + 1)
      <3>1. LET c == Connection(called[th], session_obj[th], item[th], d, 0)
            IN c.inner = 0 /\ c.run = called[th] /\ c.late = (called[th] # run \/ phase = "between")
        BY DEF Connection
      <3>2. QED  BY <2>1, <3>1 DEF OnItsOwn
    <2>3. UNCHANGED <<run, phase>>
      BY <1>4 DEF Wrap, pytest
    <2>4. QED  BY <2>1, <2>2, <2>3, <1>c
  <1>5. ASSUME NEW d \in Explicit, AdbcConnect(d)
        PROVE  RunGoesOn
    <2>1. /\ Len(connections') = Len(connections) + 1
          /\ \A k \in 1 .. Len(connections) : connections'[k] = connections[k]
          /\ connections'[Len(connections) + 1] = Connection(run, "full", running, d, 0)
      BY <1>5, AdbcConnects
    <2>2. OnItsOwn(Len(connections) + 1)
      <3>1. LET c == Connection(run, "full", running, d, 0)
            IN c.inner = 0 /\ c.run = run /\ c.late = (run # run \/ phase = "between")
        BY DEF Connection
      <3>2. QED  BY <2>1, <3>1 DEF OnItsOwn
    <2>3. UNCHANGED <<run, phase>>
      BY <1>5 DEF AdbcConnect, pytest
    <2>4. QED  BY <2>1, <2>2, <2>3, <1>c
  <1>6. ASSUME NEW k \in InHand, Clone(k)
        PROVE  RunGoesOn
    <2>1. /\ Len(connections') = Len(connections) + 1
          /\ \A j \in 1 .. Len(connections) : connections'[j] = connections[j]
          /\ LikeOne(Len(connections) + 1)
      BY <1>6, Clones DEF LikeOne
    <2>2. UNCHANGED <<run, phase>>
      BY <1>6 DEF Clone, pytest
    <2>3. QED  BY <2>1, <2>2, <1>c
  <1>7. QED
    BY <1>1, <1>2, <1>3, <1>4, <1>5, <1>6 DEF Next, Finished, Shuts

(* The recording step: its cassette gets one more recording of this run,   *)
(* and loses none, for in 'all' its state has been wiped before.           *)
LEMMA QueryRecords ==
    ASSUME TypesInv, OneStatePerCassette, RecordsInv, NEW k \in InHand, Query(k)
    PROVE  WipeRemembered' /\ RecordsWhatItAsks'
  <1>. DEFINE id   == connections[k].state
              path == CassettePath(connections[k].test, connections[k].driver)
              kept == Remaining(states[id], cassettes[path])
              new  == [run |-> run, session |-> connections[k].session]
  <1>0. /\ k \in 1 .. Len(connections) /\ connections[k].run = run
        /\ path \in Cassettes /\ id \in 1 .. Len(states)
        /\ UNCHANGED <<mode, run, connections>>
        /\ phase = "running" /\ run \in Nat /\ run > 0
    <2>1. phase = "running"
      BY DEF Query
    <2>2. run \in Nat /\ run > 0
      BY <2>1 DEF TypesInv, HooksTyped
    <2>3. connections[k].run = run
      BY DEF InHand, InThisRun
    <2>4. QED  BY <2>1, <2>2, <2>3, QueryTypes DEF pytest
  <1>1. ~connections[k].late /\ connections[k].inner = 0
    BY <1>0 DEF RecordsInv, LateIsOver, NoneInside
  <1>2. CASE UNCHANGED <<cassettes, recorded>>
    BY <1>0, <1>2, NothingRecorded DEF Next
  <1>3. CASE /\ cassettes' = [cassettes EXCEPT ![path] =
                                kept \o [n \in 1 .. Layers(k) |-> new]]
             /\ recorded' = [recorded EXCEPT ![path] = @ + 1]
    <2>1. Layers(k) = 1
      BY <1>1 DEF Layers
    <2>2. kept \in Seq(Recs(run)) /\ new.run = run
      BY Recordings
    <2>3. \A p \in Cassettes : /\ cassettes[p] \in Seq(Recs(run)) /\ recorded[p] \in Nat
                               /\ Cardinality(OfThisRun(cassettes[p])) = recorded[p]
      BY DEF TypesInv, CassettesTyped, RecordsInv, RecordsWhatItAsks, OfThisRun
    <2>4. DOMAIN cassettes = Cassettes /\ DOMAIN recorded = Cassettes
      BY DEF TypesInv, CassettesTyped
    (* The connection that remembers the wipe has the state of this one. *)
    <2>5. ASSUME recorded[path] > 0, mode = "all"
          PROVE  states[id].wiped
      <3>1. PICK j \in 1 .. Len(connections) :
              /\ connections[j].run = run /\ ~connections[j].late
              /\ path = CassettePath(connections[j].test, connections[j].driver)
              /\ states[connections[j].state].wiped
        BY <1>0, <2>5 DEF RecordsInv, WipeRemembered
      <3>2. connections[j].driver = connections[k].driver
        BY <3>1 DEF CassettePath
      <3>3. connections[j].state = connections[k].state
        BY <3>1, <3>2, <1>0, <1>1 DEF OneStatePerCassette
      <3>4. QED  BY <3>1, <3>3
    <2>6. Cardinality(OfThisRun(kept)) = recorded[path]
      <3>1. CASE MustWipe(states[id])
        <4>1. recorded[path] = 0
          BY <3>1, <2>3, <2>5, <1>0 DEF MustWipe
        <4>2. kept = <<>>
          BY <3>1 DEF Remaining
        <4>3. OfThisRun(<<>>) = {}
          BY DEF OfThisRun
        <4>. HIDE DEF kept
        <4>4. QED  BY <4>1, <4>2, <4>3, FS_EmptySet
      <3>2. CASE ~MustWipe(states[id])
        BY <3>2, <2>3, <1>0 DEF Remaining
      <3>3. QED  BY <3>1, <3>2
    <2>. HIDE DEF kept, new, path, id
    <2>7. /\ Cardinality(OfThisRun(cassettes'[path])) = recorded[path] + 1
          /\ \A p \in Cassettes \ {path} : cassettes'[p] = cassettes[p]
      BY <1>0, <1>3, <2>1, <2>2, <2>4, <2>6, OneMore
    <2>8. /\ recorded'[path] = recorded[path] + 1
          /\ \A p \in Cassettes \ {path} : recorded'[p] = recorded[p]
      BY <1>0, <1>3, <2>4
    <2>9. RecordsWhatItAsks'
      <3>1. \A p \in Cassettes : Cardinality(OfThisRun(cassettes'[p])) = recorded'[p]
        BY <2>3, <2>7, <2>8
      <3>2. Cassettes' = Cassettes /\ run' = run
        BY <1>0 DEF Cassettes
      <3>3. QED  BY <3>1, <3>2 DEF RecordsWhatItAsks, OfThisRun
    <2>10. mode = "all" => states'[id].wiped
      BY QueryWipes DEF id
    <2>11. WipeRemembered'
      <3>. SUFFICES ASSUME NEW p \in Cassettes, recorded'[p] > 0, mode = "all"
                    PROVE  \E j \in 1 .. Len(connections) :
                             /\ connections[j].run = run /\ ~connections[j].late
                             /\ p = CassettePath(connections[j].test, connections[j].driver)
                             /\ states'[connections[j].state].wiped
        BY <1>0 DEF WipeRemembered, Cassettes, CassettePath
      <3>1. CASE p = path
        BY <3>1, <2>10, <1>0, <1>1 DEF path, id
      <3>2. CASE p # path
        <4>1. recorded[p] > 0
          BY <3>2, <2>8
        <4>2. PICK j \in 1 .. Len(connections) :
                /\ connections[j].run = run /\ ~connections[j].late
                /\ p = CassettePath(connections[j].test, connections[j].driver)
                /\ states[connections[j].state].wiped
          BY <4>1 DEF RecordsInv, WipeRemembered
        <4>3. connections[j].state \in 1 .. Len(states)
          BY ConnectionFields
        <4>4. states'[connections[j].state].wiped
          BY <4>2, <4>3, WipedStays DEF Next
        <4>5. QED  BY <4>2, <4>4
      <3>3. QED  BY <3>1, <3>2
    <2>12. QED  BY <2>9, <2>11
  <1>4. QED
    <2>. HIDE DEF kept, new, path, id
    <2>1. QED  BY Zenon, <1>2, <1>3, Recordings DEF kept, new, path, id

LEMMA RecordsStep ==
    ASSUME Patched \cap Explicit = {}, TypesInv, OneStatePerCassette, RecordsInv, [Next]_vars
    PROVE  RecordsInv'
  <1>1. ASSUME NEW t \in Tests, StartTest(t)
        PROVE  RecordsInv'
    <2>1. /\ UNCHANGED <<connections, cassettes>> /\ run' = run + 1 /\ run \in Nat
          /\ recorded' = [p \in Cassettes |-> 0]
      BY <1>1 DEF StartTest, TypesInv, HooksTyped
    <2>2. NoneInside' /\ LateIsOver'
      <3>1. \A k \in 1 .. Len(connections) : connections[k].run # run + 1
        BY <2>1, ConnectionFields
      <3>2. QED  BY <2>1, <3>1 DEF RecordsInv, NoneInside, LateIsOver
    <2>3. WipeRemembered'
      BY <2>1 DEF WipeRemembered, Cassettes
    <2>4. RecordsWhatItAsks'
      <3>1. ASSUME NEW p \in Cassettes
            PROVE  {n \in 1 .. Len(cassettes[p]) : cassettes[p][n].run = run + 1} = {}
        <4>1. cassettes[p] \in Seq(Recs(run))
          BY DEF TypesInv, CassettesTyped
        <4>2. \A n \in 1 .. Len(cassettes[p]) : cassettes[p][n] \in Recs(run)
          BY <4>1, ElementOfSeq
        <4>3. \A r \in Recs(run) : r.run # run + 1
          BY <2>1 DEF Recs
        <4>4. QED  BY <4>2, <4>3
      <3>2. \A p \in Cassettes :
              {n \in 1 .. Len(cassettes[p]) : cassettes[p][n].run = run + 1 /\ run + 1 > 0} = {}
        BY <3>1
      <3>3. QED  BY <2>1, <3>2, FS_EmptySet DEF RecordsWhatItAsks, Cassettes
    <2>5. QED  BY <2>2, <2>3, <2>4 DEF RecordsInv
  <1>2. CASE \A t \in Tests : ~StartTest(t)
    <2>1. NoneInside' /\ LateIsOver'
      BY <1>2, WhileRunGoesOn
         DEF RecordsInv, NoneInside, LateIsOver, RunGoesOn, LikeOne, OnItsOwn
    <2>2. CASE \E k \in InHand : Query(k)
      BY <2>1, <2>2, QueryRecords DEF RecordsInv
    <2>3. CASE \A k \in InHand : ~Query(k)
      <3>1. UNCHANGED <<cassettes, recorded, run, mode>>
        <4>1. CASE UNCHANGED vars
          BY <4>1 DEF vars, pytest, history
        <4>2. ASSUME NEW th \in Threads,
                     \/ CallConnect(th) \/ ReadSession(th) \/ Register(th)
                     \/ \E d \in Patched : Wrap(th, d) \/ ConnectFails(th, d)
              PROVE  UNCHANGED <<cassettes, recorded, run, mode>>
          BY <4>2 DEF CallConnect, ReadSession, Register, Wrap, ConnectFails, pytest, history
        <4>3. ASSUME \/ \E d \in Explicit : AdbcConnect(d)
                     \/ \E k \in InHand : Clone(k)
                     \/ RequestFixture \/ ClearItem \/ PopConnections \/ ReleaseTest \/ Shuts
              PROVE  UNCHANGED <<cassettes, recorded, run, mode>>
          BY <4>3 DEF AdbcConnect, Clone, RequestFixture, ClearItem, PopConnections,
             ReleaseTest, Shuts, CloseInTest, TeardownFixtures, CloseConnection,
             pytest, history
        <4>4. QED
          BY <1>2, <2>3, <4>1, <4>2, <4>3 DEF Next, Finished, Shuts
      <3>2. QED  BY <2>1, <3>1, NothingRecorded DEF RecordsInv
    <2>4. QED  BY <2>2, <2>3
  <1>3. QED  BY <1>1, <1>2

LEMMA RecordsInit == Init => RecordsInv
  <1>. SUFFICES ASSUME Init PROVE RecordsInv
    OBVIOUS
  <1>1. NoneInside /\ LateIsOver /\ WipeRemembered
    BY DEF Init, NoneInside, LateIsOver, WipeRemembered
  <1>2. run = 0 /\ \A p \in Cassettes : recorded[p] = 0
    BY DEF Init
  <1>3. \A p \in Cassettes :
          {n \in 1 .. Len(cassettes[p]) : cassettes[p][n].run = run /\ run > 0} = {}
    BY <1>2
  <1>4. QED  BY <1>1, <1>2, <1>3, FS_EmptySet DEF RecordsInv, RecordsWhatItAsks

(* Of the queries that a test has had to record each is in its cassette,   *)
(* once, to the end of the test, from whichever of its threads and         *)
(* connections it was asked: none is wiped by another connection's first   *)
(* query (_cursor.py:186-192).                                             *)
THEOREM QueriesAreRecorded ==
    ASSUME FixtureFirst, Patched \cap Explicit = {}
    PROVE  Spec => []RecordsWhatItAsks
  <1>1. TypesInv /\ SharingInv /\ [Next]_vars => TypesInv' /\ SharingInv'
    BY TypesStep, SharingStep, ThreadsOfTestStep DEF SharingInv
  <1>2. TypesInv /\ SharingInv /\ RecordsInv /\ [Next]_vars => RecordsInv'
    BY RecordsStep DEF SharingInv, Sharing
  <1>3. RecordsInv => RecordsWhatItAsks
    BY DEF RecordsInv
  <1>4. QED  BY TypesInit, SharingInit, RecordsInit, <1>1, <1>2, <1>3, PTL DEF Spec
=============================================================================
