--------------------------- MODULE AesCore_proofs ---------------------------
(***************************************************************************)
(* Proofs about AesCore, for every set of keys and messages.               *)
(***************************************************************************)
EXTENDS AesCore, TLAPS

USE DEF Halted, key_expansion, finished, mc_inv, r

(***************************************************************************)
(* Terms and operations.                                                   *)
(***************************************************************************)

\* Applying an operation to a term gives a term of the same source.
LEMMA ApplyType ==
  ASSUME NEW v \in Term, NEW o \in Op
  PROVE  Apply(v, o) \in Term /\ Apply(v, o).src = v.src
BY DEF Apply, Term

\* A freshly loaded value is a term.
LEMMA LoadedType ==
  ASSUME NEW m \in Msg \cup {Unknown}
  PROVE  Loaded(m) \in Term
<1>1. <<>> \in Seq(Op)
  OBVIOUS
<1>2. QED
  BY <1>1 DEF Loaded, Term

\* The four operations are operations.
LEMMA OpTypes ==
  /\ ISR \in Op /\ ISB \in Op /\ IMC \in Op
  /\ \A k \in Key \cup {Unknown}, n \in 0..10 : ARK(k, n) \in Op
BY DEF Op

\* addRoundKey is never given a round number above ten.
LEMMA RoundKeyType ==
  ASSUME TypeOK
  PROVE  /\ round[0] \in 0..10
         /\ ARK(RoundKey(round[0]), round[0]) \in Op
<1>1. round[0] \in 0..10
  BY DEF TypeOK, CountTotal
<1>2. RoundKey(round[0]) \in Key \cup {Unknown}
  BY DEF RoundKey, TypeOK
<1>3. QED
  BY <1>1, <1>2, OpTypes

\* MixColumns yields a term.
LEMMA MixColumnsType ==
  ASSUME TypeOK
  PROVE  MixColumns \in Term
<1>1. imc[0] \in Term
  BY DEF TypeOK
<1>2. Apply(imc[0], IMC) \in Term
  BY <1>1, ApplyType, OpTypes
<1>3. QED
  BY <1>2, LoadedType DEF MixColumns

\* So does the multiplexer before the message register.
LEMMA InstructionType ==
  ASSUME TypeOK
  PROVE  cur_instruction \in Term
<1> DEFINE ark == ARK(RoundKey(round[0]), round[0])
<1>1. cur_msg \in Term /\ isb \in Term
  BY DEF TypeOK
<1>2. Apply(cur_msg, ISR) \in Term
  BY <1>1, ApplyType, OpTypes
<1>3. Apply(cur_msg, ark) \in Term
  BY <1>1, ApplyType, RoundKeyType
<1>4. MixColumns \in Term
  BY MixColumnsType
<1>5. round[2] % 4 \in 0..3
  BY DEF TypeOK
<1>6. cur_instruction \in {Apply(cur_msg, ISR), isb, Apply(cur_msg, ark), MixColumns}
  BY <1>5 DEF cur_instruction
<1> HIDE DEF ark
<1>7. QED
  BY <1>1, <1>2, <1>3, <1>4, <1>6

(***************************************************************************)
(* The type invariant.                                                     *)
(***************************************************************************)

\* A counter that is within its total stays within it.
LEMMA CountType ==
  ASSUME TypeOK, NEW i \in 0..3, NEW add, NEW clear
  PROVE  Count(i, add, clear) \in 0..24 /\ Count(i, add, clear) <= CountTotal[i + 1]
BY DEF TypeOK, Count, CountTotal, KeyWait

\* A clock edge keeps the types of all the registers.
LEMMA EdgeType ==
  ASSUME TypeOK, NEW next \in 0..14, NEW add, NEW clear,
         NEW load \in {"none", "Key", "R0"}, Edge(next, add, clear, load)
  PROVE  /\ reset' \in BOOLEAN /\ start' \in BOOLEAN /\ key' \in Key /\ msg' \in Msg
         /\ state' \in 0..14
         /\ round' \in [0..3 -> 0..24]
         /\ \A i \in 0..3 : round'[i] <= CountTotal[i + 1]
         /\ cur_msg' \in Term /\ isb' \in Term /\ imc' \in [0..3 -> Term]
         /\ sub' \in [0..9 -> Key \cup {Unknown}]
<1>1. /\ reset' \in BOOLEAN /\ start' \in BOOLEAN /\ key' \in Key /\ msg' \in Msg
      /\ state' \in 0..14
  BY DEF Edge, TypeOK
<1>2. /\ round' \in [0..3 -> 0..24]
      /\ \A i \in 0..3 : round'[i] <= CountTotal[i + 1]
  BY CountType DEF Edge
<1>3. cur_msg' \in Term
  <2>1. Loaded(Unknown) \in Term /\ Loaded(msg) \in Term
    BY LoadedType DEF TypeOK
  <2>2. cur_msg' \in {Loaded(Unknown), cur_instruction, Loaded(msg), cur_msg}
    BY DEF Edge
  <2>3. QED
    BY <2>1, <2>2, InstructionType DEF TypeOK
<1>4. isb' \in Term
  BY <1>3, ApplyType, OpTypes DEF Edge
<1>5. imc' \in [0..3 -> Term]
  BY DEF Edge, TypeOK
<1>6. sub' \in [0..9 -> Key \cup {Unknown}]
  BY <1>1 DEF Edge
<1>7. QED
  BY <1>1, <1>2, <1>3, <1>4, <1>5, <1>6

\* So does the bookkeeping of the history variables.
LEMMA HistoryType ==
  ASSUME TypeOK, Begin \/ Continue, key' \in Key, msg' \in Msg
  PROVE  run' \in [key : Key, msg : Msg] /\ held' \in BOOLEAN
<1>1. CASE Begin
  BY <1>1 DEF Begin
<1>2. CASE Continue
  <2>1. held' \in BOOLEAN
    BY <1>2 DEF TypeOK, Continue
  <2>2. QED
    BY <1>2, <2>1 DEF TypeOK, Continue
<1>3. QED
  BY <1>1, <1>2

\* Every step is a clock edge of some kind and one of the two bookkeepings.
LEMMA NextIsEdge ==
  ASSUME TypeOK, Next
  PROVE  /\ \E next \in 0..14, load \in {"none", "Key", "R0"} :
              \E add, clear \in SUBSET (0..3) : Edge(next, add, clear, load)
         /\ Begin \/ Continue
<1>1. CASE Wait
  BY <1>1 DEF Wait
<1>2. CASE ExpandKey
  BY <1>2 DEF ExpandKey
<1>3. CASE FirstRound
  BY <1>3 DEF FirstRound
<1>4. ASSUME NEW k \in 1..10, Round(k)
      PROVE  /\ \E next \in 0..14, load \in {"none", "Key", "R0"} :
                  \E add, clear \in SUBSET (0..3) : Edge(next, add, clear, load)
             /\ Begin \/ Continue
  BY <1>4 DEF Round
<1>5. CASE InvMix
  BY <1>5 DEF InvMix
<1>6. CASE Finish
  BY <1>6 DEF Finish
<1>7. QED
  BY <1>1, <1>2, <1>3, <1>4, <1>5, <1>6 DEF Next

\* Type correctness: in particular the counters never pass their totals.
THEOREM TypeCorrect == Spec => []TypeOK
<1>1. Init => TypeOK
  <2> SUFFICES ASSUME Init PROVE TypeOK
    OBVIOUS
  <2>1. Loaded(Unknown) \in Term
    BY LoadedType
  <2>2. \A i \in 0..3 : round[i] <= CountTotal[i + 1]
    BY DEF Init, CountTotal, KeyWait
  <2>3. run \in [key : Key, msg : Msg]
    BY DEF Init
  <2>4. round \in [0..3 -> 0..24] /\ sub \in [0..9 -> Key \cup {Unknown}]
    BY DEF Init
  <2>5. cur_msg \in Term /\ isb \in Term /\ imc \in [0..3 -> Term]
    BY <2>1 DEF Init
  <2>6. reset \in BOOLEAN /\ start \in BOOLEAN /\ held \in BOOLEAN
    BY Zenon DEF Init
  <2>7. key \in Key /\ msg \in Msg /\ state \in 0..14
    BY DEF Init
  <2>8. QED
    BY <2>2, <2>3, <2>4, <2>5, <2>6, <2>7 DEF TypeOK
<1>2. TypeOK /\ [Next]_vars => TypeOK'
  <2> SUFFICES ASSUME TypeOK, [Next]_vars PROVE TypeOK'
    OBVIOUS
  <2>1. CASE Next
    <3>1. PICK next \in 0..14, load \in {"none", "Key", "R0"},
               add \in SUBSET (0..3), clear \in SUBSET (0..3) :
               Edge(next, add, clear, load)
      BY <2>1, NextIsEdge
    <3>2. run' \in [key : Key, msg : Msg] /\ held' \in BOOLEAN
      BY <2>1, <3>1, EdgeType, NextIsEdge, HistoryType
    <3>3. QED
      BY <3>1, <3>2, EdgeType DEF TypeOK
  <2>2. CASE UNCHANGED vars
    BY <2>2, SMTT(40) DEF vars, inputs, machine, TypeOK, Term, Op
  <2>3. QED
    BY <2>1, <2>2
<1>3. QED
  BY <1>1, <1>2, PTL DEF Spec

(***************************************************************************)
(* The control part: which counter values go with which state.             *)
(***************************************************************************)

\* A clock edge with RESET returns to Halted, where the invariant asks nothing.
LEMMA ResetStep ==
  ASSUME TypeOK, Next, reset
  PROVE  state' = Halted
BY NextIsEdge DEF Edge

LEMMA ControlStep ==
  ASSUME TypeOK, Control, Next
  PROVE  Control'
<1> USE DEF Control, Edge, Count, CountTotal, KeyWait
<1>1. CASE reset
  BY <1>1, ResetStep
<1>2. CASE ~reset /\ Wait
  BY <1>2 DEF Wait, TypeOK
<1>3. CASE ~reset /\ ExpandKey
  BY <1>3 DEF ExpandKey, TypeOK
<1>4. CASE ~reset /\ FirstRound
  BY <1>4 DEF FirstRound, TypeOK
<1>5. ASSUME ~reset, NEW k \in 1..10, Round(k)
      PROVE  Control'
  BY <1>5 DEF Round, TypeOK
<1>6. CASE ~reset /\ InvMix
  BY <1>6 DEF InvMix, TypeOK
<1>7. CASE ~reset /\ Finish
  BY <1>7 DEF Finish, TypeOK
<1>8. QED
  BY <1>1, <1>2, <1>3, <1>4, <1>5, <1>6, <1>7 DEF Next

(***************************************************************************)
(* The units: the S-box follows the register, and mc_inv gathers words of  *)
(* one block.                                                              *)
(***************************************************************************)

\* In mc_inv's last clock the multiplexer offers the whole mixed block.
LEMMA MixColumnsWhole ==
  ASSUME TypeOK, Control, Units, state = mc_inv, round[3] = 4
  PROVE  cur_instruction = Apply(cur_msg, IMC)
<1>1. \A w \in 0..3 : imc[w] = cur_msg
  BY DEF Units
<1>2. MixColumns = Apply(cur_msg, IMC)
  BY <1>1 DEF MixColumns
<1>3. round[2] = 3
  BY DEF Control
<1>4. QED
  BY <1>2, <1>3 DEF cur_instruction

\* In the other states that load the register it offers one operation more.
LEMMA RoundInstruction ==
  ASSUME TypeOK, Units, state # Halted, round[2] \in 0..2
  PROVE  /\ round[2] = 0 => cur_instruction = Apply(cur_msg, ISR)
         /\ round[2] = 1 => cur_instruction = Apply(cur_msg, ISB)
         /\ round[2] = 2 =>
              cur_instruction = Apply(cur_msg, ARK(RoundKey(round[0]), round[0]))
<1>1. isb = Apply(cur_msg, ISB)
  BY DEF Units
<1>2. CASE round[2] = 0
  BY <1>2 DEF cur_instruction
<1>3. CASE round[2] = 1
  BY <1>1, <1>3 DEF cur_instruction
<1>4. CASE round[2] = 2
  BY <1>4 DEF cur_instruction
<1>5. QED
  BY <1>2, <1>3, <1>4

\* What the message register becomes, state by state.
LEMMA RegisterStep ==
  ASSUME TypeOK, Control, Units, Next, ~reset
  PROVE  /\ state = key_expansion =>
              cur_msg' = IF round[1] = KeyWait THEN cur_msg ELSE Loaded(msg)
         /\ state = r(0) =>
              cur_msg' = IF round[2] = 2 THEN Apply(cur_msg, ARK(RoundKey(0), 0))
                                         ELSE cur_msg
         /\ \A k \in 1..10 : state = r(k) =>
              cur_msg' = CASE round[2] = 0 -> Apply(cur_msg, ISR)
                           [] round[2] = 1 -> Apply(cur_msg, ISB)
                           [] round[2] = 2 -> Apply(cur_msg, ARK(RoundKey(k), k))
                           [] round[2] = 3 -> cur_msg
         /\ state = mc_inv =>
              cur_msg' = IF round[3] = 4 THEN Apply(cur_msg, IMC) ELSE cur_msg
         /\ state = finished => cur_msg' = cur_msg
<1>1. CASE Wait
  BY <1>1 DEF Wait
<1>2. CASE ExpandKey
  BY <1>2 DEF ExpandKey, Edge
<1>3. CASE FirstRound
  <2>1. round[2] = 2 => round[0] = 0
    BY <1>3 DEF FirstRound, Control
  <2>2. round[2] = 2 => cur_instruction = Apply(cur_msg, ARK(RoundKey(0), 0))
    BY <1>3, <2>1, RoundInstruction DEF FirstRound
  <2>3. QED
    BY <1>3, <2>2 DEF FirstRound, Edge
<1>4. ASSUME NEW k \in 1..10, Round(k)
      PROVE  cur_msg' = CASE round[2] = 0 -> Apply(cur_msg, ISR)
                          [] round[2] = 1 -> Apply(cur_msg, ISB)
                          [] round[2] = 2 -> Apply(cur_msg, ARK(RoundKey(k), k))
                          [] round[2] = 3 -> cur_msg
  <2>1. state = r(k) /\ round[2] \in 0..3 /\ round[0] = k
    BY <1>4 DEF Round, Control
  <2>2. round[2] = 3 => cur_msg' = cur_msg
    BY <1>4 DEF Round, Edge
  <2>3. round[2] # 3 => cur_msg' = cur_instruction
    BY <1>4 DEF Round, Edge
  <2>4. QED
    BY <2>1, <2>2, <2>3, RoundInstruction
<1>5. CASE InvMix
  BY <1>5, MixColumnsWhole DEF InvMix, Edge
<1>6. CASE Finish
  BY <1>6 DEF Finish, Edge
<1>7. /\ state = key_expansion => ExpandKey
      /\ state = r(0) => FirstRound
      /\ \A k \in 1..10 : state = r(k) => Round(k)
      /\ state = mc_inv => InvMix
      /\ state = finished => Finish
  BY DEF Next, Wait, ExpandKey, FirstRound, Round, InvMix, Finish
<1>8. QED
  BY <1>2, <1>3, <1>4, <1>5, <1>6, <1>7

LEMMA UnitsStep ==
  ASSUME TypeOK, Control, Units, Next
  PROVE  Units'
<1>1. CASE reset
  BY <1>1, ResetStep DEF Units
<1>2. CASE ~reset
  <2>1. isb' = Apply(cur_msg', ISB)
    BY NextIsEdge DEF Edge
  <2>2. state' = mc_inv => \A w \in 0..3 : w < round'[3] => imc'[w] = cur_msg'
    <3>1. CASE InvMix /\ round[3] # 4
      <4>1. round[3] \in 0..3 /\ round'[3] = round[3] + 1
        BY <3>1 DEF InvMix, Edge, Count, CountTotal, TypeOK
      <4>2. imc' = [imc EXCEPT ![round[3]] = cur_msg] /\ cur_msg' = cur_msg
        BY <1>2, <3>1, <4>1 DEF InvMix, Edge
      <4>3. \A w \in 0..3 : w < round[3] => imc[w] = cur_msg
        BY <3>1 DEF InvMix, Units
      <4>4. QED
        BY <4>1, <4>2, <4>3 DEF TypeOK
    <3>2. CASE InvMix /\ round[3] = 4
      BY <1>2, <3>2 DEF InvMix, Edge, Control
    <3>3. ASSUME NEW k \in 1..10, Round(k), state' = mc_inv
          PROVE  round'[3] = 0
      BY <1>2, <3>3 DEF Round, Edge, Count
    <3>4. CASE Wait \/ ExpandKey \/ FirstRound \/ Finish
      BY <1>2, <3>4 DEF Wait, ExpandKey, FirstRound, Finish, Edge
    <3>5. QED
      BY <3>1, <3>2, <3>3, <3>4 DEF Next
  <2>3. state' # Halted =>
          (state' = key_expansion /\ round'[1] = 0) \/ cur_msg'.src \in Msg
    <3> SUFFICES ASSUME state' # Halted, ~(state' = key_expansion /\ round'[1] = 0)
                 PROVE  cur_msg'.src \in Msg
      OBVIOUS
    <3>1. CASE Wait
      BY <1>2, <3>1 DEF Wait, Edge, Count
    <3>2. CASE ExpandKey
      <4>1. state = key_expansion
        BY <3>2 DEF ExpandKey
      <4>2. CASE round[1] = KeyWait
        BY <1>2, <4>1, <4>2, RegisterStep DEF Units, KeyWait
      <4>3. CASE round[1] # KeyWait
        BY <1>2, <4>1, <4>3, RegisterStep DEF TypeOK, Loaded
      <4>4. QED
        BY <4>2, <4>3
    <3>3. CASE ~Wait /\ ~ExpandKey
      <4>1. state \notin {Halted, key_expansion}
        BY <3>3 DEF Next, FirstRound, Round, InvMix, Finish
      <4>2. cur_msg.src \in Msg
        BY <4>1 DEF Units
      <4>3. cur_msg'.src = cur_msg.src
        <5>1. CASE state = r(0)
          BY <1>2, <5>1, RegisterStep DEF Apply
        <5>2. ASSUME NEW k \in 1..10, state = r(k)
              PROVE  cur_msg'.src = cur_msg.src
          <6>1. round[2] \in 0..3
            BY <5>2 DEF Control
          <6>2. QED
            BY <1>2, <5>2, <6>1, RegisterStep DEF Apply
        <5>3. CASE state = mc_inv
          BY <1>2, <5>3, RegisterStep DEF Apply
        <5>4. CASE state = finished
          BY <1>2, <5>4, RegisterStep
        <5>5. QED
          BY <4>1, <5>1, <5>2, <5>3, <5>4 DEF TypeOK
      <4>4. QED
        BY <4>2, <4>3
    <3>4. QED
      BY <3>1, <3>2, <3>3
  <2>4. QED
    BY <2>1, <2>2, <2>3, SMTT(40) DEF Units
<1>3. QED
  BY <1>1, <1>2

(***************************************************************************)
(* The key schedule: while the key is held, each falling edge settles one  *)
(* stage more, and what has settled stays so.                              *)
(***************************************************************************)

\* How the history and the schedule go on in a clock that is not the first.
LEMMA HeldStep ==
  ASSUME TypeOK, KeyProgress, Next, ~reset, state # Halted, held', Computing'
  PROVE  /\ held /\ run' = run /\ key' = run.key
         /\ Computing => key' = key
<1>1. Continue
  BY DEF Next, Wait, ExpandKey, FirstRound, Round, InvMix, Finish
<1>2. held /\ run' = run /\ key' = run.key
  BY <1>1 DEF Continue
<1>3. QED
  BY <1>2 DEF KeyProgress

LEMMA KeyStep ==
  ASSUME TypeOK, Control, KeyProgress, Next
  PROVE  KeyProgress'
<1> USE DEF Computing
<1>1. CASE reset
  BY <1>1, ResetStep DEF KeyProgress
<1>2. CASE ~reset /\ Wait
  <2> SUFFICES ASSUME held', Computing'
               PROVE  /\ key' = run'.key
                      /\ \A i \in 0..9 : (state' = key_expansion => i <= round'[1])
                                           => sub'[i] = key'
    BY DEF KeyProgress
  <2>1. start /\ Begin
    BY <1>2 DEF Wait, Edge
  <2>2. state' = key_expansion /\ round'[1] = 0
    BY <1>2, <2>1 DEF Wait, Edge, Count
  <2>3. sub'[0] = key'
    BY <1>2 DEF Wait, Edge
  <2>4. QED
    BY <2>1, <2>2, <2>3 DEF Begin
<1>3. CASE ~reset /\ ~Wait
  <2> SUFFICES ASSUME held', Computing'
               PROVE  /\ key' = run'.key
                      /\ \A i \in 0..9 : (state' = key_expansion => i <= round'[1])
                                           => sub'[i] = key'
    BY DEF KeyProgress
  <2>1. state # Halted
    BY <1>3, SMTT(40) DEF Next, ExpandKey, FirstRound, Round, InvMix, Finish
  <2>2. state # finished
    BY <1>3 DEF Next, ExpandKey, FirstRound, Round, InvMix, Finish, Edge
  <2>3. held /\ run' = run /\ key' = run.key /\ key' = key
    BY <1>3, <2>1, <2>2, HeldStep
  <2>4. \A j \in 0..9 : (state = key_expansion => j <= round[1]) => sub[j] = key
    BY <2>1, <2>2, <2>3 DEF KeyProgress
  <2>5. ASSUME NEW i \in 0..9, state' = key_expansion => i <= round'[1],
               NEW j \in 0..9, j < i
        PROVE  sub[j] = key
    <3>1. CASE state = key_expansion /\ round[1] # KeyWait
      <4>1. state' = key_expansion /\ round'[1] = round[1] + 1
        BY <1>3, <3>1 DEF Next, ExpandKey, FirstRound, Round, InvMix, Finish,
                          Edge, Count, CountTotal
      <4>2. QED
        BY <2>4, <2>5, <3>1, <4>1 DEF TypeOK
    <3>2. CASE state # key_expansion \/ round[1] = KeyWait
      BY <2>4, <3>2, SMTT(40) DEF KeyWait
    <3>3. QED
      BY <3>1, <3>2
  <2>6. ASSUME NEW i \in 0..9, state' = key_expansion => i <= round'[1]
        PROVE  sub'[i] = key'
    BY <2>3, <2>5, <2>6, NextIsEdge, ZenonT(60) DEF Edge
  <2>7. QED
    BY <2>3, <2>6
<1>4. QED
  BY <1>1, <1>2, <1>3

(***************************************************************************)
(* The message register: one operation of the inverse cipher after the     *)
(* other.                                                                  *)
(***************************************************************************)

\* The inverse cipher is built one operation at a time.
LEMMA PrefixStep ==
  ASSUME NEW k, NEW n \in Nat
  PROVE  Append(Prefix(k, n), OpAt(k, n + 1)) = Prefix(k, n + 1)
<1> DEFINE S == {OpAt(k, i) : i \in 1..(n + 1)}
<1>1. Prefix(k, n) \in Seq(S) /\ Len(Prefix(k, n)) = n
  BY DEF Prefix
<1>2. OpAt(k, n + 1) \in S
  OBVIOUS
<1> HIDE DEF S
<1>3. QED
  BY <1>1, <1>2 DEF Prefix

LEMMA PrefixEmpty ==
  ASSUME NEW k
  PROVE  Prefix(k, 0) = <<>>
BY DEF Prefix

\* One operation more, if it is the next one, is one position more.
LEMMA TermStep ==
  ASSUME NEW k, NEW m, NEW n \in Nat, NEW o, o = OpAt(k, n + 1)
  PROVE  Apply([src |-> m, ops |-> Prefix(k, n)], o) = [src |-> m, ops |-> Prefix(k, n + 1)]
BY PrefixStep DEF Apply

\* A clock after the message is loaded leaves the register alone, or takes it
\* one operation further, with what is then the round key.
LEMMA Advance ==
  ASSUME TypeOK, Control, Units, Next, ~reset,
         state \notin {Halted, key_expansion}, state' # Halted
  PROVE  \/ cur_msg' = cur_msg /\ Position' = Position
         \/ \E n \in 0..10 :
              /\ cur_msg' = Apply(cur_msg, OpAt(RoundKey(n), Position + 1))
              /\ Position' = Position + 1
<1> DEFINE Same == cur_msg' = cur_msg /\ Position' = Position
           OneMore(n) == /\ cur_msg' = Apply(cur_msg, OpAt(RoundKey(n), Position + 1))
                         /\ Position' = Position + 1
<1>1. CASE FirstRound
  <2>1. round[2] \in 0..2 /\ state = r(0) /\ Position = 0
    BY <1>1 DEF FirstRound, Control, Position
  <2>2. CASE round[2] = 2
    <3>1. state' = r(1) /\ round'[2] = 0
      BY <1>1, <2>2 DEF FirstRound, Edge, Count
    <3>2. Position' = 1
      BY <3>1 DEF Position
    <3>3. cur_msg' = Apply(cur_msg, ARK(RoundKey(0), 0))
      BY <2>1, <2>2, RegisterStep
    <3>4. OneMore(0)
      BY <2>1, <3>2, <3>3 DEF OpAt
    <3>5. QED
      BY <3>4
  <2>3. CASE round[2] # 2
    BY <1>1, <2>1, <2>3 DEF FirstRound, Edge, Position
  <2>4. QED
    BY <2>2, <2>3
<1>2. ASSUME NEW k \in 1..10, Round(k)
      PROVE  Same \/ \E n \in 0..10 : OneMore(n)
  <2>1. /\ state = r(k) /\ round[0] = k /\ round[2] \in 0..3
        /\ Position = 4 * k - 3 + round[2]
    BY <1>2 DEF Round, Control, Position
  <2>2. CASE round[2] = 3
    <3>1. cur_msg' = cur_msg
      BY <2>1, <2>2, RegisterStep
    <3>2. Position = 4 * k
      BY <2>1, <2>2
    <3>3. CASE k = 10
      <4>1. state' = finished
        BY <1>2, <2>2, <3>3 DEF Round, Edge
      <4>2. QED
        BY <3>1, <3>2, <3>3, <4>1 DEF Position
    <3>4. CASE k # 10
      <4>1. state' = mc_inv /\ round'[0] = k + 1
        BY <1>2, <2>1, <2>2, <3>4 DEF Round, Edge, Count, CountTotal
      <4>2. QED
        BY <3>1, <3>2, <4>1 DEF Position
    <3>5. QED
      BY <3>3, <3>4
  <2>3. CASE round[2] # 3
    <3>1. state' = r(k) /\ round'[2] = round[2] + 1
      BY <1>2, <2>1, <2>3 DEF Round, Edge, Count, CountTotal
    <3>2. Position' = Position + 1
      BY <2>1, <3>1 DEF Position
    <3>3. cur_msg' = Apply(cur_msg, OpAt(RoundKey(k), Position + 1))
      <4>1. CASE round[2] = 0
        <5>1. OpAt(RoundKey(k), 4 * k - 2) = ISR
          BY DEF OpAt
        <5>2. QED
          BY <2>1, <4>1, <5>1, RegisterStep
      <4>2. CASE round[2] = 1
        <5>1. OpAt(RoundKey(k), 4 * k - 1) = ISB
          BY DEF OpAt
        <5>2. QED
          BY <2>1, <4>2, <5>1, RegisterStep
      <4>3. CASE round[2] = 2
        <5>1. OpAt(RoundKey(k), 4 * k) = ARK(RoundKey(k), k)
          BY DEF OpAt
        <5>2. QED
          BY <2>1, <4>3, <5>1, RegisterStep
      <4>4. QED
        BY <2>1, <2>3, <4>1, <4>2, <4>3
    <3>4. k \in 0..10 /\ OneMore(k)
      BY <3>2, <3>3
    <3>5. QED
      BY <3>4
  <2>4. QED
    BY <2>2, <2>3
<1>3. CASE InvMix
  <2>1. /\ state = mc_inv /\ round[0] \in 2..10
        /\ Position = 4 * (round[0] - 1)
    BY <1>3 DEF InvMix, Control, Position
  <2>2. round'[0] = round[0]
    BY <1>3 DEF InvMix, Edge, Count
  <2>3. CASE round[3] = 4
    <3>1. state' = r(round[0]) /\ round'[2] = 0
      BY <1>3, <2>1, <2>3 DEF InvMix, Edge, Count
    <3>2. Position' = Position + 1
      BY <2>1, <3>1 DEF Position
    <3>3. OpAt(RoundKey(0), Position + 1) = IMC
      BY <2>1 DEF OpAt
    <3>4. cur_msg' = Apply(cur_msg, IMC)
      BY <2>1, <2>3, RegisterStep
    <3>5. OneMore(0)
      BY <3>2, <3>3, <3>4
    <3>6. QED
      BY <3>5
  <2>4. CASE round[3] # 4
    <3>1. cur_msg' = cur_msg /\ state' = mc_inv
      BY <1>3, <2>1, <2>4, RegisterStep DEF InvMix, Edge
    <3>2. QED
      BY <2>1, <2>2, <3>1 DEF Position
  <2>5. QED
    BY <2>3, <2>4
<1>4. CASE Finish
  BY <1>4 DEF Finish, Edge, Position
<1>5. QED
  BY <1>1, <1>2, <1>3, <1>4 DEF Next, Wait, ExpandKey

LEMMA MsgStep ==
  ASSUME TypeOK, Control, Units, KeyProgress, MsgProgress, Next
  PROVE  MsgProgress'
<1> DEFINE At(n) == [src |-> run.msg, ops |-> Prefix(run.key, n)]
<1>1. CASE reset
  BY <1>1, ResetStep DEF MsgProgress
<1>2. CASE ~reset /\ Wait
  <2>1. state' # Halted => Begin /\ state' = key_expansion /\ round'[1] = 0
    BY <1>2 DEF Wait, Edge, Count
  <2>2. QED
    BY <2>1 DEF MsgProgress, Begin
<1>3. CASE ~reset /\ ~Wait
  <2> SUFFICES ASSUME held', state' # Halted
               PROVE  /\ Loading' => msg' = run'.msg
                      /\ \/ state' = key_expansion /\ round'[1] = 0
                         \/ cur_msg' = [src |-> run'.msg, ops |-> Prefix(run'.key, Position')]
    BY DEF MsgProgress
  <2>1. Continue /\ state # Halted
    BY <1>3 DEF Next, ExpandKey, FirstRound, Round, InvMix, Finish
  <2>2. held /\ run' = run /\ (Loading' => msg' = run.msg)
    BY <2>1 DEF Continue
  <2>3. Computing => key = run.key /\ \A j \in 0..9 : state # key_expansion => sub[j] = key
    BY <2>2 DEF KeyProgress
  <2>4. \A n \in 0..10 : Computing /\ state # key_expansion => RoundKey(n) = run.key
    BY <2>3 DEF RoundKey, Settled
  <2>5. state # key_expansion => cur_msg = At(Position)
    BY <2>1, <2>2 DEF MsgProgress
  <2> HIDE DEF At
  <2>6. CASE state = key_expansion
    <3>1. ExpandKey
      BY <1>3, <2>6 DEF Next, FirstRound, Round, InvMix, Finish
    <3>2. CASE round[1] = KeyWait
      <4>1. cur_msg' = cur_msg /\ state' = r(0)
        BY <1>3, <3>1, <3>2 DEF ExpandKey, Edge
      <4>2. Position = 0 /\ Position' = 0
        BY <2>6, <4>1 DEF Position
      <4>3. cur_msg = [src |-> run.msg, ops |-> Prefix(run.key, 0)]
        BY <2>1, <2>2, <2>6, <3>2, <4>2 DEF MsgProgress, KeyWait
      <4>4. QED
        BY <2>2, <4>1, <4>2, <4>3 DEF Loading
    <3>3. CASE round[1] # KeyWait
      <4>1. cur_msg' = Loaded(msg) /\ state' = key_expansion
        BY <1>3, <3>1, <3>3 DEF ExpandKey, Edge
      <4>2. msg = run.msg
        BY <2>1, <2>2, <2>6, <3>3 DEF MsgProgress, Loading, TypeOK, CountTotal, KeyWait
      <4>3. Position' = 0
        BY <4>1 DEF Position
      <4>4. cur_msg' = [src |-> run.msg, ops |-> Prefix(run.key, 0)]
        BY <4>1, <4>2, PrefixEmpty DEF Loaded
      <4>5. QED
        BY <2>2, <4>3, <4>4
    <3>4. QED
      BY <3>2, <3>3
  <2>7. state # key_expansion => ~Loading'
    <3>1. CASE FirstRound \/ InvMix \/ Finish
      BY <1>3, <3>1 DEF FirstRound, InvMix, Finish, Edge, Loading
    <3>2. ASSUME NEW k \in 1..10, Round(k)
          PROVE  ~Loading'
      BY <1>3, <3>2 DEF Round, Edge, Loading
    <3>3. QED
      BY <1>3, <3>1, <3>2 DEF Next, ExpandKey
  <2>8. CASE state # key_expansion
    <3>1. Position \in Nat
      BY <2>8 DEF Position, TypeOK, Control
    <3>2. \/ cur_msg' = cur_msg /\ Position' = Position
          \/ /\ cur_msg' = Apply(cur_msg, OpAt(run.key, Position + 1))
             /\ Position' = Position + 1
      <4>1. CASE state = finished
        BY <1>3, <4>1 DEF Next, ExpandKey, FirstRound, Round, InvMix, Finish, Edge, Position
      <4>2. CASE state # finished
        BY <1>3, <2>1, <2>4, <2>8, <4>2, Advance DEF Computing
      <4>3. QED
        BY <4>1, <4>2
    <3>3. cur_msg' = At(Position')
      <4>1. CASE cur_msg' = cur_msg /\ Position' = Position
        BY <2>5, <2>8, <4>1
      <4>2. CASE /\ cur_msg' = Apply(cur_msg, OpAt(run.key, Position + 1))
                 /\ Position' = Position + 1
        BY <2>5, <2>8, <3>1, <4>2, TermStep DEF At
      <4>3. QED
        BY <3>2, <4>1, <4>2
    <3>4. QED
      BY <2>2, <2>7, <2>8, <3>3 DEF At
  <2>9. QED
    BY <2>6, <2>8
<1>4. QED
  BY <1>1, <1>2, <1>3

(***************************************************************************)
(* The sequence of operations, whatever the inputs do.                     *)
(***************************************************************************)

\* Which operation comes next does not depend on the key.
LEMMA ShapeStep ==
  ASSUME NEW ops \in Seq(Op), NEW n \in Nat, NEW c \in Key \cup {Unknown},
         Shape(ops) = Shape(Prefix(Unknown, n))
  PROVE  Shape(Append(ops, OpAt(c, n + 1))) = Shape(Prefix(Unknown, n + 1))
<1> DEFINE o == OpAt(c, n + 1)
<1>1. DOMAIN ops = 1..n
  <2>1. DOMAIN Shape(ops) = DOMAIN ops
    BY DEF Shape
  <2>2. DOMAIN Shape(Prefix(Unknown, n)) = 1..n
    BY DEF Shape, Prefix
  <2>3. QED
    BY <2>1, <2>2
<1>2. Len(ops) = n
  BY <1>1
<1>3. /\ DOMAIN Append(ops, o) = 1..(n + 1)
      /\ \A i \in 1..n : Append(ops, o)[i] = ops[i]
      /\ Append(ops, o)[n + 1] = o
  BY <1>2
<1>4. DOMAIN Prefix(Unknown, n) = 1..n /\ DOMAIN Prefix(Unknown, n + 1) = 1..(n + 1)
  BY DEF Prefix
<1>5. \A i \in 1..n : Prefix(Unknown, n + 1)[i] = Prefix(Unknown, n)[i]
  BY DEF Prefix
<1>6. /\ o.op = OpAt(Unknown, n + 1).op
      /\ o.op = "AddRoundKey" => o.round = OpAt(Unknown, n + 1).round
  BY DEF OpAt, ARK, ISR, ISB, IMC
<1> DEFINE Kind(x) == <<x.op, IF x.op = "AddRoundKey" THEN x.round ELSE 0>>
<1>7. \A i \in 1..n : Kind(ops[i]) = Kind(Prefix(Unknown, n)[i])
  <2>1. \A i \in 1..n : /\ Shape(ops)[i] = Kind(ops[i])
                        /\ Shape(Prefix(Unknown, n))[i] = Kind(Prefix(Unknown, n)[i])
    BY <1>1, <1>4 DEF Shape
  <2>2. QED
    BY <2>1
<1>8. Kind(o) = Kind(Prefix(Unknown, n + 1)[n + 1])
  <2>1. Prefix(Unknown, n + 1)[n + 1] = OpAt(Unknown, n + 1)
    BY DEF Prefix
  <2>2. QED
    BY <1>6, <2>1
<1> HIDE DEF o
<1>9. \A i \in 1..(n + 1) : Kind(Append(ops, o)[i]) = Kind(Prefix(Unknown, n + 1)[i])
  <2> SUFFICES ASSUME NEW i \in 1..(n + 1)
               PROVE  Kind(Append(ops, o)[i]) = Kind(Prefix(Unknown, n + 1)[i])
    OBVIOUS
  <2>1. CASE i = n + 1
    BY <1>3, <1>8, <2>1
  <2>2. CASE i # n + 1
    <3>1. i \in 1..n
      BY <2>2
    <3>2. QED
      BY <1>3, <1>5, <1>7, <3>1
  <2>3. QED
    BY <2>1, <2>2
<1>10. /\ Shape(Append(ops, o)) = [i \in 1..(n + 1) |-> Kind(Append(ops, o)[i])]
       /\ Shape(Prefix(Unknown, n + 1)) = [i \in 1..(n + 1) |-> Kind(Prefix(Unknown, n + 1)[i])]
  BY <1>3, <1>4 DEF Shape
<1>11. QED
  BY <1>9, <1>10 DEF o

\* The register goes through the whole sequence, in its order.
LEMMA ScheduleStep ==
  ASSUME TypeOK, TypeOK', Control, Units, ScheduleProgress, Next
  PROVE  ScheduleProgress'
<1> SUFFICES ASSUME state' # Halted, ~(state' = key_expansion /\ round'[1] = 0)
             PROVE  Shape(cur_msg'.ops) = Shape(Prefix(Unknown, Position'))
  BY DEF ScheduleProgress, Shape
<1>1. ~reset
  BY ResetStep
<1>2. ~Wait
  BY <1>1 DEF Wait, Edge, Count
<1>3. CASE state = key_expansion
  <2>1. ExpandKey
    BY <1>2, <1>3 DEF Next, FirstRound, Round, InvMix, Finish
  <2>2. Position = 0 /\ Position' = 0
    BY <1>1, <1>3, <2>1 DEF ExpandKey, Edge, Position
  <2>3. CASE round[1] = KeyWait
    BY <1>1, <1>3, <2>1, <2>2, <2>3 DEF ExpandKey, Edge, ScheduleProgress, KeyWait
  <2>4. CASE round[1] # KeyWait
    <3>1. cur_msg'.ops = <<>>
      BY <1>1, <2>1, <2>4 DEF ExpandKey, Edge, Loaded
    <3>2. QED
      BY <2>2, <3>1, PrefixEmpty
  <2>5. QED
    BY <2>3, <2>4
<1>4. CASE state # key_expansion
  <2>1. state # Halted
    BY <1>2, <1>4 DEF Next, ExpandKey, FirstRound, Round, InvMix, Finish
  <2>2. Shape(cur_msg.ops) = Shape(Prefix(Unknown, Position))
    BY <1>4, <2>1 DEF ScheduleProgress
  <2>3. CASE cur_msg' = cur_msg /\ Position' = Position
    BY <2>2, <2>3
  <2>4. ASSUME NEW n \in 0..10,
               cur_msg' = Apply(cur_msg, OpAt(RoundKey(n), Position + 1)),
               Position' = Position + 1
        PROVE  Shape(cur_msg'.ops) = Shape(Prefix(Unknown, Position'))
    <3>1. cur_msg.ops \in Seq(Op)
      BY DEF TypeOK, Term
    <3>2. Position \in Nat
      BY <1>4, <2>1 DEF Position, TypeOK, Control
    <3>3. RoundKey(n) \in Key \cup {Unknown}
      BY DEF RoundKey, TypeOK
    <3>4. cur_msg'.ops = Append(cur_msg.ops, OpAt(RoundKey(n), Position + 1))
      BY <2>4 DEF Apply
    <3>5. QED
      BY <2>2, <2>4, <3>1, <3>2, <3>3, <3>4, ShapeStep
  <2>5. QED
    BY <1>1, <1>4, <2>1, <2>3, <2>4, Advance
<1>5. QED
  BY <1>3, <1>4

(***************************************************************************)
(* The theorems.                                                           *)
(***************************************************************************)

\* The inductive invariant is one.
THEOREM Invariance == Spec => []Inv
<1>1. Init /\ TypeOK => Inv
  BY DEF Init, Inv, Control, Units, KeyProgress, MsgProgress, ScheduleProgress, Computing
<1>2. Inv /\ TypeOK' /\ [Next]_vars => Inv'
  <2> SUFFICES ASSUME Inv, TypeOK', [Next]_vars PROVE Inv'
    OBVIOUS
  <2>1. CASE Next
    BY <2>1, ControlStep, UnitsStep, KeyStep, MsgStep, ScheduleStep DEF Inv
  <2>2. CASE UNCHANGED vars
    <3>1. Control' /\ Units' /\ KeyProgress'
      BY <2>2 DEF vars, inputs, machine, Inv, Control, Units, KeyProgress, Computing
    <3>2. MsgProgress'
      BY <2>2 DEF vars, inputs, machine, Inv, MsgProgress, Loading, Position
    <3>3. ScheduleProgress'
      BY <2>2 DEF vars, inputs, machine, Inv, ScheduleProgress, Shape, Position
    <3>4. QED
      BY <3>1, <3>2, <3>3 DEF Inv
  <2>3. QED
    BY <2>1, <2>2
<1>3. QED
  BY <1>1, <1>2, TypeCorrect, PTL DEF Spec

\* A run whose inputs were held yields the decryption, for every key and message.
THEOREM Correctness == Spec => []ResultCorrect
<1>1. Inv => ResultCorrect
  BY DEF Inv, MsgProgress, ResultCorrect, AES_DONE, Position, Decrypt
<1>2. QED
  BY <1>1, Invariance, PTL

\* A run that ends has gone through the whole sequence, whatever its inputs did.
THEOREM WholeSchedule == Spec => []RunsWholeSchedule
<1>1. Inv => RunsWholeSchedule
  BY DEF Inv, ScheduleProgress, RunsWholeSchedule, AES_DONE, Position
<1>2. QED
  BY <1>1, Invariance, PTL

\* No block is ever put together from the words of two.
THEOREM WholeBlocks == Spec => []NoTornColumns
<1>1. Inv => NoTornColumns
  BY DEF Inv, Units, NoTornColumns, Loading, KeyWait
<1>2. QED
  BY <1>1, Invariance, PTL

\* mc_inv always knows which round comes next.
THEOREM ReturnsFromMix == Spec => []MixColumnsReturns
<1>1. Inv => MixColumnsReturns
  BY DEF Inv, Control, MixColumnsReturns
<1>2. QED
  BY <1>1, Invariance, PTL

(***************************************************************************)
(* How long a run takes.  The clocks a state has before it, state by state.*)
(***************************************************************************)
LEMMA ClocksAre ==
  ASSUME TypeOK
  PROVE  /\ state = key_expansion => ClocksLeft = RunLength - round[1]
         /\ state = r(0) => ClocksLeft = 88 - round[2]
         /\ \A k \in 1..10 : state = r(k) => ClocksLeft = 9 * (10 - k) + 4 - round[2]
         /\ state = mc_inv => ClocksLeft = 9 * (10 - round[0]) + 9 - round[3]
         /\ state \in {Halted, finished} => ClocksLeft = 0
BY DEF TypeOK, ClocksLeft

\* There are clocks left in a run, and none out of one.
LEMMA ClocksRange ==
  ASSUME TypeOK, Control
  PROVE  ClocksLeft \in Nat /\ (ClocksLeft = 0 <=> ~Computing)
BY SMTT(30) DEF TypeOK, Control, CountTotal, KeyWait, ClocksLeft, RunLength, Computing

\* Each clock of a run has one clock fewer before it.
LEMMA CountsDown ==
  ASSUME TypeOK, Control, Next
  PROVE  OnTime
<1> USE DEF Computing, AES_DONE
<1>1. round[1] \in 0..24 /\ round[3] \in 0..4
  BY DEF TypeOK, CountTotal, KeyWait
<1>2. ClocksLeft' = CASE state' = key_expansion -> RunLength - round'[1]
                      [] state' = r(0) -> 88 - round'[2]
                      [] state' \in r(1)..r(10) -> 9 * (r(10) - state') + 4 - round'[2]
                      [] state' = mc_inv -> 9 * (10 - round'[0]) + 9 - round'[3]
                      [] state' \in {Halted, finished} -> 0
  BY DEF ClocksLeft
<1>3. CASE ~reset /\ Wait
  <2>1. start => state' = key_expansion /\ round'[1] = 0
    BY <1>3 DEF Wait, Edge, Count
  <2> QED  BY <1>2, <1>3, <2>1 DEF Wait, OnTime, RunLength
<1>4. CASE ~reset /\ ExpandKey
  <2>1. state = key_expansion /\ ClocksLeft = 113 - round[1]
    BY <1>4, ClocksAre DEF ExpandKey, RunLength
  <2>2. CASE round[1] = 24
    <3>1. state' = r(0) /\ round'[2] = 0
      BY <1>4, <2>2 DEF ExpandKey, Edge, Count, KeyWait
    <3> QED  BY <1>1, <1>2, <2>1, <2>2, <3>1 DEF OnTime, RunLength
  <2>3. CASE round[1] # 24
    <3>1. state' = key_expansion /\ round'[1] = round[1] + 1
      BY <1>4, <2>3 DEF ExpandKey, Edge, Count, CountTotal, KeyWait
    <3> QED  BY <1>1, <1>2, <2>1, <2>3, <3>1 DEF OnTime, RunLength
  <2> QED  BY <2>2, <2>3
<1>5. CASE ~reset /\ FirstRound
  <2>1. state = r(0) /\ ClocksLeft = 88 - round[2] /\ round[2] \in 0..2
    BY <1>5, ClocksAre DEF FirstRound, Control
  <2>2. CASE round[2] = 2
    <3>1. state' = r(1) /\ round'[2] = 0
      BY <1>5, <2>2 DEF FirstRound, Edge, Count
    <3> QED  BY <1>2, <2>1, <2>2, <3>1 DEF OnTime, RunLength
  <2>3. CASE round[2] # 2
    <3>1. state' = r(0) /\ round'[2] = round[2] + 1
      BY <1>5, <2>1, <2>3 DEF FirstRound, Edge, Count, CountTotal
    <3> QED  BY <1>2, <2>1, <2>3, <3>1 DEF OnTime, RunLength
  <2> QED  BY <2>2, <2>3
<1>6. ASSUME ~reset, NEW k \in 1..10, Round(k) PROVE OnTime
  <2>1. /\ state = r(k) /\ ClocksLeft = 9 * (10 - k) + 4 - round[2]
        /\ round[2] \in 0..3 /\ round[3] = 0 /\ round[0] = k
    BY <1>6, ClocksAre DEF Round, Control
  <2>2. CASE round[2] = 3 /\ k = 10
    <3>1. state' = finished
      BY <1>6, <2>2 DEF Round, Edge
    <3> QED  BY <1>2, <2>1, <2>2, <3>1 DEF OnTime, RunLength
  <2>3. CASE round[2] = 3 /\ k # 10
    <3>1. state' = mc_inv /\ round'[3] = 0 /\ round'[0] = k + 1
      BY <1>6, <2>1, <2>3 DEF Round, Edge, Count, CountTotal
    <3> QED  BY <1>2, <2>1, <2>3, <3>1 DEF OnTime, RunLength
  <2>4. CASE round[2] # 3
    <3>1. state' = r(k) /\ round'[2] = round[2] + 1
      BY <1>6, <2>1, <2>4 DEF Round, Edge, Count, CountTotal
    <3> QED  BY <1>2, <2>1, <2>4, <3>1 DEF OnTime, RunLength
  <2> QED  BY <2>2, <2>3, <2>4
<1>7. CASE ~reset /\ InvMix
  <2>1. /\ state = mc_inv /\ ClocksLeft = 9 * (10 - round[0]) + 9 - round[3]
        /\ round[0] \in 2..10 /\ round[2] = 3
    BY <1>7, ClocksAre DEF InvMix, Control
  <2>2. CASE round[3] = 4
    <3>1. state' = r(round[0]) /\ round'[2] = 0
      BY <1>7, <2>1, <2>2 DEF InvMix, Edge, Count
    <3> QED  BY <1>2, <2>1, <2>2, <3>1 DEF OnTime, RunLength
  <2>3. CASE round[3] # 4
    <3>1. state' = mc_inv /\ round'[3] = round[3] + 1 /\ round'[0] = round[0]
      BY <1>7, <2>3 DEF InvMix, Edge, Count, CountTotal
    <3> QED  BY <1>1, <1>2, <2>1, <2>3, <3>1 DEF OnTime, RunLength
  <2> QED  BY <2>2, <2>3
<1>8. CASE ~reset /\ Finish
  BY <1>8 DEF Finish, OnTime
<1>9. CASE reset
  BY <1>9 DEF OnTime
<1> QED  BY <1>3, <1>4, <1>5, <1>6, <1>7, <1>8, <1>9 DEF Next

\* Out of a run, START decides whether the core goes on or stays.
LEMMA StartDecides ==
  ASSUME Next, ~reset
  PROVE  /\ state = Halted => state' = IF start THEN key_expansion ELSE Halted
         /\ state = finished => state' = IF start THEN Halted ELSE finished
BY DEF Next, Wait, ExpandKey, FirstRound, Round, InvMix, Finish, Edge

\* So, clock by clock: down to finished in a run, and by START out of one.
LEMMA ClockByClock ==
  ASSUME TypeOK, Control, Next, ~reset
  PROVE  /\ Computing => /\ ClocksLeft \in 1..RunLength /\ ClocksLeft' = ClocksLeft - 1
                         /\ IF ClocksLeft = 1 THEN state' = finished ELSE Computing'
         /\ state = Halted /\ start => Loading' /\ ClocksLeft' = RunLength
         /\ state = Halted /\ ~start => state' = Halted
         /\ state = finished => state' = IF start THEN Halted ELSE finished
<1>1. OnTime  BY CountsDown
<1>2. ClocksLeft' # 0 => Computing'
  BY DEF ClocksLeft, Computing
<1>3. state = Halted /\ start => Loading'
  BY DEF Next, Wait, ExpandKey, FirstRound, Round, InvMix, Finish, Edge, Count, Loading, KeyWait
<1> QED  BY <1>1, <1>2, <1>3, StartDecides DEF OnTime, AES_DONE, RunLength

(***************************************************************************)
(* A run of the core takes RunLength clocks, for any keys and messages,    *)
(* whatever the inputs do and whatever run was cut short before it         *)
(* (RunsOnTime).                                                           *)
(***************************************************************************)
THEOREM TimedRuns == Spec => RunsOnTime
<1>1. Inv /\ Next => OnTime
  BY CountsDown DEF Inv
<1> QED  BY <1>1, Invariance, PTL DEF Spec, RunsOnTime

(***************************************************************************)
(* Refinement: every clock of the core is a step of AesDevice.             *)
(***************************************************************************)
LEMMA DeviceStep ==
  ASSUME Inv, Inv', Next
  PROVE  Device!Next
<1> USE DEF Phase, AES_DONE
<1>0. TypeOK /\ TypeOK'
  BY DEF Inv
<1>1. CASE reset
  <2>1. state' = Halted
    BY <1>0, <1>1, ResetStep
  <2>2. Continue
    BY <1>1 DEF Next, Wait, ExpandKey, FirstRound, Round, InvMix, Finish
  <2>3. Phase' = "idle"
    BY <2>1
  <2>4. Device!Hold
    BY <2>1, <2>2, <2>3 DEF Device!Hold, Continue, Computing, Loading
  <2>5. QED
    BY <1>1, <2>3, <2>4 DEF Device!Next, Device!Abandon
<1>2. CASE ~reset /\ Wait
  <2>1. Phase = "idle"
    BY <1>2 DEF Wait
  <2>2. CASE start
    <3>1. state' = key_expansion /\ round'[1] = 0
      BY <1>2, <2>2 DEF Wait, Edge, Count
    <3>2. Phase' = "loading"
      BY <3>1 DEF Loading, KeyWait
    <3>3. QED
      BY <1>2, <2>1, <2>2, <3>2 DEF Wait, Begin, Device!Next, Device!Take
  <2>3. CASE ~start
    <3>1. state' = Halted /\ Continue
      BY <1>2, <2>3 DEF Wait, Edge
    <3>2. Device!Hold
      BY <3>1 DEF Device!Hold, Continue, Computing, Loading
    <3>3. QED
      BY <1>2, <2>1, <2>3, <3>1, <3>2 DEF Device!Next, Device!Rest
  <2>4. QED
    BY <2>2, <2>3
<1>3. CASE ~reset /\ Finish
  <2>1. state = finished /\ state' \in {Halted, finished} /\ Continue
    BY <1>3 DEF Finish, Edge
  <2>2. Phase = "done" /\ Phase' = IF state' = Halted THEN "idle" ELSE "done"
    BY <2>1 DEF Loading
  <2>3. Device!Hold
    BY <2>1, <2>2 DEF Device!Hold, Continue, Computing, Loading
  <2>4. CASE start
    BY <1>3, <2>2, <2>3, <2>4 DEF Finish, Edge, Device!Next, Device!Release
  <2>5. CASE ~start
    BY <1>3, <2>1, <2>2, <2>3, <2>5 DEF Finish, Edge, Device!Next, Device!Rest
  <2>6. QED
    BY <2>4, <2>5
<1>4. CASE ~reset /\ ~Wait /\ ~Finish
  <2>1. Continue /\ Computing
    BY <1>4 DEF Next, ExpandKey, FirstRound, Round, InvMix, Computing
  <2>2. Phase = IF Loading THEN "loading" ELSE "busy"
    BY <2>1 DEF Computing
  <2>3. /\ state' # Halted
        /\ state' = finished => ~Loading
        /\ Loading' => Loading
    <3>1. CASE ExpandKey
      <4>1. CASE round[1] = KeyWait
        BY <1>4, <3>1, <4>1 DEF ExpandKey, Edge, Loading
      <4>2. CASE round[1] # KeyWait
        <5>1. state = key_expansion /\ state' = key_expansion
          BY <1>4, <3>1, <4>2 DEF ExpandKey, Edge
        <5>2. Loading
          BY <1>0, <4>2, <5>1 DEF Loading, TypeOK, CountTotal, KeyWait
        <5>3. QED
          BY <5>1, <5>2
      <4>3. QED
        BY <4>1, <4>2
    <3>2. CASE FirstRound
      BY <1>4, <3>2 DEF FirstRound, Edge, Loading
    <3>3. ASSUME NEW k \in 1..10, Round(k)
          PROVE  <2>3
      BY <1>4, <3>3 DEF Round, Edge, Loading
    <3>4. CASE InvMix
      <4>1. state' = mc_inv \/ \E k \in 2..10 : state' = r(k)
        BY <1>4, <3>4 DEF InvMix, Edge
      <4>2. QED
        BY <4>1 DEF Loading
    <3>5. QED
      BY <1>4, <3>1, <3>2, <3>3, <3>4 DEF Next
  <2>6. Phase' = IF Loading' THEN "loading" ELSE IF state' = finished THEN "done" ELSE "busy"
    BY <2>3
  <2>7. Device!Hold
    BY <2>1, <2>3, <2>6 DEF Device!Hold, Continue, Computing, Loading
  <2>8. CASE state' = finished
    <3>1. Phase' = "done" /\ Phase = "busy"
      BY <2>2, <2>3, <2>8
    <3>2. held' => cur_msg' = Decrypt(run.key, run.msg)
      <4>1. Position' = 40
        BY <2>8 DEF Position
      <4>2. held' => cur_msg' = [src |-> run'.msg, ops |-> Prefix(run'.key, Position')]
        BY <2>8 DEF Inv, MsgProgress
      <4>3. run' = run
        BY <2>1 DEF Continue
      <4>4. QED
        BY <4>1, <4>2, <4>3 DEF Decrypt
    <3>3. cur_msg' \in Term
      BY <1>0 DEF TypeOK
    <3>4. QED
      BY <1>4, <2>7, <3>1, <3>2, <3>3 DEF Device!Next, Device!Complete
  <2>9. CASE state' # finished
    BY <1>4, <2>2, <2>3, <2>6, <2>7, <2>9 DEF Device!Next, Device!Work
  <2>10. QED
    BY <2>8, <2>9
<1>5. QED
  BY <1>1, <1>2, <1>3, <1>4

\* The core implements AesDevice: what AvalonAes takes it for, it is.
THEOREM Refinement == Spec => ImplementsDevice
<1>1. Init => Device!Init
  BY DEF Init, Device!Init, Phase
<1>2. Inv /\ Inv' /\ [Next]_vars => [Device!Next]_Device!vars
  <2>1. ASSUME Inv, Inv', Next PROVE Device!Next
    BY <2>1, DeviceStep
  <2>2. UNCHANGED vars => UNCHANGED Device!vars
    BY DEF vars, inputs, machine, Device!vars, Phase, Loading, AES_DONE
  <2>3. QED
    BY <2>1, <2>2
<1>3. QED
  BY <1>1, <1>2, Invariance, PTL DEF Spec, ImplementsDevice, Device!Spec
=============================================================================
