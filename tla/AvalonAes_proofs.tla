-------------------------- MODULE AvalonAes_proofs --------------------------
(***************************************************************************)
(* The registers of AvalonAes, for any set of words and any master: their  *)
(* types, and that what they publish is the result of one whole job.       *)
(***************************************************************************)
EXTENDS AvalonAes, TLAPS

USE WordAssumption

\* What one clock may do, with the write it comes with.
Transfer == [addr : 0..16, data : Word]

LEMMA NextIsClock ==
  ASSUME Next PROVE \E w \in Transfer : Clock(w)
<1>1. CASE Clock(NoWrite)
  <2>1. NoWrite \in Transfer  BY DEF NoWrite, Transfer
  <2> QED  BY <1>1, <2>1
<1>2. CASE \E a \in Addr, d \in Word : Clock(Write(a, d))
  <2>1. PICK a \in Addr, d \in Word : Clock(Write(a, d))  BY <1>2
  <2>2. Write(a, d) \in Transfer  BY DEF Write, Transfer, Addr
  <2> QED  BY <2>1, <2>2
<1> QED  BY <1>1, <1>2 DEF Next

LEMMA BlocksAreWords ==
  ASSUME TypeOK PROVE key_holder \in Blocks /\ msg_enc_holder \in Blocks
<1>1. \A n \in 0..3 : /\ 0 + n \in Addr \ (8..11) /\ reg_sys[0 + n] \in Word
                      /\ 4 + n \in Addr \ (8..11) /\ reg_sys[4 + n] \in Word
  BY DEF TypeOK, Addr
<1> QED  BY <1>1 DEF key_holder, msg_enc_holder, Block, Blocks

(***************************************************************************)
(* Type correctness, of the registers first.                               *)
(***************************************************************************)
LEMMA RegistersType ==
  ASSUME TypeOK, NEW w \in Transfer, Clock(w)
  PROVE  /\ DOMAIN reg_sys' = Addr
         /\ \A a \in Addr \ (8..11) : reg_sys'[a] \in Word
         /\ \A n \in 0..3 :
              reg_sys'[8 + n] \in Word \cup [block : Results(origin'.job), word : {n}]
<1>1. /\ DOMAIN reg_sys' = Addr
      /\ \A a \in Addr : reg_sys'[a] = IF aes_done_local /\ a = 15 THEN AllOnes
                                       ELSE IF aes_done_local /\ a \in 8..11
                                            THEN Part(result, a - 8)
                                       ELSE IF reset THEN Zero
                                       ELSE IF a = w.addr THEN w.data
                                       ELSE reg_sys[a]
  BY DEF Clock, Registers
<1>2. w.data \in Word  BY DEF Transfer
<1>3. ASSUME NEW a \in Addr \ (8..11) PROVE reg_sys'[a] \in Word
  BY <1>1, <1>2 DEF TypeOK
<1>4. ASSUME NEW n \in 0..3
      PROVE reg_sys'[8 + n] \in Word \cup [block : Results(origin'.job), word : {n}]
  <2>1. 8 + n \in Addr /\ 8 + n \in 8..11 /\ (8 + n) - 8 = n /\ 8 + n # 15  BY DEF Addr
  <2>2. CASE aes_done_local
    <3>1. origin'.job = job  BY <2>2 DEF Clock, Origin
    <3>2. reg_sys'[8 + n] = Part(result, n)  BY <1>1, <2>1, <2>2
    <3>3. Part(result, n) \in [block : Results(job), word : {n}]  BY DEF Part, TypeOK
    <3> QED  BY <3>1, <3>2, <3>3
  <2>3. CASE ~aes_done_local
    <3>1. origin'.job = origin.job  BY <2>3 DEF Clock, Origin, TypeOK
    <3>2. reg_sys[8 + n] \in Word \cup [block : Results(origin.job), word : {n}]
      BY DEF TypeOK
    <3> QED  BY <1>1, <1>2, <2>1, <2>3, <3>1, <3>2
  <2> QED  BY <2>2, <2>3
<1> QED  BY <1>1, <1>3, <1>4

LEMMA TypeStep ==
  ASSUME TypeOK, [Next]_vars PROVE TypeOK'
<1>1. CASE UNCHANGED vars
  BY <1>1 DEF TypeOK, vars, core
<1>2. CASE Next
  <2>1. PICK w \in Transfer : Clock(w)  BY <1>2, NextIsClock
  <2>2. /\ DOMAIN reg_sys' = Addr
        /\ \A a \in Addr \ (8..11) : reg_sys'[a] \in Word
        /\ \A n \in 0..3 :
             reg_sys'[8 + n] \in Word \cup [block : Results(origin'.job), word : {n}]
    BY <2>1, RegistersType
  <2>3. key_holder' \in Blocks /\ msg_enc_holder' \in Blocks
    <3>1. \A n \in 0..3 : /\ 0 + n \in Addr \ (8..11) /\ reg_sys'[0 + n] \in Word
                          /\ 4 + n \in Addr \ (8..11) /\ reg_sys'[4 + n] \in Word
      BY <2>2 DEF Addr
    <3> QED  BY <3>1 DEF key_holder, msg_enc_holder, Block, Blocks
  <2>4. phase' \in {"idle", "loading", "busy", "done"} /\ job' \in Jobs /\ held' \in BOOLEAN
    <3>1. Core!Next  BY <2>1 DEF Clock
    <3>2. CASE Core!Take  BY <2>3, <3>2 DEF Core!Take, Jobs
    <3>3. CASE Core!Hold /\ phase' \in {"idle", "loading", "busy", "done"}
      BY <3>3 DEF Core!Hold, TypeOK
    <3>4. CASE ~Core!Take
      <4>1. Core!Hold /\ phase' \in {"idle", "loading", "busy", "done"}
        BY <3>1, <3>4 DEF Core!Next, Core!Work, Core!Complete, Core!Rest, Core!Release,
                          Core!Abandon
      <4> QED  BY <3>3, <4>1
    <3> QED  BY <3>2, <3>4
  <2>5. result' \in Results(job')
    <3>1. CASE phase' # "done"
      BY <2>1, <3>1 DEF Clock, Results
    <3>2. CASE phase' = "done"
      <4>1. Core!Complete \/ (Core!Rest /\ result' = result)
        BY <2>1, <3>2
           DEF Clock, Core!Next, Core!Take, Core!Work, Core!Rest, Core!Release, Core!Abandon
      <4>2. job' = job /\ result' \in Results(job)
        BY <4>1 DEF Core!Complete, Core!Rest, Core!Hold, Results, TypeOK
      <4> QED  BY <4>2
    <3> QED  BY <3>1, <3>2
  <2>6. origin' \in [job : Jobs, held : BOOLEAN]
    BY <2>1 DEF Clock, Origin, TypeOK
  <2>7. reset' \in BOOLEAN  BY <2>1 DEF Clock
  <2> QED  BY <2>2, <2>4, <2>5, <2>6, <2>7 DEF TypeOK
<1> QED  BY <1>1, <1>2

(***************************************************************************)
(* The registers, the core's job and what is known of them keep their      *)
(* types, whatever is written at whatever clock (TypeOK).                  *)
(***************************************************************************)
THEOREM RegisterTypes == Spec => []TypeOK
<1>1. Init => TypeOK
  <2> SUFFICES ASSUME Init PROVE TypeOK  OBVIOUS
  <2>1. \A a \in Addr : reg_sys[a] = Zero  BY DEF Init
  <2>2. key_holder \in Blocks /\ msg_enc_holder \in Blocks
    BY <2>1 DEF key_holder, msg_enc_holder, Block, Blocks, Addr
  <2>3. \A n \in 0..3 : reg_sys[8 + n] \in Word  BY <2>1 DEF Addr
  <2>4. job \in Jobs  BY <2>2 DEF Init, Jobs
  <2> QED  BY <2>1, <2>3, <2>4 DEF Init, TypeOK, Core!Init, Results
<1> QED  BY <1>1, TypeStep, PTL DEF Spec

(***************************************************************************)
(* PublishedCorrect is inductive beside one fact about the core: a result  *)
(* it shows as done, for inputs that were held, is that of its job.        *)
(***************************************************************************)
DueResult == phase = "done" /\ held => result = Decrypt(job.key, job.msg)

PublishedInv == DueResult /\ PublishedCorrect

LEMMA DueStep ==
  ASSUME TypeOK, DueResult, NEW w \in Transfer, Clock(w) PROVE DueResult'
<1> SUFFICES ASSUME phase' = "done", held' PROVE result' = Decrypt(job'.key, job'.msg)
  BY DEF DueResult
<1>1. Core!Next  BY DEF Clock
<1>2. CASE Core!Complete  BY <1>2 DEF Core!Complete, Core!Hold
<1>3. CASE Core!Rest  BY <1>3 DEF Core!Rest, Core!Hold, DueResult, TypeOK
<1> QED  BY <1>1, <1>2, <1>3 DEF Core!Next, Core!Take, Core!Work, Core!Release, Core!Abandon

LEMMA PublishedStep ==
  ASSUME TypeOK, PublishedInv, NEW w \in Transfer, Clock(w) PROVE PublishedCorrect'
<1> SUFFICES ASSUME origin'.held, NEW n \in 0..3
             PROVE reg_sys'[8 + n] = Part(Decrypt(origin'.job.key, origin'.job.msg), n)
  BY DEF PublishedCorrect, Part
<1>1. 8 + n \in Addr /\ 8 + n \in 8..11 /\ (8 + n) - 8 = n /\ 8 + n # 15  BY DEF Addr
<1>2. CASE aes_done_local
  <2>1. origin' = [job |-> job, held |-> held]  BY <1>2 DEF Clock, Origin
  <2>2. result = Decrypt(job.key, job.msg)
    BY <1>2, <2>1 DEF PublishedInv, DueResult, aes_done_local
  <2>3. reg_sys'[8 + n] = Part(result, n)  BY <1>1, <1>2 DEF Clock, Registers
  <2> QED  BY <2>1, <2>2, <2>3
<1>3. CASE ~aes_done_local
  <2>1. origin'.job = origin.job /\ origin.held /\ ~reset /\ w.addr \notin 8..11
    BY <1>3 DEF Clock, Origin, TypeOK
  <2>2. reg_sys'[8 + n] = reg_sys[8 + n]  BY <1>1, <1>3, <2>1 DEF Clock, Registers
  <2> QED  BY <2>1, <2>2 DEF PublishedInv, PublishedCorrect
<1> QED  BY <1>2, <1>3

(***************************************************************************)
(* Registers 8-11 hold all four words of one decryption, of the job they   *)
(* were loaded for, whatever the master does (PublishedCorrect).           *)
(***************************************************************************)
THEOREM Published == Spec => []PublishedCorrect
<1>1. Init => PublishedInv
  BY DEF Init, Core!Init, PublishedInv, DueResult, PublishedCorrect
<1>2. TypeOK /\ PublishedInv /\ [Next]_vars => PublishedInv'
  <2> SUFFICES ASSUME TypeOK, PublishedInv, [Next]_vars PROVE PublishedInv'  OBVIOUS
  <2>1. CASE UNCHANGED vars
    BY <2>1 DEF vars, core, PublishedInv, DueResult, PublishedCorrect, Part
  <2>2. CASE Next
    <3>1. PICK w \in Transfer : Clock(w)  BY <2>2, NextIsClock
    <3> QED  BY <3>1, DueStep, PublishedStep DEF PublishedInv
  <2> QED  BY <2>1, <2>2
<1>3. PublishedInv => PublishedCorrect  BY DEF PublishedInv
<1> QED  BY <1>1, <1>2, <1>3, RegisterTypes, PTL DEF Spec

(***************************************************************************)
(* No result is released unpublished, even if the master writes in the     *)
(* very clock (NoResultLost).                                              *)
(***************************************************************************)
THEOREM NothingLost == Spec => NoResultLost
<1>1. Next => ReleasedIsPublished
  <2> SUFFICES ASSUME Next, phase = "done"
               PROVE  /\ reg_sys'[15] = AllOnes
                      /\ \A n \in 0..3 : reg_sys'[8 + n] = Part(result, n)
    BY DEF ReleasedIsPublished
  <2>1. PICK w \in Transfer : Clock(w)  BY NextIsClock
  <2>2. \A n \in 0..3 : 8 + n \in Addr /\ 8 + n \in 8..11 /\ (8 + n) - 8 = n /\ 8 + n # 15
    BY DEF Addr
  <2> QED  BY <2>1, <2>2 DEF Clock, Registers, aes_done_local, Addr
<1> QED  BY <1>1, PTL DEF Spec, NoResultLost
=============================================================================
