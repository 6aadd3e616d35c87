---------------------------- MODULE AesDatapath ----------------------------
(***************************************************************************)
(* What the units of the AES core do to the bytes of a block: InvShiftRows,*)
(* InvSub_16, AddRoundKey, InvMixColumns with its GF multipliers, and the  *)
(* key schedule.  Byte 0 of a block is bits 127:120.                       *)
(*                                                                         *)
(* Two of these units do not do what they are there for (xtime and Rcon,   *)
(* below).  So that all the rest can still be compared with encrypt, the   *)
(* doubling and the round constants in use are constants of this module.   *)
(*                                                                         *)
(* Clocks are left to AesCore.  Here one step is one operation, in the     *)
(* order of InverseCipher, which AesCore is shown to follow.               *)
(***************************************************************************)
EXTENDS SoftwareAes, InverseCipher

CONSTANTS
  Doubling(_),      (* of the GF multipliers: xtime, or Double             *)
  RoundConstants    (* of the key schedule: RconWire, or RconListed        *)

VARIABLES
  schedule,   (* the round keys computed, the cipher key first             *)
  block,      (* cur_msg                                                   *)
  step        (* operations done                                           *)

core == <<schedule, block, step>>

InvSub_16(b) == Block(LAMBDA n : InvSubBytesROM[b[n]])

InvShiftRows(b) ==
  Block(LAMBDA n : b[<<0, 13, 10, 7, 4, 1, 14, 11, 8, 5, 2, 15, 12, 9, 6, 3>>[n + 1]])

(***************************************************************************)
(* xtime as it is coded: the input is declared [7:0], and the bits 1 to 7  *)
(* that go to temp3 in that order arrive reversed, with bit 0 taken for    *)
(* the one that is shifted out.                                            *)
(***************************************************************************)
xtime(a) ==
  FromBits(LAMBDA n :
    ((IF n = 0 THEN 0 ELSE Bit(a, 8 - n)) + Bit(27, n) * Bit(a, 0)) % 2)

\* GF_Mul_9, _b, _d and _e, with the doubling in use.
Four(a) == Doubling(Doubling(a))
Eight(a) == Doubling(Four(a))
GF_Mul_9(a) == Eight(a) \oplus a
GF_Mul_b(a) == Eight(a) \oplus Doubling(a) \oplus a
GF_Mul_d(a) == Eight(a) \oplus Four(a) \oplus a
GF_Mul_e(a) == Eight(a) \oplus Four(a) \oplus Doubling(a)

\* The four words in turn.  (Mutant: {0b} and {0d} exchanged.)
InvMixColumns_bd(b) ==
  Block(LAMBDA n :
    LET at(d) == b[4 * (n \div 4) + ((n + d) % 4)]
    IN  GF_Mul_e(at(0)) \oplus GF_Mul_d(at(1))
        \oplus GF_Mul_b(at(2)) \oplus GF_Mul_9(at(3)))
InvMixColumns(b) ==
  Block(LAMBDA n :
    LET at(d) == b[4 * (n \div 4) + ((n + d) % 4)]
    IN  GF_Mul_e(at(0)) \oplus GF_Mul_b(at(1))
        \oplus GF_Mul_d(at(2)) \oplus GF_Mul_9(at(3)))

(***************************************************************************)
(* KeyExpansion: ten copies of KeyExpansionOne, each from the round key    *)
(* before.  The wire Rcon is ten bits wide (KeyExpansion.v:20), so that    *)
(* stage j gets bit 9 - j of the 80-bit list it is assigned.               *)
(***************************************************************************)
RconListed == <<1, 2, 4, 8, 16, 32, 64, 128, 27, 54>>
RconWire ==
  LET low10 == 256 * (RconListed[9] % 4) + RconListed[10]
  IN  [j \in 1..10 |-> (low10 \div 2^(10 - j)) % 2]

\* (Mutant: the word is not rotated.)
KeyExpansionOne_NoRot(oldkey, rcon) ==
  LET sub(j) == SubBytesROM[oldkey[12 + j]]
      w0(j) == oldkey[j] \oplus sub(j) \oplus (IF j = 0 THEN rcon ELSE 0)
      w1(j) == oldkey[4 + j] \oplus w0(j)
      w2(j) == oldkey[8 + j] \oplus w1(j)
      w3(j) == oldkey[12 + j] \oplus w2(j)
  IN  Block(LAMBDA n : CASE n \in 0..3   -> w0(n)
                         [] n \in 4..7   -> w1(n - 4)
                         [] n \in 8..11  -> w2(n - 8)
                         [] n \in 12..15 -> w3(n - 12))
KeyExpansionOne(oldkey, rcon) ==
  LET sub(j) == SubBytesROM[oldkey[12 + ((j + 1) % 4)]]
      w0(j) == oldkey[j] \oplus sub(j) \oplus (IF j = 0 THEN rcon ELSE 0)
      w1(j) == oldkey[4 + j] \oplus w0(j)
      w2(j) == oldkey[8 + j] \oplus w1(j)
      w3(j) == oldkey[12 + j] \oplus w2(j)
  IN  Block(LAMBDA n : CASE n \in 0..3   -> w0(n)
                         [] n \in 4..7   -> w1(n - 4)
                         [] n \in 8..11  -> w2(n - 8)
                         [] n \in 12..15 -> w3(n - 12))

\* AddRoundKey: round n takes the n-th round key from the end.
RoundKey(n) == schedule[11 - n]

Unit(o, b) ==
  CASE o.op = "InvShiftRows" -> InvShiftRows(b)
    [] o.op = "InvSubBytes" -> InvSub_16(b)
    [] o.op = "InvMixColumns" -> InvMixColumns(b)
    [] o.op = "AddRoundKey" -> AddKey(b, RoundKey(o.round))

\* The block in four registers.
Registers(w) == Block(LAMBDA n : w[n \div 4][(n % 4) + 1])

(***************************************************************************)
(* The core takes over when encrypt has ended: the key schedule, a stage   *)
(* at a time, and the forty operations.                                    *)
(***************************************************************************)
ExpandKey ==
  /\ pc = "packed" /\ Len(schedule) < 11
  /\ schedule' =
       IF schedule = <<>> THEN <<Registers(key)>>
       ELSE Append(schedule, KeyExpansionOne(schedule[Len(schedule)],
                                             RoundConstants[Len(schedule)]))
  /\ UNCHANGED <<block, step, vars>>

Operate ==
  /\ pc = "packed" /\ Len(schedule) = 11 /\ step < 40
  /\ block' = Unit(OpAt(key, step + 1), IF step = 0 THEN Registers(msg_enc) ELSE block)
  /\ step' = step + 1
  /\ UNCHANGED <<schedule, vars>>

Leave ==
  /\ step = 40 /\ Return
  /\ schedule' = <<>> /\ block' = ZeroBlock /\ step' = 0

TestInit == Init /\ schedule = <<>> /\ block = ZeroBlock /\ step = 0

TestNext ==
  \/ encrypt /\ UNCHANGED core
  \/ ExpandKey
  \/ Operate
  \/ Leave

TestSpec == TestInit /\ [][TestNext]_<<vars, core>>

-----------------------------------------------------------------------------
(***************************************************************************)
(* The forty operations of the core turn the words encrypt left back into  *)
(* the message that was typed: the ROMs, the rows, the matrix of the GF    *)
(* multipliers, the wiring of the key schedule and the round key each      *)
(* round takes are right -- when the doubling is what InvMixColumns.v:56   *)
(* says of xtime, and the round constants are those listed.                *)
(***************************************************************************)
DatapathInverts == step = 40 => block = typed.msg

(***************************************************************************)
(* InvMixColumns.v:5: "Output: Inverse MixColumns transformation of the    *)
(* Word".                                                                  *)
(***************************************************************************)
InvMixColumnsInverts == pc = "rounds" => InvMixColumns(mixColumns(msg_holder)) = msg_holder

(***************************************************************************)
(* KeyExpansion.v:19: "Rcon table", of 8'h01, 8'h02, ... 8'h36: the round  *)
(* keys of the core are those of encrypt.                                  *)
(***************************************************************************)
SchedulesAgree ==
  \A r \in 1..Len(schedule) : schedule[r] = RoundKeyAt(key_sched, r - 1)
=============================================================================
