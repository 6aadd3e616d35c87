---------------------------- MODULE SoftwareAes ----------------------------
(***************************************************************************)
(* encrypt of hello_world.c: the conversion of the text that was typed,    *)
(* the key schedule a word at a time, the rounds, and the four words it    *)
(* leaves for the hardware.  A 32-bit word is the sequence of its bytes,   *)
(* most significant first.                                                 *)
(***************************************************************************)
EXTENDS GF256, AesTables

CONSTANT Inputs     (* [msg, key]: the 16-byte blocks typed, in hexadecimal *)
ASSUME InputsAssumption == \A x \in Inputs : x.msg \in Block128 /\ x.key \in Block128

VARIABLES
  pc,             (* "idle", "convert", "expand", "rounds" or "packed"     *)
  msg_ascii, key_ascii,     (* the parameters                              *)
  msg_holder,
  key_sched,      (* the bytes written so far                              *)
  i,              (* the loop variable of keyExpansion and of the rounds   *)
  msg_enc, key,   (* the results                                           *)
  typed,          (* history: the input the texts spell                    *)
  fips            (* history: msg_holder as FIPS 197 has it                *)

vars == <<pc, msg_ascii, key_ascii, msg_holder, key_sched, i, msg_enc, key, typed, fips>>

MAT_SIZE == 16
NUM_ROUNDS == 10

(***************************************************************************)
(* Text.  A character is its code; what is no hexadecimal digit keeps its  *)
(* code (line 30).  The sum of two digits is cut to the byte it returns in. *)
(***************************************************************************)
\* Mutant: capital letters are taken for their offset, not their value.
charToHex_NoTen(c) == IF c \in 48..57 THEN c - 48
                      ELSE IF c \in 65..70 THEN c - 65
                      ELSE IF c \in 97..102 THEN c - 97 + 10
                      ELSE c
charToHex(c) == IF c \in 48..57 THEN c - 48
                ELSE IF c \in 65..70 THEN c - 65 + 10
                ELSE IF c \in 97..102 THEN c - 97 + 10
                ELSE c
charsToHex(c1, c2) == (charToHex(c1) * 16 + charToHex(c2)) % 256

(***************************************************************************)
(* The steps of a round, on sixteen bytes in place.                        *)
(***************************************************************************)
subBytes(b) == Block(LAMBDA n : aes_sbox[b[n]])

shiftRows(b) ==
  Block(LAMBDA n : b[<<0, 5, 10, 15, 4, 9, 14, 3, 8, 13, 2, 7, 12, 1, 6, 11>>[n + 1]])

\* Byte n of a column takes twice itself, thrice the next, and the other two.
mixColumns(b) ==
  Block(LAMBDA n :
    LET at(d) == b[4 * (n \div 4) + ((n + d) % 4)]
    IN  at(2) \oplus at(3) \oplus gf_mul_2[at(0)] \oplus gf_mul_3[at(1)])

addRoundKey(b, sched, offset) == Block(LAMBDA n : b[n] \oplus sched[offset + n])

\* The high byte of each Rcon word, which is all that is used of it.
Rcon == <<1, 2, 4, 8, 16, 32, 64, 128, 27, 54, 108, 216, 171, 77, 154>>

\* One turn of the while loop of keyExpansion: the word at n.  (Mutant: the
\* round constant of the round before.)
NextWord_Rcon0(ks, n) ==
  LET sub(j) == aes_sbox[ks[n - 4 + ((j + 1) % 4)]]
      holder(j) == IF n % MAT_SIZE # 0 THEN ks[n - 4 + j]
                   ELSE IF j = 0 THEN sub(0) \oplus (<<0>> \o Rcon)[n \div MAT_SIZE]
                   ELSE sub(j)
  IN  [m \in n..(n + 3) |-> ks[m - MAT_SIZE] \oplus holder(m - n)]
NextWord(ks, n) ==
  LET sub(j) == aes_sbox[ks[n - 4 + ((j + 1) % 4)]]
      holder(j) == IF n % MAT_SIZE # 0 THEN ks[n - 4 + j]
                   ELSE IF j = 0 THEN sub(0) \oplus Rcon[n \div MAT_SIZE]
                   ELSE sub(j)
  IN  [m \in n..(n + 3) |-> ks[m - MAT_SIZE] \oplus holder(m - n)]

\* pack_message, of sixteen bytes.  key_holder stays the first of key_sched.
pack(b) == [w \in 0..3 |-> [j \in 1..4 |-> b[4 * w + j - 1]]]

(***************************************************************************)
(* The actions: a call, then the body in its order.                        *)
(***************************************************************************)
\* The text of a block, in digits and letters of either case.
Digit(h, upper) == IF h < 10 THEN 48 + h ELSE (IF upper THEN 65 ELSE 97) + h - 10
Text(b, upper) ==
  [n \in 0..31 |-> Digit(IF n % 2 = 0 THEN b[n \div 2] \div 16 ELSE b[n \div 2] % 16, upper)]

Call ==
  /\ pc = "idle"
  /\ \E x \in Inputs, upper \in BOOLEAN :
       /\ typed' = x
       /\ msg_ascii' = Text(x.msg, upper) /\ key_ascii' = Text(x.key, upper)
  /\ pc' = "convert"
  /\ fips' = typed'.msg
  /\ UNCHANGED <<msg_holder, key_sched, i, msg_enc, key>>

Convert ==
  /\ pc = "convert"
  /\ msg_holder' = Block(LAMBDA n : charsToHex(msg_ascii[2 * n], msg_ascii[2 * n + 1]))
  /\ key_sched' = Block(LAMBDA n : charsToHex(key_ascii[2 * n], key_ascii[2 * n + 1]))
  /\ i' = MAT_SIZE
  /\ pc' = "expand"
  /\ UNCHANGED <<msg_ascii, key_ascii, msg_enc, key, typed, fips>>

\* The while loop of keyExpansion, and the first round key.
keyExpansion ==
  /\ pc = "expand"
  /\ IF i < MAT_SIZE * 11
     THEN /\ key_sched' = key_sched @@ NextWord(key_sched, i)
          /\ i' = i + 4
          /\ UNCHANGED <<msg_holder, pc, fips>>
     ELSE /\ msg_holder' = addRoundKey(msg_holder, key_sched, 0)
          /\ i' = 1 /\ pc' = "rounds"
          /\ fips' = AddKey(fips, RoundKeyAt(key_sched, 0))
          /\ UNCHANGED key_sched
  /\ UNCHANGED <<msg_ascii, key_ascii, msg_enc, key, typed>>

MiddleRound ==
  /\ pc = "rounds" /\ i < NUM_ROUNDS
  /\ msg_holder' = addRoundKey(mixColumns(shiftRows(subBytes(msg_holder))),
                               key_sched, i * MAT_SIZE)
  /\ i' = i + 1
  /\ fips' = CipherRound(fips, key_sched, i)
  /\ UNCHANGED <<pc, msg_ascii, key_ascii, key_sched, msg_enc, key, typed>>

\* The last round leaves mixColumns out; pack_message ends the call.
FinalRound ==
  /\ pc = "rounds" /\ i = NUM_ROUNDS
  /\ msg_holder' = addRoundKey(shiftRows(subBytes(msg_holder)), key_sched, i * MAT_SIZE)
  /\ msg_enc' = pack(msg_holder') /\ key' = pack(key_sched)
  /\ pc' = "packed"
  /\ fips' = LastRound(fips, key_sched)
  /\ UNCHANGED <<msg_ascii, key_ascii, key_sched, i, typed>>

ZeroBlock == Block(LAMBDA n : 0)
ZeroText == Text(ZeroBlock, FALSE)
NoInput == [msg |-> ZeroBlock, key |-> ZeroBlock]

\* The caller has taken the results; no call depends on the one before it.
Return ==
  /\ pc = "packed"
  /\ pc' = "idle" /\ i' = 0
  /\ msg_ascii' = ZeroText /\ key_ascii' = ZeroText
  /\ msg_holder' = ZeroBlock /\ key_sched' = ZeroBlock
  /\ msg_enc' = pack(ZeroBlock) /\ key' = pack(ZeroBlock)
  /\ typed' = NoInput /\ fips' = ZeroBlock

Init ==
  /\ pc = "idle" /\ i = 0
  /\ msg_ascii = ZeroText /\ key_ascii = ZeroText
  /\ msg_holder = ZeroBlock /\ key_sched = ZeroBlock
  /\ msg_enc = pack(ZeroBlock) /\ key = pack(ZeroBlock)
  /\ typed = NoInput /\ fips = ZeroBlock

encrypt == Call \/ Convert \/ keyExpansion \/ MiddleRound \/ FinalRound

Next == encrypt \/ Return

Spec == Init /\ [][Next]_vars

-----------------------------------------------------------------------------
TypeOK ==
  /\ pc \in {"idle", "convert", "expand", "rounds", "packed"}
  /\ msg_holder \in Block128
  /\ DOMAIN key_sched \in {0..(4 * w - 1) : w \in 4..44}
  /\ \A n \in DOMAIN key_sched : key_sched[n] \in Byte
  /\ i \in 0..176
  /\ \A w \in 0..3, j \in 1..4 : msg_enc[w][j] \in Byte /\ key[w][j] \in Byte

(***************************************************************************)
(* keyExpansion writes, word after word, the key schedule of FIPS 197 for  *)
(* the key that was typed: aes_sbox, rotWord, the index into Rcon and the  *)
(* order of the bytes are all as they must be.                             *)
(***************************************************************************)
ScheduleCorrect ==
  pc \in {"expand", "rounds", "packed"} =>
    IsSchedule(key_sched, typed.key, IF pc = "expand" THEN i ELSE 176)

(***************************************************************************)
(* Round by round msg_holder is what FIPS 197 says, and the words encrypt  *)
(* leaves for the hardware are the cipher text of the message that was     *)
(* typed, and its key -- for the example of FIPS 197, C.1, the words given *)
(* there -- however the letters were typed.                                *)
(***************************************************************************)
ExampleMsg == Block(LAMBDA n : 17 * n)
ExampleKey == Block(LAMBDA n : n)
ExampleEnc == <<105, 196, 224, 216, 106, 123, 4, 48, 216, 205, 183, 128, 112, 180, 197, 90>>

EncryptsCorrectly ==
  /\ pc = "rounds" => msg_holder = fips
  /\ pc = "packed" =>
       /\ msg_enc = pack(fips) /\ key = pack(typed.key)
       /\ typed = [msg |-> ExampleMsg, key |-> ExampleKey] =>
            msg_enc = pack(Block(LAMBDA n : ExampleEnc[n + 1]))
=============================================================================
