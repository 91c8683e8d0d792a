---------------------------- MODULE JenkinsHash ----------------------------
(***************************************************************************)
(* The hash functions of common/src/c++/utils/jenkins_hash.cpp.  The feed  *)
(* handler takes hashlittle of an entry id for the order's id              *)
(* (md_parser_qf.cpp:612, 788, 880), and the maps of order ids hash with   *)
(* it (types.h:490).                                                       *)
(*                                                                         *)
(* A key is some bytes at an address, followed by bytes that are not of    *)
(* the key.  The machine is little-endian and reads words or half words    *)
(* where the address is a multiple of theirs.  A 32-bit word is a pair of  *)
(* its high and its low half.                                              *)
(***************************************************************************)
EXTENDS Integers, Sequences, SequencesExt

CONSTANTS
  Keys,     \* the keys that are hashed, sequences of bytes
  Follows,  \* the bytes that may follow a key in memory
  Seeds,    \* the seeds, pairs of words
  HalfXor(_, _)   \* exclusive or of two half words

ASSUME HashAssumption ==
  /\ \A bytes \in Keys : bytes \in Seq(0 .. 255)
  /\ \A bytes \in Follows : bytes \in Seq(0 .. 255) /\ Len(bytes) >= 3

VARIABLES key, follows, address, seeds, digest

hashVars == <<key, follows, address, seeds, digest>>

Half == 65536
Zero == <<0, 0>>

Plus(x, y) ==
  LET lo == x[2] + y[2] IN <<(x[1] + y[1] + lo \div Half) % Half, lo % Half>>
Minus(x, y) ==
  LET lo == x[2] - y[2] IN <<(x[1] - y[1] + lo \div Half) % Half, lo % Half>>
ExOr(x, y) == <<HalfXor(x[1], y[1]), HalfXor(x[2], y[2])>>

Rot(x, k) ==
  LET y == IF k < 16 THEN x ELSE <<x[2], x[1]>>
      n == k % 16
      Low(half)  == (half * 2^n) % Half
      High(half) == half \div 2^(16 - n)
  IN  <<Low(y[1]) + High(y[2]), Low(y[2]) + High(y[1])>>

(* Each line of mix does to (a, b, c) what the one before did to the three *)
(* in another order, and so do two statements of final.                    *)
Mix(t) ==
  LET Line(u, k) == <<u[2], Plus(u[3], u[2]), ExOr(Minus(u[1], u[3]), Rot(u[3], k))>>
  IN  FoldLeft(Line, t, <<4, 6, 8, 16, 19, 4>>)

Final(t) ==
  LET Line(u, k) == <<u[3], Minus(ExOr(u[1], u[2]), Rot(u[2], k)), u[2]>>
      last == FoldLeft(Line, <<t[3], t[2], t[1]>>, <<14, 11, 25, 16, 4, 14, 24>>)
  IN  <<last[1], last[3], last[2]>>

(* Words, three at a time, the last three or fewer without a mix.          *)
HashWords(start, words) ==
  LET n == Len(words)
      Read(i) == IF i <= n THEN words[i] ELSE Zero
      Three(t, i) == <<Plus(t[1], Read(3 * i + 1)), Plus(t[2], Read(3 * i + 2)),
                       Plus(t[3], Read(3 * i + 3))>>
      blocks == (n - 1) \div 3
      Block(t, i) == Mix(Three(t, i - 1))
      mixed == FoldLeft(Block, start, [i \in 1 .. blocks |-> i])
  IN  IF n = 0 THEN start ELSE Final(Three(mixed, blocks))

(* What the functions that return one value and two start from.            *)
Start(bytes, pc, pb) ==
  LET s == Plus(Plus(<<57005, 48879>>, <<0, bytes>>), pc)   \* 0xdeadbeef
  IN  <<s, s, Plus(s, pb)>>

-----------------------------------------------------------------------------
(* The bytes from the key's first on, those after its last included.       *)
Memory == key \o follows

ByteAt(p)     == Memory[p + 1]
HalfWordAt(p) == ByteAt(p) + 256 * ByteAt(p + 1)
WordAt(p)     == <<HalfWordAt(p + 2), HalfWordAt(p)>>

(* How many bytes of the i-th word are the key's.                          *)
Owned(i) == LET left == Len(key) - 4 * (i - 1) IN IF left > 4 THEN 4 ELSE left

(* Mutant of Aligned: one byte more is left by the mask.                   *)
AlignedOverrun(i) ==
  LET w == WordAt(4 * (i - 1))
  IN  CASE Owned(i) >= 3 -> w
        [] Owned(i) = 2 -> <<w[1] % 256, w[2]>>
        [] Owned(i) = 1 -> <<0, w[2]>>

(* A whole word is read, and what is not the key's is masked.              *)
Aligned(i) ==
  LET w == WordAt(4 * (i - 1))
  IN  CASE Owned(i) = 4 -> w
        [] Owned(i) = 3 -> <<w[1] % 256, w[2]>>
        [] Owned(i) = 2 -> <<0, w[2]>>
        [] Owned(i) = 1 -> <<0, w[2] % 256>>

HalfAligned(i) ==
  LET p == 4 * (i - 1)
  IN  CASE Owned(i) = 4 -> <<HalfWordAt(p + 2), HalfWordAt(p)>>
        [] Owned(i) = 3 -> <<ByteAt(p + 2), HalfWordAt(p)>>
        [] Owned(i) = 2 -> <<0, HalfWordAt(p)>>
        [] Owned(i) = 1 -> <<0, ByteAt(p)>>

OwnByte(i, b) == IF b <= Owned(i) THEN ByteAt(4 * (i - 1) + b - 1) ELSE 0

Bytewise(i) == <<OwnByte(i, 3) + 256 * OwnByte(i, 4), OwnByte(i, 1) + 256 * OwnByte(i, 2)>>
BigEndian(i) == <<OwnByte(i, 2) + 256 * OwnByte(i, 1), OwnByte(i, 4) + 256 * OwnByte(i, 3)>>

Words == (Len(key) + 3) \div 4

LittleWords == [i \in 1 .. Words |-> CASE address % 4 = 0 -> Aligned(i)
                                       [] address % 4 = 2 -> HalfAligned(i)
                                       [] OTHER           -> Bytewise(i)]

Little(start) == HashWords(start, LittleWords)

Digest(by, t) == digest' = [by |-> by, primary |-> t[3], secondary |-> t[2]]

HashLittle ==
  /\ Digest("hashlittle", Little(Start(Len(key), seeds[1], Zero)))
  /\ UNCHANGED <<key, follows, address, seeds>>

HashLittle2 ==
  /\ Digest("hashlittle2", Little(Start(Len(key), seeds[1], seeds[2])))
  /\ UNCHANGED <<key, follows, address, seeds>>

(* The byte path: the other one is for big-endian machines.                *)
BigWords == [i \in 1 .. Words |-> BigEndian(i)]

HashBig ==
  /\ Digest("hashbig", HashWords(Start(Len(key), seeds[1], Zero), BigWords))
  /\ UNCHANGED <<key, follows, address, seeds>>

WordKey == address % 4 = 0 /\ Len(key) % 4 = 0

(* For keys that are arrays of words.                                      *)
KeyWords == [i \in 1 .. Words |-> WordAt(4 * (i - 1))]

(* Mutant of HashWord: the length is counted in words.                     *)
HashWordByCount ==
  /\ WordKey
  /\ Digest("hashword", HashWords(Start(Words, seeds[1], Zero), KeyWords))
  /\ UNCHANGED <<key, follows, address, seeds>>

HashWord ==
  /\ WordKey
  /\ Digest("hashword", HashWords(Start(4 * Words, seeds[1], Zero), KeyWords))
  /\ UNCHANGED <<key, follows, address, seeds>>

HashWord2 ==
  /\ WordKey
  /\ Digest("hashword2", HashWords(Start(4 * Words, seeds[1], seeds[2]), KeyWords))
  /\ UNCHANGED <<key, follows, address, seeds>>

HashInit ==
  /\ key \in Keys /\ follows \in Follows /\ address \in 0 .. 3 /\ seeds \in Seeds
  /\ digest = [by |-> "none", primary |-> Zero, secondary |-> Zero]

HashNext == HashLittle \/ HashLittle2 \/ HashBig \/ HashWord \/ HashWord2

HashSpec == HashInit /\ [][HashNext]_hashVars

-----------------------------------------------------------------------------
(* The words of a key's bytes, zeros behind the last.                      *)
Padded(bytes) ==
  LET At(p) == IF p <= Len(bytes) THEN bytes[p] ELSE 0
  IN  [i \in 1 .. (Len(bytes) + 3) \div 4 |->
         <<At(4 * i - 1) + 256 * At(4 * i), At(4 * i - 3) + 256 * At(4 * i - 2)>>]

(* The hash of a key's bytes, from the bytes alone.                        *)
Reference(bytes, seed) == HashWords(Start(Len(bytes), seed, Zero), Padded(bytes))[3]

(* One entry id has one order id, wherever its string lies and whatever    *)
(* follows it: the reads past the end (jenkins_hash.cpp:309-315) and the   *)
(* three paths by alignment do not show in the hash.                       *)
SameIdSameHash ==
  digest.by = "hashlittle" => digest.primary = Reference(key, seeds[1])

SwapBytes(bytes) ==
  [p \in 1 .. Len(bytes) |-> bytes[4 * ((p - 1) \div 4) + 4 - ((p - 1) % 4)]]

(* The functions agree as their comments have it: hashword with hashlittle *)
(* on whole words (jenkins_hash.cpp:167-170), those of two values with     *)
(* those of one when the second seed is zero (213-215, 454-456), and       *)
(* hashbig with hashword of the words of a big-endian machine (640-643).   *)
HashesAgree ==
  /\ digest.by \in {"hashword", "hashword2", "hashlittle2"} /\ seeds[2] = Zero =>
       digest.primary = Reference(key, seeds[1])
  /\ digest.by = "hashword" => digest.primary = Reference(key, seeds[1])
  /\ digest.by = "hashbig" /\ Len(key) % 4 = 0 =>
       digest.primary = Reference(SwapBytes(key), seeds[1])
=============================================================================
