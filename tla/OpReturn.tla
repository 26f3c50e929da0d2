------------------------------ MODULE OpReturn ------------------------------
(***************************************************************************)
(* model/opret.go: an anchor as the bytes of an OP_RETURN output, and back.*)
(***************************************************************************)
EXTENDS Integers, Sequences

CONSTANTS None,
          Base,        \* 256
          Width,       \* bytes of the time stamp, 8
          IDLen,       \* bytes of an identifier, 32
          Signature,   \* "BBc1"
          Versions,    \* validAnchorVersions
          Nets,        \* networks that BTCNet.String names
          IDs          \* identifiers of an anchor

Byte == 0..(Base - 1)

\* What the byte with n bytes behind it counts for: a shift by 8 * n bits.
Weight[n \in 0..Width] == IF n = 0 THEN 1 ELSE Base * Weight[n - 1]

Modulus == Weight[Width]      \* 2^64

OpReturnErrors == {"ErrInvalidSignature", "ErrInvalidVersion", "ErrInvalidBTCNet"}

ASSUME OpReturnAssumption ==
  /\ Base \in Nat \ {0, 1} /\ Base % 2 = 0
  /\ Width \in Nat \ {0} /\ IDLen \in Nat
  /\ Signature \in [1..4 -> Byte]
  /\ Versions \subseteq Byte /\ Nets \subseteq Byte
  /\ IDs \subseteq [1..IDLen -> Byte]
  /\ None \notin Seq(Byte) /\ None \notin OpReturnErrors

\* Seconds since 1970 are an int64; a time of the program also has nanoseconds,
\* here none or some.
Seconds == -(Modulus \div 2) .. (Modulus \div 2 - 1)
Times == [sec : Seconds, nsec : {0, 1}]

Anchor == [version : Byte, net : Byte, time : Times,
           domain : [1..IDLen -> Byte], digest : [1..IDLen -> Byte]]

Size == 8 + Width + 2 * IDLen      \* 80

-----------------------------------------------------------------------------
\* NewAnchor writes the version that XAnchorVersion let through; the network is
\* whatever it is given.
NewAnchors == [version : Versions, net : Byte, time : Times,
               domain : IDs, digest : IDs]

\* int64 to uint64 and back.
Unsigned(t) == t % Modulus
Signed(v) == IF v < Modulus \div 2 THEN v ELSE v - Modulus

\* (mutant) The least significant byte comes first.
putUint64LE(v) == [i \in 1..Width |-> (v \div Weight[i - 1]) % Base]

putUint64BE(v) == [i \in 1..Width |-> (v \div Weight[Width - i]) % Base]

\* The values of the first n bytes.
Prefixes(b) ==
  LET prefix[n \in 0..Width] == IF n = 0 THEN 0 ELSE prefix[n - 1] * Base + b[n]
  IN  prefix

getUint64BE(b) == Prefixes(b)[Width]

\* The fraction of a second is not encoded.
EncodeOpReturn(a) ==
  Signature \o <<a.version, a.net, 0, 0>> \o putUint64BE(Unsigned(a.time.sec))
            \o a.domain \o a.digest

Failed(error) == [error |-> error, anchor |-> None]

\* (mutant) The digest is copied from one byte too early.
FieldsTooEarly(b) ==
  [version |-> b[5], net |-> b[6],
   time    |-> [sec |-> Signed(getUint64BE(SubSeq(b, 9, 8 + Width))), nsec |-> 0],
   domain  |-> SubSeq(b, 9 + Width, 8 + Width + IDLen),
   digest  |-> SubSeq(b, 8 + Width + IDLen, 7 + Width + 2 * IDLen)]

Fields(b) ==
  [version |-> b[5], net |-> b[6],
   time    |-> [sec |-> Signed(getUint64BE(SubSeq(b, 9, 8 + Width))), nsec |-> 0],
   domain  |-> SubSeq(b, 9 + Width, 8 + Width + IDLen),
   digest  |-> SubSeq(b, 9 + Width + IDLen, Size)]

\* Bytes 7 and 8 are not looked at.
DecodeOpReturn(b) ==
  CASE SubSeq(b, 1, 4) # Signature -> Failed("ErrInvalidSignature")
    [] SubSeq(b, 1, 4) = Signature /\ b[5] \notin Versions
         -> Failed("ErrInvalidVersion")
    [] SubSeq(b, 1, 4) = Signature /\ b[5] \in Versions /\ b[6] \notin Nets
         -> Failed("ErrInvalidBTCNet")
    [] OTHER -> [error |-> None, anchor |-> Fields(b)]

=============================================================================
