----------------------------- MODULE MCCLIRuns -----------------------------
(***************************************************************************)
(* An instance of CLIRuns for TLC: four values of a byte, time stamps of   *)
(* two bytes, identifiers of one.                                          *)
(***************************************************************************)
EXTENDS CLIRuns

BBc1 == <<1, 1, 2, 3>>
SomeIDs == {<<0>>, <<2>>}

Stamp(net, sec, nsec) ==
  [version |-> 3, net |-> net, time |-> [sec |-> sec, nsec |-> nsec],
   domain |-> <<0>>, digest |-> <<2>>]

\* Two anchors of one second, one of another network.
SomeAnchors == {Stamp(1, 5, 0), Stamp(1, 5, 1), Stamp(2, 5, 0)}

Received(outs, of) == Tx(0, 0, outs, 0, of)

\* The wallet's first output is for another address and has the larger amount,
\* the second transaction pays for one anchor only.
Wallet == <<Received(<<Pays("second", 9), Pays("other", 9), Pays("addr", 6)>>, None),
            Received(<<Pays("addr", 4)>>, None)>>

\* A payment that carries data and is too small to be spent.
Foreign(data, of) == <<Received(<<Pays("addr", 1), Carries(data)>>, of)>>

Changed(b) == {[b EXCEPT ![i] = byte] : i \in 1..Size, byte \in Byte}

Whole == {a \in NewAnchors : a.time.nsec = 0 /\ a.domain # a.digest}
Few == {a \in Whole : a.time.sec \in {-7, 6} /\ a.domain = <<0>>}

SomeFundings ==
  {Wallet, Foreign(<<1, 1, 2, 3>>, None)} \cup
  {Foreign(EncodeOpReturn(a), a) : a \in Whole} \cup
  UNION {{Foreign(b, a) : b \in Changed(EncodeOpReturn(a))} : a \in Few}

=============================================================================
