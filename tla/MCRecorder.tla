----------------------------- MODULE MCRecorder -----------------------------
(* Four interfaces: two whose DBCs agree on "Speed" and not on "Gear", one  *)
(* whose messages cannot be told apart once their names are sanitized, and  *)
(* one without a DBC.                                                       *)
EXTENDS Recorder, TLC

MCInterfaces == {"can0", "can1", "can2", "can3"}
MCIds == {"0x100", "0x200"}

Sig(n, w) == [name |-> n, when |-> w]
Msg(n, sigs) == [name |-> n, signals |-> sigs]

Speed == Msg("Speed", << Sig("rpm", "m0"), Sig("v max", "always"), Sig("slip", "m1") >>)

MCDbc ==
  [can0 |-> ("0x100" :> Speed)
              @@ ("0x200" :> Msg("Gear", << Sig("slip", "always") >>)),
   can1 |-> ("0x200" :> Speed)
              @@ ("0x100" :> Msg("Gear", << Sig("rpm", "always"), Sig("slip", "m1") >>)),
   can2 |-> ("0x100" :> Msg("A B", << Sig("rpm", "always") >>))
              @@ ("0x200" :> Msg("A-B", << Sig("slip", "m0") >>))]

MCSafe == [x \in {"Speed", "Gear", "rpm", "slip", "v max", "A B", "A-B"} |->
             CASE x = "v max" -> "v_max" [] x \in {"A B", "A-B"} -> "A_B" [] OTHER -> x]

m0 == [long |-> TRUE, mux |-> "m0"]
m1 == [long |-> TRUE, mux |-> "m1"]
short == [long |-> FALSE, mux |-> "m0"]
MCPayloads == {m0, m1, short}

Frame(i, id, p) == [interface |-> i, id |-> id, payload |-> p]
MCBus ==
  {Frame("can0", "0x100", p) : p \in {m1, short}} \cup {Frame("can0", "0x200", m1)}
    \cup {Frame("can1", "0x200", m0), Frame("can1", "0x100", m1)}
    \cup {Frame("can2", "0x100", m0), Frame("can2", "0x200", m1), Frame("can3", "0x100", m0)}
=============================================================================
