----------------------------- MODULE MCRouting -----------------------------
(***************************************************************************)
(* Five kinds of traffic, with two instances of Neon: a user and a bot who *)
(* ask Neon and may search for it at once; a request for audio, whose      *)
(* answer is an error; bots that mention others in front of their texts,   *)
(* with commands and controls, and with bodies that lack a key.            *)
(***************************************************************************)
EXTENDS Routing, TLC

CONSTANTS m1, m2, m3, s1, s2

Arrives(by, complete, prefix, mentions, leading) ==
    [by |-> by, complete |-> complete, prefix |-> prefix,
     mentions |-> mentions, leading |-> leading]

MCBots == {"proctor", "scorekeeper", "automator", "bob", "bob_gpt"}
MCFullName == [b \in MCBots |-> IF b = "bob" THEN "bob_gpt" ELSE b]
ForNeon == m1 :> Arrives("user", TRUE, "neon", {}, "no")
        @@ m2 :> Arrives("bot", TRUE, "neon", {"bob"}, "no")
        @@ m3 :> Arrives("neon", TRUE, "none", {}, "no")
ForAudio == m1 :> Arrives("audio", TRUE, "none", {}, "no")
         @@ m2 :> Arrives("service", TRUE, "none", {}, "no")
         @@ m3 :> Arrives("neon", FALSE, "none", {}, "no")
ForBots == m1 :> Arrives("bot", TRUE, "none", {"bob"}, "only")
        @@ m2 :> Arrives("user", TRUE, "prompt", {}, "no")
        @@ m3 :> Arrives("control", TRUE, "none", {}, "no")
Incomplete == m1 :> Arrives("bot", TRUE, "none", {"bob"}, "some")
           @@ m2 :> Arrives("service", FALSE, "none", {}, "no")
           @@ m3 :> Arrives("data", FALSE, "none", {}, "no")
Prompting == m1 :> Arrives("asker", TRUE, "none", {}, "no")
          @@ m2 :> Arrives("asker", FALSE, "none", {}, "no")
          @@ m3 :> Arrives("data", TRUE, "none", {}, "no")
MCTraffic == {ForNeon, ForAudio, ForBots, Incomplete, Prompting}
MCQuestion == [m \in Messages |-> m1]
=============================================================================
