--------------------------- MODULE MCConnectors ---------------------------
(* Two processes; a and a_ collide on one attribute, ai is ctx's own, b has *)
(* credentials.  A header comes in two spellings; X-Secret is on no list.   *)
EXTENDS Connectors, TLC

MCSymmetry == Permutations(Procs)

MCNames == {"a", "a_", "b", "ai"}
MCAttr == [n \in MCNames |-> IF n = "a_" THEN "a" ELSE n]

MCHeaders == {"Authorization", "authorization", "X-Secret"}
MCRecognised == {"Authorization", "authorization", "TOKEN"}
MCSlots == MCHeaders \cup {"TOKEN"}

E(n, s, v) == [name |-> n, cred |-> [r \in MCSlots |-> IF r = s THEN v ELSE "none"]]
Bare(n) == E(n, "TOKEN", "none")
Command(k, s) == [kind |-> k, entries |-> s]

MCCommands ==
    { Command("init",   <<E("b", "Authorization", "own"), Bare("a"), E("b", "Authorization", "literal")>>),
      Command("add",    <<E("b", "Authorization", "own")>>),
      Command("add",    <<E("a", "authorization", "literal")>>),
      Command("add",    <<E("a", "X-Secret", "literal")>>),
      Command("add",    <<Bare("ai")>>),
      Command("import", <<E("a_", "Authorization", "literal"), E("b", "Authorization", "generated")>>),
      Command("import", <<E("b", "authorization", "literal")>>),
      Command("import", <<Bare("b"), E("b", "Authorization", "generated")>>),
      Command("chat",   <<E("a", "TOKEN", "own")>>),
      Command("remove", <<Bare("b")>>),
      Command("remove", <<Bare("a")>>),
      Command("sync",   <<>>) }
=============================================================================
