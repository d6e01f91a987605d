------------------------------ MODULE MCDaemon ------------------------------
(* Small instances of Daemon: three commands, in any order and overlapping,  *)
(* given in different Pi processes.                                          *)
EXTENDS Daemon, TLC

CONSTANTS r1, r2, r3, policy, words, plain, other, junk

MCEnvValue == [k \in Key |-> other]
Plan(a, b, c) == r1 :> a @@ r2 :> b @@ r3 :> c

With(env, commands, ones) ==
    {[env |-> env, cmd |-> commands, may |-> {one}] : one \in ones}

(* Settings that are written by three commands, with and without the         *)
(* credentials in the environment.                                           *)
MCSettings == UNION {With(env, commands, {"race", "dies"}) : env \in BOOLEAN, commands \in {
    Plan("set", "clear", "autostart"), Plan("set", "set", "clear"), Plan("set", "setup", "reset"),
    Plan("setup", "autostart", "reset")}}

(* Daemons.                                                                  *)
MCDaemons ==
    With(FALSE, Plan("start", "restart", "none"), {"dies", "crash", "slow", "failed"})
        \cup With(FALSE, Plan("start", "start", "stop"), {"crash", "slow", "dies"})
        \cup With(FALSE, Plan("start", "restart", "start"), {"crash"})
        \cup With(FALSE, Plan("restart", "restart", "none"), {"failed"})
        \cup With(FALSE, Plan("setup", "start", "none"), {"failed"})
        \cup With(FALSE, Plan("start", "stop", "boot"), {"slow"})
        \cup With(FALSE, Plan("start", "reset", "boot"), {"crash"})
        \cup With(FALSE, Plan("boot", "autostart", "restart"), {"failed"})

MCCases == MCSettings \cup MCDaemons
MCClear == With(FALSE, Plan("set", "autostart", "clear"), {"race"})
=============================================================================
