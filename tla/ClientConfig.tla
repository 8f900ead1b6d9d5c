---------------------------- MODULE ClientConfig ----------------------------
(***************************************************************************)
(* Where the settings of the reconnect loop come from: a configuration file *)
(* (client/src/config.rs) and the command line (Args in client/src/main.rs),*)
(* both of which may leave out any of them.  The other settings are merged  *)
(* in one of these two ways: server as the delays are, the rest, which have *)
(* no default on the command line, by taking what is there.                 *)
(***************************************************************************)
EXTENDS Naturals

CONSTANTS
    Delays,            \* delays a user may write, in seconds
    DefaultDelay,      \* default_reconnect_delay, also in Args (1)
    DefaultMaxDelay,   \* default_reconnect_max_delay, also in Args (60)
    Unset              \* not written

ASSUME ConfigAssumption ==
    /\ Delays \subseteq Nat
    /\ DefaultDelay \in Delays
    /\ DefaultMaxDelay \in Delays
    /\ Unset \notin Delays

ClientSettings ==
    [reconnect_delay : Delays, reconnect_max_delay : Delays, no_reconnect : BOOLEAN]

(* What a file or a command line says.  no_reconnect is a plain flag.       *)
Written ==
    [reconnect_delay : Delays \cup {Unset}, reconnect_max_delay : Delays \cup {Unset},
     no_reconnect : BOOLEAN]

Given(v, default) == IF v = Unset THEN default ELSE v

(* serde and clap both put the defaults in, so neither result tells an      *)
(* option that was written from one that was not.                           *)
WithDefaults(w) ==
    [w EXCEPT !.reconnect_delay = Given(@, DefaultDelay),
              !.reconnect_max_delay = Given(@, DefaultMaxDelay)]

load(file) == WithDefaults(file)
parse(cli) == WithDefaults(cli)

(* A delay on the command line counts unless it is the default.             *)
merge_cli_args(cfg, args) ==
    [reconnect_delay |->
        IF args.reconnect_delay # DefaultDelay
        THEN args.reconnect_delay ELSE cfg.reconnect_delay,
     reconnect_max_delay |->
        IF args.reconnect_max_delay # DefaultMaxDelay
        THEN args.reconnect_max_delay ELSE cfg.reconnect_max_delay,
     no_reconnect |-> cfg.no_reconnect \/ args.no_reconnect]

(* The settings main ends up with.  Without a file it starts from Default,  *)
(* which is what an empty file loads as.                                    *)
Configured == {merge_cli_args(load(file), parse(cli)) : file \in Written, cli \in Written}

=============================================================================
