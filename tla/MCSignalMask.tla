---------------------------- MODULE MCSignalMask ----------------------------
(* Two guest signals and one that felix86 needs. *)
EXTENDS SignalMask

CONSTANTS usr1, usr2, segv

MCMasks == {{}, {usr1, segv}}

Handler(m, nodefer, resethand) ==
    [func |-> "fn", mask |-> m, nodefer |-> nodefer, resethand |-> resethand]

\* SIG_DFL, SIG_IGN, a plain handler, and one that blocks the other signals and
\* has both flags.
MCHandlers == {Default, [Default EXCEPT !.func = "ign"], Handler({}, FALSE, FALSE),
               Handler({usr1, segv}, TRUE, TRUE)}

=============================================================================
