-------------------------------- MODULE MCLab4 --------------------------------
(***************************************************************************)
(* The interpreters and sigs, which share nothing, for TLC: one of the two *)
(* runs, the other does not begin.  Scripts have up to MaxLines lines.     *)
(***************************************************************************)
EXTENDS Interpreters, Sigs

VARIABLE program

MCLines == {<<"ends">>, <<"fails">>, <<"missing">>,
            <<"writes", "ends">>, <<"missing", "filter">>,
            <<"writes", "filter", "missing">>, <<"ends", "none", "ends">>}

runs_interpreter == program = "interpreter" /\ UNCHANGED <<program, vars>>
runs_sigs == program = "sigs" /\ UNCHANGED <<program, batchVars>>

(* Of the interpreter that does not run one start is as good as another. *)
OneStart ==
  ~extended /\ ~fclose_seeks /\ script = <<<<"ends">>>>

MCInit ==
  /\ BatchInit /\ Init
  /\ program \in {"interpreter", "sigs"}
  /\ program = "sigs" => OneStart

MCNext ==
  \/ runs_interpreter /\ BatchNext
  \/ runs_sigs /\ Next

MCSpec ==
  /\ MCInit /\ [][MCNext]_<<program, batchVars, vars>>
  /\ WF_batchVars(runs_interpreter /\ ParentStep)
  /\ \A p \in 1..MAX_PROGS_PIPED : WF_batchVars(runs_interpreter /\ ProcessStep(p))
===============================================================================
