---------------------- MODULE MCAlertManagerController ----------------------
(***************************************************************************)
(* Values for AlertManagerController: two configuration texts, one that    *)
(* Cortex refuses, and up to two template files.                           *)
(***************************************************************************)
EXTENDS AlertManagerController, TLC

MCTexts == {"", "c1", "c2", "bad", "x"}
MCRefused == {"", "bad"}

NoTemplates == <<>>
Full(name)  == name :> "x"
Blank(name) == name :> ""

Asks(tenant, config, templates) == [tenant |-> tenant, config |-> config, templates |-> templates]

Plain    == Asks("t1", "c1", NoTemplates)
Themed   == Asks("t1", "c1", Full("a"))
Rejected == Asks("t1", "bad", NoTemplates)
BlankA   == Asks("t1", "c1", Blank("a"))
BlankB   == Asks("t1", "c1", Blank("b"))
Apart    == Asks("t2", "c1", NoTemplates)

Asked  == {Plain, Rejected}
Turns  == {Plain, Themed, Apart}
Blanks == {BlankA, BlankB}

\* Any other specification for the same tenant.
MCEdits(specs) == {e \in specs \X specs : e[1] # e[2] /\ e[1].tenant = e[2].tenant}
AskedEdits  == MCEdits(Asked)
TurnsEdits  == MCEdits(Turns)
BlanksEdits == MCEdits(Blanks)

\* Another configuration, and one without a text.
MCForeignConfigs ==
  {[config |-> "c2", templates |-> NoTemplates], [config |-> "", templates |-> NoTemplates]}

\* Where nothing tells the resources apart.
Alike == Permutations(Res)
=============================================================================
