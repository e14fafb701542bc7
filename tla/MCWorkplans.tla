---------------------------- MODULE MCWorkplans ----------------------------
(* Instances of Workplans for TLC: two Jobs with a program of their own, or *)
(* two Jobs of one program and content beside one of another.               *)
EXTENDS Workplans, TLC

OwnPrograms   == "j1" :> "P1" @@ "j2" :> "P2"
OwnContents   == "j1" :> "h1" @@ "j2" :> "h2"
MixedPrograms == [j \in Jobs |-> IF j = "j3" THEN "P2" ELSE "P1"]
MixedContents == [j \in Jobs |-> IF j = "j3" THEN "h2" ELSE "h1"]

NoLegacy  == {}
OldPlans  == {[id |-> Identity("P1", NoHash), steps |-> "nc"],
              [id |-> Identity("P2", NoHash), steps |-> "none"],
              [id |-> Identity(Unknown, NoHash), steps |-> "nc"]}

AllFiles == FileKinds \X Jobs
OneTdms  == ({"xml", "nc"} \X Jobs) \cup {<<"tdms", "j1">>, <<"log", "j2">>}
=============================================================================
