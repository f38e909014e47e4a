----------------------------- MODULE MCRecords ------------------------------
(***************************************************************************)
(* Instances of the Linear relay and of what the server keeps: the         *)
(* projects, the published artifacts with their content, the database      *)
(* through an upgrade, the copies artifacts are written in, and the token  *)
(* file. A behaviour is of one component, which part names; the components *)
(* share no state here, so the union of their instances is checked in one  *)
(* run. The properties are those their modules state.                      *)
(***************************************************************************)
EXTENDS LinearRelay, Projects, Publishing, DocumentSnapshot, AuthToken, Integers, TLC

CONSTANTS Null, Nil, u1, u2, u3, v1, v2, s1, s2, mention, followUp, bare

VARIABLE part   \* the component this behaviour is of

Symmetry == Permutations(Threads)

\* A session that is mentioned, with a follow-up, and one created without
\* anything to act on.
Subject == [d \in Deliveries |-> IF d = bare THEN s2 ELSE s1]
Kinds == [d \in Deliveries |-> CASE d = followUp -> "prompted"
                                 [] d = bare     -> "bare"
                                 [] OTHER        -> "mention"]

\* Two processes of one build of atc, and one of a newer.
Builds == u1 :> "old" @@ u2 :> "new" @@ u3 :> "old"

\* Bounds: the publications that meet failures and restarts; as many as MaxPubs
\* follow one another, of one artifact, where nothing fails.
MaxTroubled == 2
OneArtifact == 1

\* Bound: a behaviour of the relay meets a fault or a restart, not both.
MaxSetbacks == 1

\* Threads started below one project's directory and beside it.
Homes == v1 :> <<"a", "b">> @@ v2 :> <<"a", "bc">>
Roots == {<<"a">>, <<"a", "b">>, <<"a", "bc", "d">>}

copyVars == <<platformVars, snapshotVars>>
fileVars == <<upgradeVars, tokenVars>>

\* The token's file may be a fragment from the start.
PartInit ==
    /\ Init /\ ProjectsInit /\ PublishingInit /\ PlatformInit /\ SnapshotInit
    /\ UpgradeInit /\ TokenInit
    /\ part \in {"linearrelay", "projects", "publishing", "updating",
                 "platform", "snapshot", "upgrade", "token"}
    /\ part # "token" => file = Absent

\* A step of a component; the others stay as they are.
PartNext ==
    /\ UNCHANGED part
    /\ \/ /\ part = "linearrelay" /\ Next /\ faults' + crashes' <= MaxSetbacks
          /\ UNCHANGED <<projectVars, publishingVars, copyVars, fileVars>>
       \/ /\ part = "projects" /\ ProjectsNext
          /\ UNCHANGED <<vars, publishingVars, copyVars, fileVars>>
       \/ /\ part = "publishing" /\ PublishingNext /\ published' <= MaxTroubled
          /\ UNCHANGED <<vars, projectVars, copyVars, fileVars>>
       \/ /\ part = "updating" /\ PublishingNext /\ failures' = 0 /\ restarts' = 0
          /\ \A dir \in content' : dir.artifact = OneArtifact
          /\ UNCHANGED <<vars, projectVars, copyVars, fileVars>>
       \/ /\ part = "platform" /\ PlatformNext
          /\ UNCHANGED <<vars, projectVars, publishingVars, snapshotVars, fileVars>>
       \/ /\ part = "snapshot" /\ SnapshotNext
          /\ UNCHANGED <<vars, projectVars, publishingVars, platformVars, fileVars>>
       \/ /\ part = "upgrade" /\ UpgradeNext
          /\ UNCHANGED <<vars, projectVars, publishingVars, copyVars, tokenVars>>
       \/ /\ part = "token" /\ TokenNext
          /\ UNCHANGED <<vars, projectVars, publishingVars, copyVars, upgradeVars>>

allVars == <<part, vars, projectVars, publishingVars, copyVars, fileVars>>

PartSpec == PartInit /\ [][PartNext]_allVars

=============================================================================
