-------------------------- MODULE MCDockerSnapshot --------------------------
(* A host for TLC: two containers of two projects that run one repository   *)
(* under two tags; the name of the second one looks like an identifier.     *)
EXTENDS DockerSnapshot, TLC

CONSTANTS web, scratch, old, new, v1, v2, repo, demo, shop, all

TwoContainers == {web, scratch}

MCRepo         == v1 :> repo @@ v2 :> repo
MCRefOf        == [c \in Containers |-> IF c = web THEN v1 ELSE v2]
MCLabelOf      == [c \in Containers |-> IF c = web THEN demo ELSE shop]
MCImageLabel   == old :> demo @@ new :> NoProject
MCNameMentions == [c \in Containers |-> IF c = web THEN {shop} ELSE {}]
MCRefMentions  == v1 :> {} @@ v2 :> {shop}
=============================================================================
