--------------------------- MODULE DockerSnapshot ---------------------------
(***************************************************************************)
(* What /api/architecture and /api/docker say of the host's containers and *)
(* images: handleArchitecture, buildOverview, buildProjectOverview and the *)
(* collectDocker functions of src/internal/service/server.go.              *)
(*                                                                         *)
(* A handler asks the Docker daemon several questions, one after the       *)
(* other, while containers start, stop and are removed and tags move.      *)
(* Each question may fail.  An answer is put together from the replies.    *)
(*                                                                         *)
(* A tag is a reference such as repo:v1; Repo is what normalizeImageRef    *)
(* makes of it.  References that look like identifiers are left out: the   *)
(* code treats an image with no other reference as one without any.        *)
(***************************************************************************)
EXTENDS Naturals

CONSTANTS Handlers,       \* concurrent requests
          Containers, Images, Refs, NoImage, NoRef,
          Projects, NoProject,
          Repo,           \* Repo[r]: the reference without its tag
          RefOf,          \* RefOf[c]: the reference c is created from
          LabelOf,        \* LabelOf[c]: its compose project, or NoProject
          ImageLabel,     \* ImageLabel[i]: the same of an image
          Anonymous,      \* containers whose names look like identifiers
          NameMentions,   \* NameMentions[c]: projects its names contain
          RefMentions,    \* RefMentions[r]: projects the reference contains
          OwnProject,     \* the compose project archview itself runs in
          FullProjects    \* FULL_DOCKER_PROJECTS; Projects when it selects all

ASSUME HostAssumption ==
  /\ NoImage \notin Images /\ NoRef \notin Refs /\ NoProject \notin Projects
  /\ RefOf \in [Containers -> Refs]
  /\ LabelOf \in [Containers -> Projects \union {NoProject}]
  /\ ImageLabel \in [Images -> Projects \union {NoProject}]
  /\ Anonymous \subseteq Containers
  /\ NameMentions \in [Containers -> SUBSET Projects]
  /\ RefMentions \in [Refs -> SUBSET Projects]
  /\ OwnProject \in Projects \union {NoProject}
  /\ FullProjects \subseteq Projects

VARIABLES state,    \* state[c]: "absent", "running" or "exited"
          runs,     \* runs[c]: the image c was created from
          present,  \* the images on the host
          tag,      \* tag[r]: the image the reference names, or NoImage
          pc,       \* "idle", or the next question, "respond", "done", "failed"
          view,     \* "full", "project" or "docker": the collector at work
          project,  \* the project label it filters by, or NoProject
          counted,  \* the containers /info counted
          listed,   \* the containers the answer lists
          shown,    \* the references those were listed with
          pictured, \* the images the answer lists, each with its references
          touched   \* history: what changed since the handler's first question,
                    \* and the references that named no image after a change

dockerVars == <<state, runs, present, tag>>
vars == <<state, runs, present, tag, pc, view, project, counted, listed,
          shown, pictured, touched>>

Labels == {"idle", "info", "inspect", "containers", "images", "done", "failed"}

TypeOK ==
  /\ state \in [Containers -> {"absent", "running", "exited"}]
  /\ runs \in [Containers -> Images \union {NoImage}]
  /\ present \subseteq Images
  /\ tag \in [Refs -> present \union {NoImage}]
  /\ \A c \in Containers : state[c] # "absent" <=> runs[c] # NoImage
  /\ pc \in [Handlers -> Labels]
  /\ view \in [Handlers -> {"full", "project", "docker"}]
  /\ project \in [Handlers -> Projects \union {NoProject}]
  /\ counted \in [Handlers -> SUBSET Containers]
  /\ listed \in [Handlers -> SUBSET Containers]
  /\ shown \in [Handlers -> SUBSET (Refs \union {NoRef})]
  /\ pictured \in [Handlers -> SUBSET (Images \X SUBSET Refs)]
  /\ touched \in [Handlers -> SUBSET (Containers \union Images \union Refs)]

Init ==
  /\ state = [c \in Containers |-> "absent"]
  /\ runs = [c \in Containers |-> NoImage]
  /\ present = {}
  /\ tag = [r \in Refs |-> NoImage]
  /\ pc = [h \in Handlers |-> "idle"]
  /\ view = [h \in Handlers |-> "full"]
  /\ project = [h \in Handlers |-> NoProject]
  /\ counted = [h \in Handlers |-> {}]
  /\ listed = [h \in Handlers |-> {}]
  /\ shown = [h \in Handlers |-> {}]
  /\ pictured = [h \in Handlers |-> {}]
  /\ touched = [h \in Handlers |-> {}]

-----------------------------------------------------------------------------
(* The Docker host: not in src/. *)

Existing == {c \in Containers : state[c] # "absent"}
TagsOf(i) == {r \in Refs : tag[r] = i}

\* /containers/json names the image of a container by its reference, or by its
\* id once the reference names another image, or none.
ImageOf(c) == IF tag[RefOf[c]] = runs[c] THEN RefOf[c] ELSE NoRef

ContainerStarts(c) ==
  /\ state[c] # "running"
  /\ state[c] = "absent" => tag[RefOf[c]] # NoImage
  /\ state' = [state EXCEPT ![c] = "running"]
  /\ runs' = IF state[c] = "absent" THEN [runs EXCEPT ![c] = tag[RefOf[c]]] ELSE runs
  /\ UNCHANGED <<present, tag>>

ContainerExits(c) ==
  /\ state[c] = "running"
  /\ state' = [state EXCEPT ![c] = "exited"]
  /\ UNCHANGED <<runs, present, tag>>

ContainerRemoved(c) ==
  /\ state[c] = "exited"
  /\ state' = [state EXCEPT ![c] = "absent"]
  /\ runs' = [runs EXCEPT ![c] = NoImage]
  /\ UNCHANGED <<present, tag>>

\* A pull, a build or a tag.
ImageTagged(i, r) ==
  /\ tag[r] # i
  /\ present' = present \union {i}
  /\ tag' = [tag EXCEPT ![r] = i]
  /\ UNCHANGED <<state, runs>>

\* A reference goes away; its image may stay, without one.
Untagged(r) ==
  /\ tag[r] # NoImage
  /\ tag' = [tag EXCEPT ![r] = NoImage]
  /\ UNCHANGED <<state, runs, present>>

\* Only a running container holds its image: rmi -f takes that of a stopped one.
ImageRemoved(i) ==
  /\ i \in present
  /\ \A c \in Containers : state[c] = "running" => runs[c] # i
  /\ present' = present \ {i}
  /\ tag' = [r \in Refs |-> IF tag[r] = i THEN NoImage ELSE tag[r]]
  /\ UNCHANGED <<state, runs>>

\* The host changes under the handlers that are asking about it.
HostChanges ==
  /\ \/ \E c \in Containers : \/ ContainerStarts(c)
                              \/ ContainerExits(c)
                              \/ ContainerRemoved(c)
     \/ \E i \in Images, r \in Refs : ImageTagged(i, r)
     \/ \E r \in Refs : Untagged(r)
     \/ \E i \in Images : ImageRemoved(i)
  /\ LET Changed ==
           {c \in Containers : <<state[c], ImageOf(c)>>' # <<state[c], ImageOf(c)>>}
             \union {i \in Images : <<i \in present, TagsOf(i)>>'
                                      # <<i \in present, TagsOf(i)>>}
             \union {r \in Refs : tag'[r] = NoImage}
     IN  touched' = [h \in Handlers |->
                       IF pc[h] \in {"idle", "info", "failed"} THEN {}
                       ELSE touched[h] \union Changed]
  /\ UNCHANGED <<pc, view, project, counted, listed, shown, pictured>>

-----------------------------------------------------------------------------
(* Which containers and images an answer lists. *)

\* By its label, by the text of its image or of a name.
isProjectContainer(c, p) ==
  \/ LabelOf[c] = p
  \/ p \in NameMentions[c]
  \/ ImageOf(c) # NoRef /\ p \in RefMentions[ImageOf(c)]

\* Mutant: it is the image, not the container, that must not look like an identifier.
InFullByImage(c) == state[c] # "exited" /\ ImageOf(c) # NoRef

\* The full overview leaves out stopped containers and those without a name of
\* their own, whatever README.md:41 says of it.
InFull(c) == state[c] # "exited" /\ c \notin Anonymous

InProject(c, p) == isProjectContainer(c, p) /\ c \notin Anonymous

\* Docker filters by label, and lists running containers only.
InDocker(c, p) == state[c] = "running" /\ p \in {NoProject, LabelOf[c]}

Selected(c, v, p) ==
  /\ c \in Existing
  /\ \/ v = "full" /\ InFull(c)
     \/ v = "project" /\ InProject(c, p)
     \/ v = "docker" /\ InDocker(c, p)

\* Mutant: references are compared with their tags.
isProjectImageExact(i, refs) == TagsOf(i) \intersect refs # {}

\* isProjectImage: a tag of the repository of some listed container.
isProjectImage(i, refs) ==
  \E r \in TagsOf(i), s \in refs \ {NoRef} : Repo[r] = Repo[s]

isProjectImageForLabel(i, p) ==
  ImageLabel[i] = p \/ \E r \in TagsOf(i) : p \in RefMentions[r]

\* Mutant: without a label /api/docker shows the images of the whole host.
PicturedUnscoped(i, v, p, refs) ==
  /\ i \in present
  /\ TagsOf(i) # {}
  /\ v = "docker" => p = NoProject \/ isProjectImage(i, refs)
  /\ v = "project" => IF refs # {} THEN isProjectImage(i, refs)
                                   ELSE isProjectImageForLabel(i, p)

\* Mutant: an image is found by its label, not by the containers that run it.
PicturedByLabel(i, v, p, refs) ==
  /\ i \in present
  /\ TagsOf(i) # {}
  /\ v = "docker" => isProjectImage(i, refs)
  /\ v = "project" => isProjectImageForLabel(i, p)

\* Without a tag an image is anonymous; /api/docker matches tags only.
Pictured(i, v, p, refs) ==
  /\ i \in present
  /\ TagsOf(i) # {}
  /\ v = "docker" => isProjectImage(i, refs)
  /\ v = "project" => IF refs # {} THEN isProjectImage(i, refs)
                                   ELSE isProjectImageForLabel(i, p)

-----------------------------------------------------------------------------
(* The handlers. *)

Go(h, label) == pc' = [pc EXCEPT ![h] = label]

Start(h, v, p) ==
  /\ pc[h] = "idle"
  /\ Go(h, "info")
  /\ view' = [view EXCEPT ![h] = v]
  /\ project' = [project EXCEPT ![h] = p]
  /\ UNCHANGED <<dockerVars, counted, listed, shown, pictured, touched>>

\* handleArchitecture, with the project named or NoProject.
handleArchitecture(h, p) ==
  IF p = NoProject \/ p \in FullProjects THEN Start(h, "full", NoProject)
                                         ELSE Start(h, "project", p)

handleDocker(h) == Start(h, "docker", NoProject)

\* The daemon counts every container, stopped ones included.
Info(h) ==
  /\ pc[h] = "info"
  /\ counted' = [counted EXCEPT ![h] = Existing]
  /\ Go(h, IF view[h] = "docker" THEN "inspect" ELSE "containers")
  /\ UNCHANGED <<dockerVars, view, project, listed, shown, pictured, touched>>

\* composeProjectLabel: archview looks itself up.  When that fails, for whatever
\* reason, collectDocker goes on without a label.
Inspect(h) ==
  /\ pc[h] = "inspect"
  /\ \E p \in {OwnProject, NoProject} : project' = [project EXCEPT ![h] = p]
  /\ Go(h, "containers")
  /\ UNCHANGED <<dockerVars, view, counted, listed, shown, pictured, touched>>

ListContainers(h) ==
  /\ pc[h] = "containers"
  /\ LET chosen == {c \in Containers : Selected(c, view[h], project[h])} IN
       /\ listed' = [listed EXCEPT ![h] = chosen]
       /\ shown' = [shown EXCEPT ![h] = {ImageOf(c) : c \in chosen}]
  /\ Go(h, "images")
  /\ UNCHANGED <<dockerVars, view, project, counted, pictured, touched>>

\* The last question.  The host's own figures never fail, so the handler
\* responds with what it has.
ListImages(h) ==
  /\ pc[h] = "images"
  /\ pictured' = [pictured EXCEPT ![h] =
       {<<i, TagsOf(i)>> : i \in {j \in Images : Pictured(j, view[h], project[h], shown[h])}}]
  /\ Go(h, "done")
  /\ UNCHANGED <<dockerVars, view, project, counted, listed, shown, touched>>

\* What the handler gathered is dropped.
Drop(h, label) ==
  /\ Go(h, label)
  /\ view' = [view EXCEPT ![h] = "full"]
  /\ project' = [project EXCEPT ![h] = NoProject]
  /\ counted' = [counted EXCEPT ![h] = {}]
  /\ listed' = [listed EXCEPT ![h] = {}]
  /\ shown' = [shown EXCEPT ![h] = {}]
  /\ pictured' = [pictured EXCEPT ![h] = {}]
  /\ touched' = [touched EXCEPT ![h] = {}]
  /\ UNCHANGED dockerVars

\* 500, whatever was read so far.
QuestionFails(h) == pc[h] \in {"info", "containers", "images"} /\ Drop(h, "failed")

Finish(h) == pc[h] \in {"done", "failed"} /\ Drop(h, "idle")

Next ==
  \/ \E h \in Handlers :
       \/ \E p \in Projects \union {NoProject} : handleArchitecture(h, p)
       \/ handleDocker(h)
       \/ Info(h) \/ Inspect(h) \/ ListContainers(h) \/ ListImages(h)
       \/ QuestionFails(h) \/ Finish(h)
  \/ HostChanges

Spec == Init /\ [][Next]_vars

-----------------------------------------------------------------------------
(* Properties. *)

Answers(h, v) == pc[h] = "done" /\ view[h] = v

\* An answer is not a picture of one moment.  Yet of the containers that did not
\* change while it was put together it lists every running one that has a name and
\* is of the project asked for, or of any when none is asked for; what it lists
\* exists, and the daemon's figures count it; and /api/docker lists running
\* containers of archview's own project alone (server.go:928-1100).
UnchangedContainersListed ==
  \A h \in Handlers : pc[h] = "done" =>
    \A c \in Containers \ touched[h] :
      /\ c \in Existing <=> c \in counted[h]
      /\ c \in listed[h] => c \in counted[h]
      /\ /\ state[c] = "running" /\ c \notin Anonymous
         /\ project[h] \in {NoProject, LabelOf[c]}
         => c \in listed[h]
      /\ view[h] = "docker" /\ c \in listed[h] =>
           state[c] = "running" /\ project[h] \in {NoProject, LabelOf[c]}

\* README.md:41, the project-scoped snapshot: a container of the project, going
\* by its label, is shown whatever its state, and the images of its repository
\* with it, all tags of them, if none of them changed meanwhile.
ProjectShownWithImages ==
  \A h \in Handlers : Answers(h, "project") =>
    \A c \in Existing \ (touched[h] \union Anonymous) :
      LabelOf[c] = project[h] =>
        /\ c \in listed[h]
        /\ ImageOf(c) # NoRef =>
             \A i \in present \ touched[h] :
               (\E r \in TagsOf(i) : Repo[r] = Repo[RefOf[c]])
                 => <<i, TagsOf(i)>> \in pictured[h]

\* A tag may move between the list of the containers and that of the images, and
\* then the answer does not show the image a container runs.  Yet it shows one for
\* every reference it shows a container with, unless the reference was removed
\* meanwhile (server.go:1050-1123): the two lists never fall apart.
ReferencesPictured ==
  \A h \in Handlers : pc[h] = "done" =>
    \A s \in shown[h] \ {NoRef} :
      s \in touched[h] \/ \E e \in pictured[h] : s \in e[2]

\* No image slips in that has nothing to do with the answer, whatever changed
\* between the two lists: but for the full overview each one is shown with a
\* reference of the repository of a listed container, or the snapshot lists no
\* container and goes by the project's label and by what references mention
\* (isProjectImage, isProjectImageForLabel).
PicturesBelong ==
  \A h \in Handlers : pc[h] = "done" /\ view[h] # "full" =>
    \A e \in pictured[h] :
      IF listed[h] # {}
      THEN \E c \in listed[h], r \in e[2] :
             RefOf[c] \in shown[h] /\ Repo[r] = Repo[RefOf[c]]
      ELSE /\ view[h] = "project"
           /\ \/ ImageLabel[e[1]] = project[h]
              \/ \E r \in e[2] : project[h] \in RefMentions[r]
=============================================================================
