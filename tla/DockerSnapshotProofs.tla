------------------------ MODULE DockerSnapshotProofs ------------------------
(***************************************************************************)
(* Theorems about DockerSnapshot, for every number of concurrent requests, *)
(* every set of containers, images, references and projects, and whatever  *)
(* the names, labels and references mention.                               *)
(***************************************************************************)
EXTENDS DockerSnapshot, TLAPS

Counting == {"inspect", "containers", "images", "done"}
Listing  == {"images", "done"}

\* What the answer says of its images belongs together, whatever the host is now.
EntriesBelong(h) ==
  view[h] # "full" =>
    \A e \in pictured[h] :
      IF shown[h] # {}
      THEN \E r \in e[2], s \in shown[h] \ {NoRef} : Repo[r] = Repo[s]
      ELSE /\ view[h] = "project"
           /\ \/ ImageLabel[e[1]] = project[h]
              \/ \E r \in e[2] : project[h] \in RefMentions[r]

\* What each reply still owes to the host as it is now: it is right about
\* everything that has not changed since the first question, and a reference it
\* shows names an image unless it is gone.
HandlerInv(h) ==
  /\ view[h] = "project" => project[h] # NoProject
  /\ pc[h] = "inspect" => view[h] = "docker"
  /\ pc[h] \in {"idle", "info", "failed"} => touched[h] = {}
  /\ pc[h] \in Counting =>
       \A c \in Containers \ touched[h] : c \in Existing <=> c \in counted[h]
  /\ pc[h] \in Listing =>
       /\ \A c \in Containers \ touched[h] :
            /\ (c \in listed[h]) <=> Selected(c, view[h], project[h])
            /\ c \in listed[h] => ImageOf(c) \in shown[h]
       /\ \A s \in shown[h] \ {NoRef} : \E c \in listed[h] : s = RefOf[c]
       /\ shown[h] = {} <=> listed[h] = {}
  /\ pc[h] = "images" =>
       \A s \in shown[h] \ {NoRef} : s \in touched[h] \/ tag[s] # NoImage
  /\ pc[h] = "done" =>
       /\ \A i \in Images \ touched[h] :
            Pictured(i, view[h], project[h], shown[h]) => <<i, TagsOf(i)>> \in pictured[h]
       /\ \A s \in shown[h] \ {NoRef} :
            s \in touched[h] \/ \E e \in pictured[h] : s \in e[2]
       /\ EntriesBelong(h)

Inv == TypeOK /\ \A h \in Handlers : HandlerInv(h)

\* Nobody has asked anything at first.
LEMMA InvInit == Init => Inv
  <1> SUFFICES ASSUME Init PROVE Inv
    OBVIOUS
  <1>1. TypeOK
    BY DEF Init, TypeOK, Labels
  <1>2. ASSUME NEW h \in Handlers PROVE HandlerInv(h)
    BY DEF Init, HandlerInv, Counting, Listing
  <1> QED
    BY <1>1, <1>2 DEF Inv

\* A reference is shown only where it names the image.
LEMMA ImageOfType ==
  ASSUME NEW c \in Containers
  PROVE  /\ ImageOf(c) \in Refs \union {NoRef}
         /\ ImageOf(c) # NoRef => ImageOf(c) = RefOf[c]
  BY HostAssumption DEF ImageOf

\* A handler whose host and replies stay as they are keeps its part.
LEMMA Untouched ==
  ASSUME NEW h \in Handlers, HandlerInv(h), UNCHANGED dockerVars,
         pc'[h] = pc[h], view'[h] = view[h], project'[h] = project[h],
         counted'[h] = counted[h], listed'[h] = listed[h], shown'[h] = shown[h],
         pictured'[h] = pictured[h], touched'[h] = touched[h]
  PROVE  HandlerInv(h)'
  BY DEF HandlerInv, dockerVars, Existing, Selected, InFull, InProject, InDocker,
         isProjectContainer, ImageOf, Pictured, TagsOf, isProjectImage,
         isProjectImageForLabel, EntriesBelong

\* A request starts, and asks for nothing yet.
LEMMA StartStep ==
  ASSUME Inv, NEW h \in Handlers, NEW v \in {"full", "project", "docker"},
         NEW p \in Projects \union {NoProject}, v = "project" => p # NoProject,
         Start(h, v, p)
  PROVE  Inv'
  <1>1. TypeOK'
    BY DEF Inv, TypeOK, Start, Go, dockerVars, Labels
  <1>2. HandlerInv(h)'
    BY DEF Inv, TypeOK, HandlerInv, Start, Go, Counting, Listing
  <1>3. ASSUME NEW g \in Handlers, g # h PROVE HandlerInv(g)'
    BY <1>3, Untouched DEF Inv, TypeOK, Start, Go
  <1> QED
    BY <1>1, <1>2, <1>3 DEF Inv

\* The daemon counts its containers at this moment.
LEMMA InfoStep ==
  ASSUME Inv, NEW h \in Handlers, Info(h)
  PROVE  Inv'
  <1>1. TypeOK'
    BY DEF Inv, TypeOK, Info, Go, dockerVars, Labels, Existing
  <1>2. HandlerInv(h)'
    BY DEF Inv, TypeOK, HandlerInv, Info, Go, Counting, Listing, dockerVars, Existing
  <1>3. ASSUME NEW g \in Handlers, g # h PROVE HandlerInv(g)'
    BY <1>3, Untouched DEF Inv, TypeOK, Info, Go
  <1> QED
    BY <1>1, <1>2, <1>3 DEF Inv

\* What archview learns of its own project touches no list.
LEMMA InspectStep ==
  ASSUME Inv, NEW h \in Handlers, Inspect(h)
  PROVE  Inv'
  <1>1. TypeOK'
    BY HostAssumption DEF Inv, TypeOK, Inspect, Go, dockerVars, Labels
  <1>2. HandlerInv(h)'
    BY DEF Inv, TypeOK, HandlerInv, Inspect, Go, Counting, Listing, dockerVars, Existing
  <1>3. ASSUME NEW g \in Handlers, g # h PROVE HandlerInv(g)'
    BY <1>3, Untouched DEF Inv, TypeOK, Inspect, Go
  <1> QED
    BY <1>1, <1>2, <1>3 DEF Inv

\* The containers are listed, and shown with their references, of this moment.
LEMMA ContainersStep ==
  ASSUME Inv, NEW h \in Handlers, ListContainers(h)
  PROVE  Inv'
  <1> DEFINE chosen == {c \in Containers : Selected(c, view[h], project[h])}
  <1>0. /\ pc[h] = "containers" /\ pc' = [pc EXCEPT ![h] = "images"]
        /\ listed' = [listed EXCEPT ![h] = chosen]
        /\ shown' = [shown EXCEPT ![h] = {ImageOf(c) : c \in chosen}]
        /\ UNCHANGED <<dockerVars, view, project, counted, pictured, touched>>
    BY DEF ListContainers, Go
  <1>1. {ImageOf(c) : c \in chosen} \subseteq Refs \union {NoRef}
    BY ImageOfType
  <1>2. TypeOK'
    BY <1>0, <1>1 DEF Inv, TypeOK, dockerVars, Labels
  <1>3. HandlerInv(h)'
    <2>1. listed'[h] = chosen /\ shown'[h] = {ImageOf(c) : c \in chosen}
      BY <1>0 DEF Inv, TypeOK
    <2>2. \A c \in Containers : Selected(c, view[h], project[h])'
                                  <=> Selected(c, view[h], project[h])
      BY <1>0 DEF dockerVars, Selected, Existing, InFull, InProject, InDocker,
                  isProjectContainer, ImageOf
    <2>3. \A c \in Containers : ImageOf(c)' = ImageOf(c)
      BY <1>0 DEF dockerVars, ImageOf
    <2>4. \A c \in Containers \ touched'[h] :
            /\ (c \in listed'[h]) <=> Selected(c, view[h], project[h])'
            /\ c \in listed'[h] => ImageOf(c)' \in shown'[h]
      BY <2>1, <2>2, <2>3
    <2>5. \A s \in shown'[h] \ {NoRef} : \E c \in listed'[h] : s = RefOf[c]
      BY <2>1, ImageOfType
    <2>6. shown'[h] = {} <=> listed'[h] = {}
      BY <2>1
    <2>7. pc[h] \in Counting /\ pc'[h] = "images"
      BY <1>0 DEF Counting, Inv, TypeOK
    <2>8. \A c \in Containers \ touched'[h] : (c \in Existing)' <=> c \in counted'[h]
      BY <1>0, <2>7 DEF Inv, HandlerInv, dockerVars, Existing
    <2>9. ASSUME NEW s \in shown'[h] \ {NoRef} PROVE tag'[s] # NoImage
      <3>1. PICK c \in Containers : c \in Existing /\ s = ImageOf(c)
        BY <2>1, <2>9 DEF Selected
      <3>2. s = RefOf[c] /\ tag[RefOf[c]] = runs[c]
        BY <2>9, <3>1 DEF ImageOf
      <3>3. runs[c] # NoImage
        BY <3>1 DEF Inv, TypeOK, Existing
      <3> QED
        BY <1>0, <3>2, <3>3 DEF dockerVars
    <2>10. view'[h] = "project" => project'[h] # NoProject
      BY <1>0 DEF Inv, HandlerInv
    <2> QED
      BY <2>4, <2>5, <2>6, <2>7, <2>8, <2>9, <2>10 DEF HandlerInv, Counting, Listing
  <1>4. ASSUME NEW g \in Handlers, g # h PROVE HandlerInv(g)'
    BY <1>0, <1>4, Untouched DEF Inv, TypeOK
  <1> QED
    BY <1>2, <1>3, <1>4 DEF Inv

\* The images are chosen, by the references shown, at this moment.
LEMMA ImagesStep ==
  ASSUME Inv, NEW h \in Handlers, ListImages(h)
  PROVE  Inv'
  <1> DEFINE wanted == {i \in Images : Pictured(i, view[h], project[h], shown[h])}
             chosen == {<<i, TagsOf(i)>> : i \in wanted}
  <1>0. /\ pc[h] = "images" /\ pc' = [pc EXCEPT ![h] = "done"]
        /\ pictured' = [pictured EXCEPT ![h] = chosen]
        /\ UNCHANGED <<dockerVars, view, project, counted, listed, shown, touched>>
    BY DEF ListImages, Go
  <1>1. TypeOK'
    <2>1. chosen \subseteq Images \X SUBSET Refs
      BY DEF TagsOf
    <2> QED
      BY <1>0, <2>1 DEF Inv, TypeOK, dockerVars, Labels
  <1>2. HandlerInv(h)'
    <2>1. pc[h] \in Counting /\ pc[h] \in Listing /\ pc'[h] = "done"
      BY <1>0 DEF Counting, Listing, Inv, TypeOK
    <2>2. /\ \A c \in Containers \ touched'[h] : (c \in Existing)' <=> c \in counted'[h]
          /\ \A c \in Containers \ touched'[h] :
               /\ (c \in listed'[h]) <=> Selected(c, view[h], project[h])'
               /\ c \in listed'[h] => ImageOf(c)' \in shown'[h]
          /\ \A s \in shown'[h] \ {NoRef} : \E c \in listed'[h] : s = RefOf[c]
          /\ shown'[h] = {} <=> listed'[h] = {}
      BY <1>0, <2>1 DEF Inv, HandlerInv, dockerVars, Existing, Selected, InFull,
                        InProject, InDocker, isProjectContainer, ImageOf
    <2>3. \A i \in Images : /\ Pictured(i, view[h], project[h], shown[h])'
                                 <=> Pictured(i, view[h], project[h], shown[h])
                            /\ TagsOf(i)' = TagsOf(i)
      BY <1>0 DEF dockerVars, Pictured, TagsOf, isProjectImage, isProjectImageForLabel
    <2>4. /\ pictured'[h] = chosen /\ shown'[h] = shown[h] /\ touched'[h] = touched[h]
          /\ view'[h] = view[h] /\ project'[h] = project[h]
          /\ listed'[h] = listed[h] /\ counted'[h] = counted[h]
      BY <1>0 DEF Inv, TypeOK
    <2>5. \A i \in Images \ touched'[h] :
            Pictured(i, view[h], project[h], shown[h])' => <<i, TagsOf(i)>>' \in pictured'[h]
      BY <2>3, <2>4
    <2>6. ASSUME NEW s \in shown[h] \ {NoRef}, s \notin touched[h]
          PROVE  \E e \in chosen : s \in e[2]
      <3>1. s \in Refs /\ tag[s] # NoImage
        BY <1>0, <2>6 DEF Inv, TypeOK, HandlerInv
      <3>2. tag[s] \in present /\ present \subseteq Images
        BY <3>1 DEF Inv, TypeOK
      <3>3. s \in TagsOf(tag[s]) /\ isProjectImage(tag[s], shown[h])
        BY <2>6, <3>1 DEF TagsOf, isProjectImage
      <3>4. Pictured(tag[s], view[h], project[h], shown[h])
        BY <2>6, <3>2, <3>3 DEF Pictured
      <3>5. <<tag[s], TagsOf(tag[s])>> \in chosen
        BY <3>2, <3>4
      <3> QED
        BY <3>3, <3>5
    <2>7. EntriesBelong(h)'
      <3> SUFFICES ASSUME view[h] # "full", NEW i \in wanted
                   PROVE  IF shown[h] # {}
                          THEN \E r \in TagsOf(i), s \in shown[h] \ {NoRef} : Repo[r] = Repo[s]
                          ELSE /\ view[h] = "project"
                               /\ \/ ImageLabel[i] = project[h]
                                  \/ \E r \in TagsOf(i) : project[h] \in RefMentions[r]
        BY <2>4 DEF EntriesBelong
      <3>1. Pictured(i, view[h], project[h], shown[h]) /\ view[h] \in {"project", "docker"}
        BY DEF Inv, TypeOK
      <3> QED
        BY <3>1 DEF Pictured, isProjectImage, isProjectImageForLabel
    <2>8. \A s \in shown'[h] \ {NoRef} :
            s \in touched'[h] \/ \E e \in pictured'[h] : s \in e[2]
      BY <2>4, <2>6
    <2>9. view'[h] = "project" => project'[h] # NoProject
      BY <2>4 DEF Inv, HandlerInv
    <2> QED
      BY <2>1, <2>2, <2>5, <2>7, <2>8, <2>9 DEF HandlerInv, Counting, Listing
  <1>3. ASSUME NEW g \in Handlers, g # h PROVE HandlerInv(g)'
    BY <1>0, <1>3, Untouched DEF Inv, TypeOK
  <1> QED
    BY <1>1, <1>2, <1>3 DEF Inv

\* A handler that drops its replies owes nothing.
LEMMA DropStep ==
  ASSUME Inv, NEW h \in Handlers, NEW label \in {"failed", "idle"}, Drop(h, label)
  PROVE  Inv'
  <1>1. TypeOK'
    BY DEF Inv, TypeOK, Drop, Go, dockerVars, Labels
  <1>2. HandlerInv(h)'
    BY DEF Inv, TypeOK, HandlerInv, Drop, Go, Counting, Listing
  <1>3. ASSUME NEW g \in Handlers, g # h PROVE HandlerInv(g)'
    BY <1>3, Untouched DEF Inv, TypeOK, Drop, Go
  <1> QED
    BY <1>1, <1>2, <1>3 DEF Inv

\* The host stays a host: a container was made from an image, and tags name
\* images that are there.
LEMMA HostTypes ==
  ASSUME TypeOK, HostChanges
  PROVE  /\ state' \in [Containers -> {"absent", "running", "exited"}]
         /\ runs' \in [Containers -> Images \union {NoImage}]
         /\ present' \subseteq Images
         /\ tag' \in [Refs -> present' \union {NoImage}]
         /\ \A c \in Containers : state'[c] # "absent" <=> runs'[c] # NoImage
  <1> USE DEF TypeOK
  <1>1. CASE \E c \in Containers : ContainerStarts(c)
    <2>1. PICK c \in Containers : ContainerStarts(c)
      BY <1>1
    <2>2. tag[RefOf[c]] \in present \union {NoImage} /\ (state[c] = "absent" => tag[RefOf[c]] \in present)
      BY <2>1, HostAssumption DEF ContainerStarts
    <2> QED
      BY <2>1, <2>2, HostAssumption DEF ContainerStarts
  <1>2. CASE \E c \in Containers : ContainerExits(c)
    BY <1>2 DEF ContainerExits
  <1>3. CASE \E c \in Containers : ContainerRemoved(c)
    BY <1>3 DEF ContainerRemoved
  <1>4. CASE \E i \in Images, r \in Refs : ImageTagged(i, r)
    BY <1>4 DEF ImageTagged
  <1>5. CASE \E i \in Images : ImageRemoved(i)
    BY <1>5 DEF ImageRemoved
  <1>6. CASE \E r \in Refs : Untagged(r)
    BY <1>6 DEF Untagged
  <1> QED
    BY <1>1, <1>2, <1>3, <1>4, <1>5, <1>6 DEF HostChanges

\* What is not among the changes is what it was, as far as any answer goes.
LEMMA NotTouched ==
  ASSUME TypeOK, HostChanges, NEW h \in Handlers, pc[h] \in Counting
  PROVE  /\ touched[h] \subseteq touched'[h]
         /\ touched'[h] \subseteq Containers \union Images \union Refs
         /\ \A r \in Refs \ touched'[h] : tag'[r] # NoImage
         /\ \A c \in Containers \ touched'[h] :
              state'[c] = state[c] /\ ImageOf(c)' = ImageOf(c)
         /\ \A i \in Images \ touched'[h] :
              (i \in present' <=> i \in present) /\ TagsOf(i)' = TagsOf(i)
  <1> DEFINE Changed ==
        {c \in Containers : <<state[c], ImageOf(c)>>' # <<state[c], ImageOf(c)>>}
          \union {i \in Images : <<i \in present, TagsOf(i)>>'
                                   # <<i \in present, TagsOf(i)>>}
          \union {r \in Refs : tag'[r] = NoImage}
  <1>1. touched'[h] = touched[h] \union Changed
    BY DEF HostChanges, Counting
  <1>2. ASSUME NEW c \in Containers \ touched'[h]
        PROVE  state'[c] = state[c] /\ ImageOf(c)' = ImageOf(c)
    <2>1. <<state[c], ImageOf(c)>>' = <<state[c], ImageOf(c)>>
      BY <1>1
    <2> QED
      BY <2>1
  <1>3. ASSUME NEW i \in Images \ touched'[h]
        PROVE  (i \in present' <=> i \in present) /\ TagsOf(i)' = TagsOf(i)
    <2>1. <<i \in present, TagsOf(i)>>' = <<i \in present, TagsOf(i)>>
      BY <1>1
    <2> QED
      BY <2>1
  <1> QED
    BY <1>1, <1>2, <1>3 DEF TypeOK

\* The host changes; what a handler was told stays right about the rest.
LEMMA HostStep ==
  ASSUME Inv, HostChanges
  PROVE  Inv'
  <1> USE DEF Inv
  <1>0. UNCHANGED <<pc, view, project, counted, listed, shown, pictured>>
    BY DEF HostChanges
  <1>1. TypeOK'
    <2>1. touched' \in [Handlers -> SUBSET (Containers \union Images \union Refs)]
      BY DEF HostChanges, TypeOK
    <2> QED
      BY <1>0, <2>1, HostTypes DEF TypeOK
  <1>2. ASSUME NEW h \in Handlers PROVE HandlerInv(h)'
    <2>1. CASE pc[h] \in {"idle", "info", "failed"}
      BY <1>0, <2>1 DEF HostChanges, HandlerInv, Counting, Listing, TypeOK
    <2>2. CASE pc[h] \in Counting
      <3> USE <2>2
      <3>1. \A c \in Containers \ touched'[h] : (c \in Existing)' <=> c \in counted'[h]
        BY <1>0, NotTouched DEF HandlerInv, Existing
      <3>2. ASSUME pc[h] \in Listing, NEW c \in Containers \ touched'[h]
            PROVE  /\ (c \in listed'[h]) <=> Selected(c, view[h], project[h])'
                   /\ c \in listed'[h] => ImageOf(c)' \in shown'[h]
        <4>1. c \in Containers \ touched[h] /\ state'[c] = state[c] /\ ImageOf(c)' = ImageOf(c)
          BY <3>2, NotTouched
        <4>2. Selected(c, view[h], project[h])' <=> Selected(c, view[h], project[h])
          BY <1>0, <4>1 DEF Selected, Existing, InFull, InProject, InDocker, isProjectContainer
        <4> QED
          BY <1>0, <3>2, <4>1, <4>2 DEF HandlerInv
      <3>3. pc[h] \in Listing =>
              /\ \A s \in shown'[h] \ {NoRef} : \E c \in listed'[h] : s = RefOf[c]
              /\ shown'[h] = {} <=> listed'[h] = {}
        BY <1>0 DEF HandlerInv
      <3>4. ASSUME pc[h] = "done", NEW i \in Images \ touched'[h]
            PROVE  Pictured(i, view[h], project[h], shown[h])'
                     => <<i, TagsOf(i)>>' \in pictured'[h]
        <4>1. /\ i \in Images \ touched[h] /\ (i \in present' <=> i \in present)
              /\ TagsOf(i)' = TagsOf(i)
          BY <3>4, NotTouched
        <4>2. Pictured(i, view[h], project[h], shown[h])'
                <=> Pictured(i, view[h], project[h], shown[h])
          BY <1>0, <4>1 DEF Pictured, isProjectImage, isProjectImageForLabel
        <4> QED
          BY <1>0, <3>4, <4>1, <4>2 DEF HandlerInv
      <3>5. pc[h] = "images" =>
              \A s \in shown'[h] \ {NoRef} : s \in touched'[h] \/ tag'[s] # NoImage
        BY <1>0, NotTouched DEF TypeOK
      <3>6. pc[h] = "done" =>
              /\ EntriesBelong(h)'
              /\ \A s \in shown'[h] \ {NoRef} :
                   s \in touched'[h] \/ \E e \in pictured'[h] : s \in e[2]
        BY <1>0, NotTouched DEF HandlerInv, EntriesBelong
      <3> QED
        BY <1>0, <3>1, <3>2, <3>3, <3>4, <3>5, <3>6 DEF HandlerInv, Counting, Listing
    <2> QED
      BY <2>1, <2>2 DEF TypeOK, Labels, Counting
  <1> QED
    BY <1>1, <1>2

\* The invariant is inductive.
LEMMA InvStep == Inv /\ [Next]_vars => Inv'
  <1> SUFFICES ASSUME Inv, [Next]_vars PROVE Inv'
    OBVIOUS
  <1>1. ASSUME NEW h \in Handlers, NEW p \in Projects \union {NoProject},
               handleArchitecture(h, p)
        PROVE  Inv'
    BY <1>1, StartStep DEF handleArchitecture
  <1>2. ASSUME NEW h \in Handlers, handleDocker(h) PROVE Inv'
    BY <1>2, StartStep DEF handleDocker
  <1>3. ASSUME NEW h \in Handlers, QuestionFails(h) \/ Finish(h) PROVE Inv'
    BY <1>3, DropStep DEF QuestionFails, Finish
  <1>4. CASE UNCHANGED vars
    <2>1. TypeOK'
      BY <1>4 DEF Inv, TypeOK, vars
    <2>2. ASSUME NEW h \in Handlers PROVE HandlerInv(h)'
      BY <1>4, Untouched DEF Inv, vars, dockerVars
    <2> QED
      BY <2>1, <2>2 DEF Inv
  <1> QED
    BY <1>1, <1>2, <1>3, <1>4, InfoStep, InspectStep, ContainersStep, ImagesStep,
       HostStep DEF Next

\* The invariant holds in every state.
THEOREM Invariant == Spec => []Inv
  BY InvInit, InvStep, PTL DEF Spec

-----------------------------------------------------------------------------
(* The properties follow from what each reply still owes.                  *)

\* Every variable keeps its type: the handlers' local variables, and the host
\* they ask, where no tag names an image that is gone.
THEOREM TypeCorrect == Spec => []TypeOK
  <1>1. Inv => TypeOK
    BY DEF Inv
  <1> QED
    BY <1>1, Invariant, PTL

\* However the host changes between /info and the lists, an answer lists every
\* running container it should that did not, and nothing that is not there
\* (collectDocker, collectDockerAll, collectDockerForProject).
THEOREM UnchangedAreListed == Spec => []UnchangedContainersListed
  <1>1. ASSUME Inv, NEW h \in Handlers, pc[h] = "done",
               NEW c \in Containers \ touched[h]
        PROVE  /\ c \in Existing <=> c \in counted[h]
               /\ c \in listed[h] => c \in counted[h]
               /\ /\ state[c] = "running" /\ c \notin Anonymous
                  /\ project[h] \in {NoProject, LabelOf[c]}
                  => c \in listed[h]
               /\ view[h] = "docker" /\ c \in listed[h] =>
                    state[c] = "running" /\ project[h] \in {NoProject, LabelOf[c]}
    <2>1. /\ c \in Existing <=> c \in counted[h]
          /\ c \in listed[h] <=> Selected(c, view[h], project[h])
          /\ view[h] = "project" => project[h] # NoProject
          /\ view[h] \in {"full", "project", "docker"}
      BY <1>1 DEF Inv, TypeOK, HandlerInv, Counting, Listing
    <2>2. state[c] = "running" => c \in Existing
      BY DEF Existing
    <2> QED
      BY <2>1, <2>2 DEF Selected, InFull, InProject, InDocker, isProjectContainer
  <1>2. Inv => UnchangedContainersListed
    BY <1>1 DEF UnchangedContainersListed
  <1> QED
    BY <1>2, Invariant, PTL

\* A project's snapshot shows its containers, whatever their state, and all tags
\* of the repositories they run (isProjectContainer, isProjectImage).
THEOREM ProjectsAreWhole == Spec => []ProjectShownWithImages
  <1>1. ASSUME Inv, NEW h \in Handlers, Answers(h, "project"),
               NEW c \in Existing \ (touched[h] \union Anonymous),
               LabelOf[c] = project[h]
        PROVE  /\ c \in listed[h]
               /\ ImageOf(c) # NoRef =>
                    \A i \in present \ touched[h] :
                      (\E r \in TagsOf(i) : Repo[r] = Repo[RefOf[c]])
                        => <<i, TagsOf(i)>> \in pictured[h]
    <2>1. pc[h] = "done" /\ view[h] = "project" /\ c \in Containers \ touched[h]
      BY <1>1 DEF Answers, Existing
    <2>2. Selected(c, view[h], project[h])
      BY <1>1, <2>1 DEF Selected, InProject, isProjectContainer
    <2>3. c \in listed[h] /\ ImageOf(c) \in shown[h]
      BY <1>1, <2>1, <2>2 DEF Inv, HandlerInv, Listing
    <2>4. ASSUME ImageOf(c) # NoRef, NEW i \in present \ touched[h],
                 NEW r \in TagsOf(i), Repo[r] = Repo[RefOf[c]]
          PROVE  <<i, TagsOf(i)>> \in pictured[h]
      <3>1. RefOf[c] \in shown[h] \ {NoRef}
        BY <1>1, <2>1, <2>3, <2>4, ImageOfType
      <3>2. isProjectImage(i, shown[h])
        BY <2>4, <3>1 DEF isProjectImage
      <3>3. Pictured(i, view[h], project[h], shown[h])
        BY <2>1, <2>4, <3>1, <3>2 DEF Pictured
      <3> QED
        BY <1>1, <2>1, <2>4, <3>3 DEF Inv, HandlerInv, TypeOK
    <2> QED
      BY <2>3, <2>4
  <1>2. Inv => ProjectShownWithImages
    BY <1>1 DEF ProjectShownWithImages
  <1> QED
    BY <1>2, Invariant, PTL

\* The two lists never fall apart: every reference a container is shown with has
\* its image shown, tags that move between the lists included, unless the
\* reference is removed meanwhile (collectDockerAll, collectDockerForProject).
THEOREM ListsStayTogether == Spec => []ReferencesPictured
  <1>1. Inv => ReferencesPictured
    BY DEF Inv, HandlerInv, ReferencesPictured
  <1> QED
    BY <1>1, Invariant, PTL

\* In a project's snapshot and in /api/docker each image is shown with a reference
\* of the repository of a listed container, whatever changed between the lists; a
\* snapshot without containers has images of the project's label, or with a
\* reference that mentions it (isProjectImage, isProjectImageForLabel).
THEOREM PicturesAreOfContainers == Spec => []PicturesBelong
  <1>1. ASSUME Inv, NEW h \in Handlers, pc[h] = "done", view[h] # "full",
               NEW e \in pictured[h]
        PROVE  IF listed[h] # {}
               THEN \E c \in listed[h], r \in e[2] :
                      RefOf[c] \in shown[h] /\ Repo[r] = Repo[RefOf[c]]
               ELSE /\ view[h] = "project"
                    /\ \/ ImageLabel[e[1]] = project[h]
                       \/ \E r \in e[2] : project[h] \in RefMentions[r]
    <2>1. /\ EntriesBelong(h) /\ (shown[h] = {} <=> listed[h] = {})
          /\ \A s \in shown[h] \ {NoRef} : \E c \in listed[h] : s = RefOf[c]
      BY <1>1 DEF Inv, HandlerInv, Listing
    <2>2. CASE listed[h] # {}
      <3>1. PICK r \in e[2], s \in shown[h] \ {NoRef} : Repo[r] = Repo[s]
        BY <1>1, <2>1, <2>2 DEF EntriesBelong
      <3>2. PICK c \in listed[h] : s = RefOf[c]
        BY <2>1
      <3> QED
        BY <2>2, <3>1, <3>2
    <2>3. CASE listed[h] = {}
      BY <1>1, <2>1, <2>3 DEF EntriesBelong
    <2> QED
      BY <2>2, <2>3
  <1>2. Inv => PicturesBelong
    BY <1>1 DEF PicturesBelong
  <1> QED
    BY <1>2, Invariant, PTL
=============================================================================
