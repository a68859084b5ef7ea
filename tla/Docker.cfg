\* Two containers, images and tags; one handler against a host that changes
\* at every moment.
SPECIFICATION Spec
CONSTANTS
  Handlers = {h1}
  web = web
  scratch = scratch
  old = old
  new = new
  v1 = v1
  v2 = v2
  repo = repo
  demo = demo
  shop = shop
  all = all
  Containers <- TwoContainers
  Images = {old, new}
  Refs = {v1, v2}
  NoImage = NoImage
  NoRef = NoRef
  Projects = {demo, shop, all}
  NoProject = NoProject
  Repo <- MCRepo
  RefOf <- MCRefOf
  LabelOf <- MCLabelOf
  ImageLabel <- MCImageLabel
  Anonymous = {scratch}
  NameMentions <- MCNameMentions
  RefMentions <- MCRefMentions
  OwnProject = demo
  FullProjects = {all}
INVARIANTS UnchangedContainersListed ProjectShownWithImages ReferencesPictured PicturesBelong
