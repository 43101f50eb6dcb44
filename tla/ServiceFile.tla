----------------------------- MODULE ServiceFile -----------------------------
(***************************************************************************)
(* What `deploy push` reads in a source directory: the builder its files   *)
(* call for, and the port, health check, init command and database that    *)
(* service.yaml is taken to ask for; and the compose file it or the        *)
(* operator writes there.  service.yaml is read line by line, without its  *)
(* indentation.  Every operator is pure.                                   *)
(* Source: src/cmd/sdk-ops/deploy.go, src/deploy/builder*.go, upload.go,   *)
(* k8s_runtime.go and src/compose/compose.go.                              *)
(***************************************************************************)
EXTENDS Integers, Sequences, SequencesExt, TLC

CONSTANT Missing    \* no value after a key, no flag given

----------------------------------------------------------------------------
(* Builders                                                                  *)

\* Detect of NixpacksBuilder.
NixpacksFiles ==
  {"package.json", "index.js", "server.js", "app.js", "requirements.txt", "setup.py", "main.py",
   "app.py", "Gemfile", "main.rb", "Cargo.toml", "go.mod", "main.go", "composer.json",
   "index.html", "Procfile"}

\* Detect of PackBuilder.
PackFiles ==
  {"project.toml", "buildpack.yml", "package.json", "Gemfile", "requirements.txt", "go.mod",
   "main.go", "composer.json", "Procfile"}

\* A compose file means there is nothing to build; Dockerfiles come last.
DetectBuilder(files) ==
  IF "docker-compose.yml" \in files THEN Missing
  ELSE IF files \cap NixpacksFiles # {} THEN "nixpacks"
  ELSE IF files \cap PackFiles # {} THEN "pack"
  ELSE "dockerfile"

\* Build of each builder, with the commands that work on the operator's machine.
\* nixpacks is looked for before npx fetches it, and npm is asked only if npx fails.
NixpacksBuilds(works) ==
  {"registry", "nixpacks"} \subseteq works \/ ({"registry", "npm"} \subseteq works /\ "npx" \notin works)

PackBuilds(works) == {"registry", "pack"} \subseteq works

\* A Go program is built first when there is no Dockerfile.
DockerfileBuilds(files, works) ==
  /\ {"registry", "docker"} \subseteq works
  /\ "Dockerfile" \in files \/ ("main.go" \in files /\ "go" \in works)

\* NewBuilder, BuildImage.
Builds(builder, files, works) ==
  CASE builder = "nixpacks" -> NixpacksBuilds(works)
    [] builder = "pack"     -> PackBuilds(works)
    [] OTHER                -> DockerfileBuilds(files, works)

\* buildImage: a flag names the builder or the files do, and a failed build is a warning.
HasImage(flag, files, works) ==
  LET builder == IF flag # Missing THEN flag ELSE DetectBuilder(files)
  IN builder # Missing /\ Builds(builder, files, works)

----------------------------------------------------------------------------
(* service.yaml: a sequence of lines, each a key with what follows it.       *)

Default == 8080

\* URLs: of this node, of another, a bare path, or none.
NoUrl       == [at |-> "nowhere", port |-> 0, path |-> Missing]
Local(p, h) == [at |-> "local", port |-> p, path |-> h]
PathOnly(h) == [at |-> "path", port |-> 0, path |-> h]

Entered == [port |-> Default, url |-> NoUrl, timeout |-> 30, inHealth |-> FALSE]

\* parseHealthURLField, buildHealthURL: a path is put on this node.
ProbeUrl(v, port) ==
  IF v.at = "path" THEN Local(IF port = 0 THEN Default ELSE port, v.path) ELSE v

\* Lines that end a health section: items, remarks and words without a colon.
EndsHealth == {"item", "remark", "word"}

\* handleHealthSectionLine: any key stays in the section, blank lines too.
HealthLine(s, l) ==
  [s EXCEPT !.inHealth = l.key \notin EndsHealth,
            !.url      = IF l.key \in {"path", "url"} /\ l.value # NoUrl THEN ProbeUrl(l.value, s.port) ELSE @,
            !.timeout  = IF l.key = "interval" /\ l.value # Missing THEN l.value ELSE @]

\* parseYamlFlatHealthField.
FlatLine(s, l) ==
  [s EXCEPT !.url     = IF l.key = "health_url" /\ l.value # NoUrl THEN l.value ELSE @,
            !.timeout = IF l.key = "health_timeout" /\ l.value # Missing THEN l.value ELSE @]

PortLine(s, l) == IF l.key = "port" /\ l.value # Missing THEN [s EXCEPT !.port = l.value] ELSE s

\* parseServiceYamlLines.
OneLine(s, l) ==
  LET t == PortLine(s, l)
  IN IF l.key = "health" THEN [t EXCEPT !.inHealth = TRUE]
     ELSE IF t.inHealth THEN HealthLine(t, l) ELSE FlatLine(t, l)

ReadLines(lines) == FoldLeft(OneLine, Entered, lines)

\* parseServiceConfig: a port in main.go comes after all that was made of the other.
ServiceConfig(lines, mainPort) ==
  LET s == ReadLines(lines) IN IF mainPort > 0 THEN [s EXCEPT !.port = mainPort] ELSE s

\* readServiceYamlData: two keys, wherever they are; `health_url:` ends in the second.
HasDatabase(lines) ==
  LET keys == {lines[i].key : i \in DOMAIN lines}
  IN "database" \in keys /\ keys \cap {"url", "health_url"} # {}

\* parseServiceMeta: the last init command, and the items of every ports section.
MetaLine(s, l) ==
  IF l.key = "init" THEN [s EXCEPT !.init = l.value]
  ELSE [s EXCEPT !.inPorts = l.key = "ports" \/ (s.inPorts /\ l.key = "item"),
                 !.ports   = IF s.inPorts /\ l.key = "item" /\ l.value \in 1 .. 65535
                             THEN Append(@, l.value) ELSE @]

ServiceMeta(lines) == FoldLeft(MetaLine, [init |-> Missing, ports |-> <<>>, inPorts |-> FALSE], lines)

\* normalizeHealthURL: the first published port is the one to ask.
NormalUrl(url, port, published) ==
  LET asked == IF published # <<>> THEN published[1] ELSE port
  IN CASE url.at = "local" /\ published # <<>> -> Local(asked, url.path)
       [] url.at = "path"                      -> Local(asked, url.path)
       [] OTHER                                -> url

\* GenerateCompose, and the hosts of the database in service.yaml.
Compose(name, image, port, hasDB) ==
  [services |-> {name} \cup (IF hasDB THEN {<<name, "db">>} ELSE {}),
   image |-> image, published |-> IF port = 0 THEN Default ELSE port, mounts |-> hasDB]

\* DeployK3sFromCompose: the last domain and port; an image only for want of a built one.
K3sLine(s, l) ==
  [domain |-> IF l.key = "domain" THEN l.value ELSE s.domain,
   port   |-> IF l.key \in {"port", "ports"} /\ l.value # Missing THEN l.value ELSE s.port,
   image  |-> IF l.key = "image" /\ s.image = Missing THEN l.value ELSE s.image]

\* DeployK3s: what is applied.
K3sApp(lines, image) ==
  LET s == FoldLeft(K3sLine, [domain |-> Missing, port |-> Default, image |-> image], lines)
  IN [s EXCEPT !.port = IF @ = 0 THEN Default ELSE @, !.image = IF @ = Missing THEN "latest" ELSE @]

\* RotateServiceEnv edits the version in service.  A file is the keys it gives
\* with a colon and with an equals sign; the compose file is asked for the one
\* and edited in the other.
RotateEnv(files, k, v) ==
  LET Put(m) == [j \in DOMAIN m |-> IF j = k THEN v ELSE m[j]]
      inCompose == k \in DOMAIN files.compose.colon
  IN [files EXCEPT !.compose.equals = IF inCompose THEN Put(@) ELSE @, !.yaml.colon = Put(@)]

----------------------------------------------------------------------------
(* The compose commands: each reads the file, changes it and writes it.      *)

\* Read: keys the program does not know are not kept.
KnownOnly(f) == [n \in DOMAIN f |-> [f[n] EXCEPT !.other = {}]]

NewService(image, ports) ==
  [image |-> image, build |-> Missing, ports |-> ports, env |-> <<>>, depends |-> {}, other |-> {}]

InitCompose(name) == name :> NewService("nginx", <<8080>>)

\* What a command writes, or nothing when it refuses.
AddService(f, n, image, port) ==
  IF n \in DOMAIN f THEN {}
  ELSE {n :> NewService(image, IF port > 0 THEN <<port>> ELSE <<>>) @@ KnownOnly(f)}

RemoveService(f, n) ==
  IF n \notin DOMAIN f THEN {} ELSE {[m \in DOMAIN f \ {n} |-> KnownOnly(f)[m]]}

SetEnv(f, n, k, v) ==
  IF n \notin DOMAIN f THEN {} ELSE {[KnownOnly(f) EXCEPT ![n].env = (k :> v) @@ @]}

UnsetEnv(f, n, k) ==
  IF n \notin DOMAIN f THEN {}
  ELSE {[KnownOnly(f) EXCEPT ![n].env = [j \in DOMAIN @ \ {k} |-> @[j]]]}

\* Validate.
ValidCompose(f) ==
  DOMAIN f # {} /\ \A n \in DOMAIN f : f[n].image # Missing \/ f[n].build # Missing
==============================================================================
