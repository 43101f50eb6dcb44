---------------------------- MODULE MCServiceFile ----------------------------
(* ServiceFile against reference definitions, over all service.yaml of up to *)
(* four of the lines below and all sets of the files below.                  *)
EXTENDS ServiceFile, FiniteSets

MCLine ==
  {[key |-> "port", value |-> 1], [key |-> "port", value |-> 0], [key |-> "health", value |-> Missing],
   [key |-> "path", value |-> PathOnly("p")], [key |-> "url", value |-> [at |-> "away", port |-> 0, path |-> "q"]],
   [key |-> "health_url", value |-> PathOnly("r")], [key |-> "interval", value |-> 5],
   [key |-> "item", value |-> 2], [key |-> "ports", value |-> Missing], [key |-> "database", value |-> Missing]}

MCYaml == UNION {[1 .. n -> MCLine] : n \in 0 .. 4}

\* The line is read as part of a health section: one began before it, and no
\* item, remark or bare word stands between.
InHealth(f, i) ==
  \E j \in 1 .. i - 1 : f[j].key = "health" /\ \A k \in j + 1 .. i : f[k].key \notin EndsHealth

AsksAt(f, i) == \/ f[i].key \in {"path", "url"} /\ InHealth(f, i)
                \/ f[i].key = "health_url" /\ ~InHealth(f, i)

LastOf(S) == CHOOSE i \in S : \A j \in S : j <= i

PortAt(f, i) == LET ports == {j \in 1 .. i : f[j].key = "port"}
                IN IF ports = {} THEN Default ELSE f[LastOf(ports)].value

\* The health check of a push asks for the last path or url of a health section
\* or health_url outside one, at the port known by that line; whichever section
\* the url belongs to, since only an item, a remark or a word ends the first.
ProbeAsAsked ==
  \A f \in MCYaml :
    LET asks == {i \in DOMAIN f : AsksAt(f, i)}
        url  == ServiceConfig(f, 0).url
    IN IF asks = {} THEN url = NoUrl
       ELSE LET i == LastOf(asks)
            IN url = IF f[i].key = "health_url" THEN f[i].value ELSE ProbeUrl(f[i].value, PortAt(f, i))
ASSUME ProbeAsAsked

\* What is asked in the end never has port 0 and is never a bare path; it is the
\* first published port's, if ports are published and the check is of this node.
ProbeComplete ==
  \A f \in MCYaml, main \in {0, 3} :
    LET c == ServiceConfig(f, main)
        published == ServiceMeta(f).ports
        url == NormalUrl(c.url, c.port, published)
    IN /\ url.at # "path"
       /\ url.at = "local" /\ published # <<>> => url.port = 2
       /\ c.url.at = "local" => url.port # 0
ASSUME ProbeComplete

\* Without a flag no compose file is ever replaced, and a Go program of its own
\* is left to nixpacks: the Dockerfile builder then needs a Dockerfile.
MCFiles == SUBSET {"docker-compose.yml", "Dockerfile", "main.go", "project.toml", "README.md"}
MCWorks == SUBSET {"registry", "docker", "go", "nixpacks", "npx", "npm", "pack"}
BuildersInOrder ==
  \A files \in MCFiles, works \in MCWorks :
    /\ HasImage(Missing, files, works) => "docker-compose.yml" \notin files
    /\ HasImage(Missing, files, works) /\ DetectBuilder(files) = "dockerfile" => "Dockerfile" \in files
    /\ HasImage(Missing, files, works) /\ "nixpacks" \notin works /\ "npx" \in works
         => DetectBuilder(files) # "nixpacks"
ASSUME BuildersInOrder

\* On k3s a file that is not read leaves the defaults, and a built image wins.
K3sDefaults ==
  /\ K3sApp(<<>>, Missing) = [domain |-> Missing, port |-> Default, image |-> "latest"]
  /\ \A f \in MCYaml : K3sApp(f, "built").image = "built" /\ K3sApp(f, "built").port # 0
ASSUME K3sDefaults

\* A rotation changes what the containers are given only where the compose file
\* has the key both with a colon and with an equals sign.
MCEnv == {<<>>, "k" :> "old"}
RotationReaches ==
  \A c, e, y \in MCEnv :
    LET f == [compose |-> [colon |-> c, equals |-> e], yaml |-> [colon |-> y, equals |-> <<>>]]
        g == RotateEnv(f, "k", "new")
    IN /\ g.compose # f.compose <=> c # <<>> /\ e # <<>>
       /\ g.compose.colon = c
       /\ y # <<>> => g.yaml.colon["k"] = "new"
ASSUME RotationReaches

\* The compose commands undo each other but for the keys they do not know, keep
\* a valid file valid unless they take its last service, and refuse what is not there.
MCImageOnly == [NewService("img", <<1>>) EXCEPT !.other = {"healthcheck"}]
MCCompose  == {s :> MCImageOnly : s \in {"a", "b"}} \cup {<<>>, "a" :> MCImageOnly @@ "b" :> MCImageOnly}
ComposeUndone ==
  \A f \in MCCompose :
    /\ \A g \in AddService(f, "c", "img", 1) : RemoveService(g, "c") = {KnownOnly(f)} /\ ValidCompose(g)
    /\ \A n \in {"a", "b", "c"} :
         /\ (SetEnv(f, n, "k", "v") = {}) = (n \notin DOMAIN f)
         /\ \A g \in SetEnv(f, n, "k", "v") : UnsetEnv(g, n, "k") = {KnownOnly(f)}
         /\ \A g \in RemoveService(f, n) : ValidCompose(g) <=> Cardinality(DOMAIN f) > 1
         /\ AddService(f, n, "img", 0) = {} <=> n \in DOMAIN f
  /\ ValidCompose(InitCompose("a"))
ASSUME ComposeUndone
==============================================================================
