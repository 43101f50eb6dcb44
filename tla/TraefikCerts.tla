----------------------------- MODULE TraefikCerts -----------------------------
(***************************************************************************)
(* The certificates of one node.  Traefik issues and renews them into      *)
(* acme.json; a daily worker copies what changed into a store per domain   *)
(* and from there to the services; `certs import` puts an operator's own   *)
(* certificate there by the same paths.  A watchdog keeps the container of *)
(* Traefik alive, and init and every apply rewrite the file it starts from.*)
(* Traefik and NATS are external: they are taken as the code uses them.    *)
(* Source: src/cmd/sdk-ops/renew.go, certs.go, provision.go,               *)
(* src/deploy/proxy_traefik.go, src/hardening/traefik_watch.go.            *)
(***************************************************************************)
EXTENDS OpsTimers, Sequences

CONSTANTS
  Domain,     \* domains certificates are for
  Imported,   \* those whose certificates the operator imports
  Proxied,    \* those named with --services nats,traefik: the others with nats
  Serials,    \* bound: certificates issued or imported, per domain
  NoCert      \* no certificate in a service

ASSUME CertConstants ==
  /\ Imported \subseteq Domain /\ Proxied \subseteq Domain /\ Domain \cap {"nats", "store"} = {}
  /\ "traefik" \in Component /\ Serials \in [Domain -> Nat]

VARIABLES
  traefik,  \* the container: up or not, the token, what it may write and has loaded
  file,     \* traefik.yml: none, without and with the ACME resolver
  tight,    \* acme.json is 0600
  template, \* install.sh of the watchdog: none, without and with the DNS token
  routers,  \* domains with a router that asks for a certificate
  acme,     \* acme.json: the serial of each domain's certificate, 0 for none
  configs,  \* /etc/sdk-ops/certs/*.json
  timer,    \* sdk-ops-certs.timer and its worker
  store,    \* /etc/sdk-ops/certs/<domain>: chain and key, or no directory
  files,    \* the copies services start from: of nats, and of Traefik per domain
  served,   \* the certificate nats has loaded
  job,      \* what the worker and the import have still to do
  used,     \* serials spent per domain
  torn,     \* a write was lost, a writer was killed or met another one
  whole     \* domains whose last certificate has met none of that since

certVars == <<traefik, file, tight, template, routers, acme, configs, timer,
              store, files, served, job, used, torn, whole>>

Writers == {"worker", "import"}
NoDir   == [chain |-> -1, key |-> -1]
Empty   == [chain |-> 0, key |-> 0]
Blank   == [chain |-> NoCert, key |-> NoCert]
Idle    == [steps |-> <<>>, todo |-> {}, domain |-> NoCert, serial |-> 0]
Copies  == {"nats"} \cup Domain

Container == [up : BOOLEAN, made : BOOLEAN, token : BOOLEAN, mayWrite : BOOLEAN,
              resolver : BOOLEAN]
NoContainer == [up |-> FALSE, made |-> FALSE, token |-> FALSE, mayWrite |-> FALSE,
                resolver |-> FALSE]

CertTypeOK ==
  /\ traefik \in Container
  /\ file \in {"none", "base", "acme"} /\ tight \in BOOLEAN
  /\ template \in {"none", "plain", "token"}
  /\ routers \subseteq Domain /\ configs \subseteq Domain /\ whole \subseteq Domain
  /\ timer \in BOOLEAN /\ torn \in BOOLEAN
  /\ acme \in [Domain -> Nat] /\ used \in [Domain -> Nat]
  /\ store \in [Domain -> [chain : Int, key : Int]]
  /\ DOMAIN files = Copies
  /\ DOMAIN job = Writers

CertInit ==
  /\ OpsInit
  /\ traefik = NoContainer /\ file = "none" /\ tight = TRUE /\ template = "none"
  /\ routers = {} /\ acme = [d \in Domain |-> 0] /\ configs = {} /\ timer = FALSE
  /\ store = [d \in Domain |-> NoDir]
  /\ files = [c \in Copies |-> Blank] /\ served = NoCert
  /\ job = [w \in Writers |-> Idle]
  /\ used = [d \in Domain |-> 0] /\ torn = FALSE /\ whole = {}

-------------------------------------------------------------------------------
(* Traefik                                                                 *)

\* A start reads traefik.yml; a resolver refuses an acme.json others can read.
Started(c) == [c EXCEPT !.up = TRUE, !.resolver = (file = "acme" /\ tight)]

\* docker run of the install scripts.
Created(token) == [NoContainer EXCEPT !.made = TRUE, !.token = token, !.mayWrite = TRUE]

otherCert == <<acme, configs, timer, store, files, served, job, used, torn, whole>>

\* TraefikProxy.Install at the end of init: the base file and the template without
\* a token; a container that is there stays as it is, with what it has loaded.
InstallTraefik ==
  /\ file' = "base" /\ template' = "plain"
  /\ traefik' = IF traefik.made THEN traefik ELSE [Created(FALSE) EXCEPT !.up = TRUE]
  /\ UNCHANGED <<otherCert, tight, routers>>

\* ensureTraefikEnv: a container without the token is made again with its mounts,
\* and what it could write it is given read-only.
Retokened == [Created(TRUE) EXCEPT !.up = TRUE, !.mayWrite = FALSE, !.resolver = tight]

\* applyTraefikDomainsOn for the fleet's domains, with or without a DNS-01 token.
ApplyDomains(token) ==
  /\ file # "none"
  /\ template' = IF token THEN "token" ELSE "plain"
  /\ routers' = routers \cup (Domain \ Imported)
  /\ file' = "acme"
  /\ traefik' = IF token /\ traefik.made /\ ~traefik.token
                THEN Retokened ELSE traefik
  /\ UNCHANGED <<otherCert, tight>>

\* Variant: the watchdog sees to a container that is missing, not to one that stopped.
WatchMissing ==
  /\ unit["traefik"].script > 0 /\ ~traefik.made /\ template # "none"
  /\ traefik' = Started(Created(template = "token"))
  /\ UNCHANGED <<otherCert, tight, file, template, routers>>

\* traefikWatchScript, by its timer or by `ops run`: one repair a run, in this order.
WatchTraefik ==
  /\ unit["traefik"].script > 0
  /\ \/ /\ ~traefik.made /\ template # "none"
        /\ traefik' = Started(Created(template = "token"))
        /\ UNCHANGED tight
     \/ /\ traefik.made /\ ~traefik.up
        /\ traefik' = Started(traefik)
        /\ UNCHANGED tight
     \/ /\ traefik.up /\ file # "none" /\ ~tight
        /\ tight' = TRUE
        /\ UNCHANGED traefik
  /\ UNCHANGED <<otherCert, file, template, routers>>

\* External: the container stops or is removed, or the mode of acme.json changes.
TraefikHarm ==
  /\ Mishap
  /\ \/ traefik.up /\ traefik' \in {[traefik EXCEPT !.up = FALSE], NoContainer} /\ UNCHANGED tight
     \/ tight /\ tight' = FALSE /\ UNCHANGED traefik
  /\ UNCHANGED <<otherCert, file, template, routers>>

Busy(w) == job[w] # Idle

\* Traefik issues or renews: it must have loaded the resolver and be able to save.
Issue(d) ==
  /\ traefik.up /\ traefik.resolver /\ traefik.mayWrite
  /\ d \in routers /\ used[d] < Serials[d]
  /\ acme' = [acme EXCEPT ![d] = used[d] + 1]
  /\ used' = [used EXCEPT ![d] = @ + 1]
  /\ whole' = IF \A w \in Writers : Busy(w) THEN whole ELSE whole \cup {d}
  /\ UNCHANGED <<traefik, file, tight, template, routers, configs, timer, store, files,
                 served, job, torn>>

-------------------------------------------------------------------------------
(* The worker and the import                                               *)

\* Variants: the key is forgotten; nats is told before it has the key.
RefreshChain(d) == <<<<"nats", "chain">>, <<"nats", "reload">>>>
RefreshEarly(d) == <<<<"nats", "chain">>, <<"nats", "reload">>, <<"nats", "key">>>>

\* refreshServices, refreshServicesBash: nats first, then Traefik.
Refresh(d) ==
  <<<<"nats", "chain">>, <<"nats", "key">>, <<"nats", "reload">>>> \o
  IF d \in Proxied THEN <<<<d, "chain">>, <<d, "key">>, <<d, "reload">>>> ELSE <<>>

Script(d) == <<<<"store", "chain">>, <<"store", "key">>>> \o Refresh(d)

\* Something happens to the writers that spoils what they were to bring.
Spoil(bad) == IF bad THEN torn' = TRUE /\ whole' = {} ELSE UNCHANGED <<torn, whole>>

\* certs sync --all, by the timer or by `certs run`.
StartSync ==
  /\ timer /\ ~Busy("worker") /\ configs # {}
  /\ job' = [job EXCEPT !["worker"] = [Idle EXCEPT !.todo = configs]]
  /\ Spoil(Busy("import"))
  /\ UNCHANGED <<traefik, file, tight, template, routers, acme, configs, timer, store, files,
                 served, used>>

\* syncCert up to its first write: a chain that is in the store is skipped.
ConsiderDomain(d) ==
  LET made == IF store[d] = NoDir THEN Empty ELSE store[d]
      rest == job["worker"].todo \ {d}
  IN /\ job["worker"].steps = <<>> /\ d \in job["worker"].todo
     /\ store' = [store EXCEPT ![d] = made]
     /\ job' = [job EXCEPT !["worker"] =
                  IF acme[d] \in {0, made.chain} THEN [Idle EXCEPT !.todo = rest]
                  ELSE [steps |-> Script(d), todo |-> rest, domain |-> d, serial |-> acme[d]]]
     /\ UNCHANGED <<traefik, file, tight, template, routers, acme, configs, timer, files,
                    served, used, torn, whole>>

\* certs import: the same writes, by a script over SSH; nats is no longer to serve
\* what was on its way to it.
StartImport(d) ==
  /\ d \in Imported /\ ~Busy("import") /\ used[d] < Serials[d]
  /\ used' = [used EXCEPT ![d] = @ + 1]
  /\ store' = [store EXCEPT ![d] = IF @ = NoDir THEN Empty ELSE @]
  /\ job' = [job EXCEPT !["import"] =
               [steps |-> Script(d), todo |-> {}, domain |-> d, serial |-> used[d] + 1]]
  /\ torn' = IF Busy("worker") THEN TRUE ELSE torn
  /\ whole' = {}
  /\ UNCHANGED <<traefik, file, tight, template, routers, acme, configs, timer, files,
                 served>>

Advanced(w) ==
  LET rest == Tail(job[w].steps)
  IN [job EXCEPT ![w] = IF rest = <<>> THEN [Idle EXCEPT !.todo = job[w].todo]
                        ELSE [@ EXCEPT !.steps = rest]]

Pair(c) == files[c].chain = files[c].key /\ files[c].chain # NoCert

\* One write or reload.  A copy of a file that is not there is left out (copyPEM), and
\* nats keeps what it has when the two files do not fit (external).  The worker
\* restarts Traefik; the import wires its copy into the file provider.
Perform(w) ==
  LET d == job[w].domain  dst == Head(job[w].steps)[1]  part == Head(job[w].steps)[2]
  IN /\ job[w].steps # <<>>
     /\ job' = Advanced(w)
     /\ store' = IF dst = "store" /\ store[d] # NoDir
                 THEN [store EXCEPT ![d][part] = job[w].serial] ELSE store
     /\ files' = IF dst # "store" /\ part # "reload" /\ store[d][part] > 0
                 THEN [files EXCEPT ![dst][part] = <<d, store[d][part]>>] ELSE files
     /\ served' = IF dst = "nats" /\ part = "reload" /\ served # NoCert /\ Pair("nats")
                  THEN files["nats"].chain ELSE served
     /\ traefik' = IF dst \in Domain /\ part = "reload" /\ w = "worker" /\ traefik.made
                   THEN Started(traefik) ELSE traefik
     /\ UNCHANGED <<file, tight, template, routers, acme, configs, timer, used, torn, whole>>

\* A write fails, having emptied the file or not, and its error is discarded.
FailWrite(w) ==
  LET d == job[w].domain  dst == Head(job[w].steps)[1]  part == Head(job[w].steps)[2]
  IN /\ job[w].steps # <<>> /\ part # "reload"
     /\ Mishap
     /\ job' = Advanced(w)
     /\ \/ UNCHANGED <<store, files>>
        \/ IF dst = "store"
           THEN /\ store' = [store EXCEPT ![d][part] = IF store[d] = NoDir THEN @ ELSE 0]
                /\ UNCHANGED files
           ELSE /\ files' = [files EXCEPT ![dst][part] = NoCert]
                /\ UNCHANGED store
     /\ Spoil(TRUE)
     /\ UNCHANGED <<traefik, file, tight, template, routers, acme, configs, timer, served, used>>

\* The process dies, or the connection of an import is lost.
Kill(w) ==
  /\ Busy(w) /\ Mishap
  /\ job' = [job EXCEPT ![w] = Idle]
  /\ Spoil(TRUE)
  /\ UNCHANGED <<traefik, file, tight, template, routers, acme, configs, timer, store, files,
                 served, used>>

\* nats starts, at boot or by docker's restart policy: not from files that do not fit.
StartNats ==
  /\ served = NoCert /\ Pair("nats")
  /\ served' = files["nats"].chain
  /\ UNCHANGED <<traefik, file, tight, template, routers, acme, configs, timer, store, files,
                 job, used, torn, whole>>

NodeReboot ==
  /\ Mishap /\ OpsReboot
  /\ job' = [w \in Writers |-> Idle]
  /\ Spoil(\E w \in Writers : Busy(w))
  /\ served' = IF Pair("nats") THEN files["nats"].chain ELSE NoCert
  /\ traefik' = IF traefik.up THEN Started(traefik) ELSE traefik
  /\ UNCHANGED <<file, tight, template, routers, acme, configs, timer, store, files, used>>

-------------------------------------------------------------------------------
(* certs issue and certs remove                                            *)

\* newCertsIssueCmd: worker, config, router and timer; its wait runs the worker.
CertsIssue(d) ==
  /\ d \notin Imported /\ file # "none"
  /\ configs' = configs \cup {d} /\ routers' = routers \cup {d} /\ timer' = TRUE
  /\ store' = [store EXCEPT ![d] = IF @ = NoDir THEN Empty ELSE @]
  /\ UNCHANGED <<traefik, file, tight, template, acme, files, served, job, used, torn,
                 whole>>

\* newCertsRemoveCmd for one domain: not what nats was given.
CertsRemove(d) ==
  /\ Mishap
  /\ configs' = configs \ {d} /\ routers' = routers \ {d}
  /\ store' = [store EXCEPT ![d] = NoDir]
  /\ files' = [files EXCEPT ![d] = Blank]
  /\ torn' = IF \E w \in Writers : Busy(w) THEN TRUE ELSE torn
  /\ whole' = {}
  /\ UNCHANGED <<traefik, file, tight, template, acme, timer, served, job, used>>

\* RemoveCertRenew stops a running worker and takes every store; routers stay.
RemoveCertRenew ==
  /\ Mishap
  /\ timer' = FALSE /\ configs' = {}
  /\ store' = [d \in Domain |-> NoDir]
  /\ job' = [job EXCEPT !["worker"] = Idle]
  /\ torn' = IF \E w \in Writers : Busy(w) THEN TRUE ELSE torn
  /\ whole' = {}
  /\ UNCHANGED <<traefik, file, tight, template, routers, acme, files, served, used>>

\* RemoveTraefikWatch takes its directory, and with it the template that init and the
\* fleet apply wrote there.
OpsRemoved(c) ==
  /\ OpsRemove(c)
  /\ template' = IF c = "traefik" THEN "none" ELSE template
  /\ UNCHANGED <<traefik, file, tight, routers, otherCert>>

CertStep ==
  \/ InstallTraefik \/ (\E t \in BOOLEAN : ApplyDomains(t)) \/ WatchTraefik
  \/ StartSync \/ StartNats
  \/ \E d \in Domain : Issue(d) \/ ConsiderDomain(d) \/ StartImport(d) \/ CertsIssue(d)
  \/ \E w \in Writers : Perform(w)

CertMishap ==
  \/ TraefikHarm \/ RemoveCertRenew
  \/ \E d \in Domain : CertsRemove(d)
  \/ \E w \in Writers : FailWrite(w) \/ Kill(w)

commandVars == <<unit, carried, applying, disabled, cut>>

CertNext ==
  \/ CertStep /\ UNCHANGED opsVars
  \/ CertMishap /\ UNCHANGED commandVars
  \/ NodeReboot /\ UNCHANGED <<carried, applying, disabled, cut>>
  \/ OpsStep /\ UNCHANGED certVars
  \/ \E c \in Component : OpsRemoved(c)

CertSpec == CertInit /\ [][CertNext]_<<certVars, opsVars>>

\* The timers fire, a running worker and `ops apply` go on, docker restarts nats.
TimedTraefikWatch == unit["traefik"].active /\ WatchTraefik /\ UNCHANGED opsVars
Worker == /\ StartSync \/ (\E d \in Domain : ConsiderDomain(d)) \/ Perform("worker")
          /\ UNCHANGED opsVars
NatsReturns  == StartNats /\ UNCHANGED opsVars
ApplyGoesOn  == OpsContinue /\ UNCHANGED certVars

FairCertSpec ==
  /\ CertSpec
  /\ WF_<<certVars, opsVars>>(TimedTraefikWatch) /\ WF_<<certVars, opsVars>>(Worker)
  /\ WF_<<certVars, opsVars>>(NatsReturns) /\ WF_<<certVars, opsVars>>(ApplyGoesOn)

-------------------------------------------------------------------------------
(* Properties                                                              *)

\* The chain and the key a service would start with are of one certificate, but for
\* the moment between their two copies, until a write fails, a writer is killed or two
\* writers meet: no order of issues, renewals, imports, removals and skips breaks a pair.
PairsFit ==
  ~torn =>
    \A c \in Copies : \/ files[c].chain = files[c].key
                      \/ \E w \in Writers : job[w].steps # <<>> /\ Head(job[w].steps) = <<c, "key">>

\* A certificate that is renewed comes to be the one nats serves, whatever was left
\* half done before it: unless something fails on its way.
RenewalReaches ==
  \A d \in Domain \ Imported : \A s \in 1 .. Serials[d] :
    (d \in configs /\ acme[d] = s /\ d \in whole)
      ~> (served = <<d, s>> \/ acme[d] # s \/ d \notin whole \/ d \notin configs)

\* Traefik comes back from whatever stopped or removed it, while its watchdog is there
\* and nobody has disabled it, even over an `ops apply` that stops the watchdog's timer:
\* unless the container is gone and `ops remove` took the template it is made from, which
\* no `ops apply` brings back.
TraefikReturns ==
  (traefik.made \/ template # "none")
    ~> \/ traefik.up \/ (~traefik.made /\ template = "none")
       \/ unit["traefik"].script = 0 \/ "traefik" \in disabled \cup cut
===============================================================================
