------------------------------ MODULE NodeProofs ------------------------------
(* OpsTimers and TraefikCerts for any components, versions, domains, serials *)
(* and mishaps: that the watchdogs' timers stay, and that a certificate and  *)
(* its key come to fit.  Access for any ports, commands and logins: that the *)
(* operator keeps a way in.  K3sNode and Proxies for any machine: what a     *)
(* command leaves of a k3s server, and who holds the web ports.              *)
EXTENDS TraefikCerts, Access, K3sNode, Proxies, SequenceTheorems, TLAPS

\* Only a component is stopped or installed.
AtComponent == applying.component = NoComponent => applying.call = "read"

OpsInv == OpsTypeOK /\ AtComponent /\ WatchdogsStay

LEMMA OpsStarts == OpsInit => OpsInv
  BY OpsConstants DEF OpsInit, OpsInv, OpsTypeOK, AtComponent, WatchdogsStay, NoUnit, Resting

LEMMA InstallKeeps ==
  ASSUME OpsInv, NEW c \in Component, Installed(c) \/ InstallFailed(c), carried' = carried,
         applying' \in {applying, Resting}, applying' = applying \/ applying.component = c
  PROVE  OpsInv'
<1> USE OpsConstants DEF OpsInv, OpsTypeOK
<1>1. OpsTypeOK' /\ AtComponent'
  <2>1. AtComponent' /\ applying' \in [component : Component \cup {NoComponent}, call : {"read", "stop", "install"}]
    BY DEF Resting, AtComponent
  <2>2. CASE Installed(c)
    BY <2>1, <2>2 DEF Installed
  <2>3. CASE InstallFailed(c)
    BY <2>1, <2>3 DEF InstallFailed, Mishap
  <2> QED
    BY <2>2, <2>3
<1>2. WatchdogsStay'
  <2> SUFFICES ASSUME NEW e \in Component,
                      unit'[e].script # 0, e \notin (disabled \cup cut)'
               PROVE  /\ unit'[e].enabled
                      /\ unit'[e].active \/ applying' = [component |-> e, call |-> "install"]
    BY DEF WatchdogsStay
  <2>1. CASE e = c
    BY <2>1 DEF Installed, InstallFailed
  <2>2. CASE e # c
    <3>1. unit'[e] = unit[e] /\ (e \in disabled' <=> e \in disabled) /\ (e \in cut' <=> e \in cut)
      BY <2>2 DEF Installed, InstallFailed
    <3> QED
      BY <2>2, <3>1 DEF WatchdogsStay, Resting
  <2> QED
    BY <2>1, <2>2
<1> QED
  BY <1>1, <1>2

LEMMA OpsStepKeeps == OpsInv /\ OpsNext => OpsInv'
<1> SUFFICES ASSUME OpsInv, OpsNext PROVE OpsInv'
  OBVIOUS
<1> USE OpsConstants DEF OpsInv, OpsTypeOK
<1>1. CASE Upgrade
  BY <1>1 DEF Upgrade, AtComponent, WatchdogsStay
<1>2. CASE StopUnits
  <2>1. OpsTypeOK' /\ AtComponent'
    BY <1>2 DEF StopUnits, AtComponent
  <2>2. applying.component \in Component
    BY <1>2 DEF StopUnits, AtComponent
  <2>3. WatchdogsStay'
    BY <1>2, <2>2 DEF StopUnits, WatchdogsStay
  <2> QED
    BY <2>1, <2>3
<1>3. CASE FinishApply
  <2>1. applying.component \in Component
    BY <1>3 DEF FinishApply, AtComponent
  <2> QED
    BY <1>3, <2>1, InstallKeeps DEF FinishApply
<1>4. CASE ApplyDies
  <2>1. applying.component \in Component
    BY <1>4 DEF ApplyDies, Resting, AtComponent
  <2>2. OpsTypeOK' /\ AtComponent'
    BY <1>4, <2>1 DEF ApplyDies, Resting, Mishap, AtComponent
  <2>3. WatchdogsStay'
    BY <1>4, <2>1 DEF ApplyDies, WatchdogsStay
  <2> QED
    BY <2>2, <2>3
<1>5. ASSUME NEW c \in Component, OpsApply(c) PROVE OpsInv'
  <2>1. OpsTypeOK' /\ AtComponent'
    BY <1>5 DEF OpsApply, Resting, AtComponent
  <2>2. WatchdogsStay'
    BY <1>5 DEF OpsApply, Resting, WatchdogsStay
  <2> QED
    BY <2>1, <2>2
<1>6. ASSUME NEW c \in Component, InstallPhase(c) PROVE OpsInv'
  BY <1>6, InstallKeeps DEF InstallPhase
<1>7. ASSUME NEW c \in Component, OpsEnable(c) \/ OpsDisable(c) PROVE OpsInv'
  <2>1. CASE OpsEnable(c)
    <3>1. OpsTypeOK' /\ AtComponent'
      BY <2>1 DEF OpsEnable, AtComponent
    <3>2. WatchdogsStay'
      BY <2>1 DEF OpsEnable, WatchdogsStay
    <3> QED
      BY <3>1, <3>2
  <2>2. CASE OpsDisable(c)
    <3>1. OpsTypeOK' /\ AtComponent'
      BY <2>2 DEF OpsDisable, AtComponent
    <3>2. WatchdogsStay'
      <4>1. \A e \in Component : e # c => unit'[e] = unit[e] /\ (e \in disabled' <=> e \in disabled)
        BY <2>2 DEF OpsDisable
      <4>2. c \in disabled' /\ cut' = cut /\ applying' = applying
        BY <2>2 DEF OpsDisable
      <4> QED
        BY <4>1, <4>2 DEF WatchdogsStay
    <3> QED
      BY <3>1, <3>2
  <2> QED
    BY <1>7, <2>1, <2>2
<1>8. ASSUME NEW c \in Component, OpsRemove(c) PROVE OpsInv'
  BY <1>8 DEF OpsRemove, NoUnit, AtComponent, WatchdogsStay
<1>10. ASSUME NEW c \in Component, RemovalCut(c) PROVE OpsInv'
  <2>0. unit' \in [Component -> [script : 0 .. Versions, enabled : BOOLEAN, active : BOOLEAN]]
    <3>1. PICK on \in BOOLEAN :
            unit' = [unit EXCEPT ![c] = [script |-> unit[c].script, enabled |-> on, active |-> FALSE]]
      BY <1>10 DEF RemovalCut
    <3> QED
      BY <3>1
  <2>1. OpsTypeOK' /\ AtComponent'
    BY <1>10, <2>0 DEF RemovalCut, Mishap, AtComponent
  <2>2. /\ \A e \in Component : e # c => unit'[e] = unit[e] /\ (e \in cut' <=> e \in cut)
        /\ c \in cut' /\ disabled' = disabled /\ applying' = applying
    BY <1>10 DEF RemovalCut
  <2> QED
    BY <2>1, <2>2 DEF WatchdogsStay
<1>9. CASE OpsReboot /\ UNCHANGED <<carried, applying, disabled, cut, mishaps>>
  BY <1>9 DEF OpsReboot, AtComponent, WatchdogsStay
<1> QED
  BY <1>1, <1>2, <1>3, <1>4, <1>5, <1>6, <1>7, <1>8, <1>9, <1>10 DEF OpsNext, OpsStep, OpsContinue

\* The types of OpsTimers, for any components and versions.
THEOREM TimerTypes == OpsSpec => []OpsTypeOK
<1>1. OpsInv /\ UNCHANGED opsVars => OpsInv'
  BY DEF OpsInv, OpsTypeOK, AtComponent, WatchdogsStay, opsVars
<1>2. OpsInv => OpsTypeOK
  BY DEF OpsInv
<1> QED
  BY <1>1, <1>2, OpsStarts, OpsStepKeeps, PTL DEF OpsSpec

\* WatchdogsStay for any components, versions and mishaps: what `ops apply`, its calls
\* over SSH, enable, disable, remove, a fleet apply and reboots leave of the timers.
THEOREM TimersStay == OpsSpec => []WatchdogsStay
<1>1. OpsInv /\ UNCHANGED opsVars => OpsInv'
  BY DEF OpsInv, OpsTypeOK, AtComponent, WatchdogsStay, opsVars
<1>2. OpsInv => WatchdogsStay
  BY DEF OpsInv
<1> QED
  BY <1>1, <1>2, OpsStarts, OpsStepKeeps, PTL DEF OpsSpec

-------------------------------------------------------------------------------
(* What the worker and the import have still to do                          *)

CopyStep == ({"store"} \X {"chain", "key"}) \cup (Copies \X {"chain", "key", "reload"})

\* A key follows its chain, and only its chain.
Ordered(s) ==
  /\ s \in Seq(CopyStep)
  /\ \A i \in 1 .. Len(s) :
       s[i][2] = "chain" => i < Len(s) /\ s[i + 1] = <<s[i][1], "key">>
  /\ \A i \in 1 .. Len(s) - 1 : s[i + 1][2] = "key" => s[i][2] = "chain"

LEMMA OrderedConcat ==
  ASSUME NEW s, NEW t, Ordered(s), Ordered(t), t # <<>> => t[1][2] # "key"
  PROVE  Ordered(s \o t)
<1>1. /\ s \o t \in Seq(CopyStep) /\ Len(s \o t) = Len(s) + Len(t)
      /\ \A i \in 1 .. Len(s) + Len(t) :
           (s \o t)[i] = IF i <= Len(s) THEN s[i] ELSE t[i - Len(s)]
  BY ConcatProperties DEF Ordered
<1>2. Len(s) \in Nat /\ Len(t) \in Nat
  BY LenProperties DEF Ordered
<1>3. ASSUME NEW i \in 1 .. Len(s) + Len(t), (s \o t)[i][2] = "chain"
      PROVE  i < Len(s) + Len(t) /\ (s \o t)[i + 1] = <<(s \o t)[i][1], "key">>
  <2>1. CASE i <= Len(s)
    BY <1>1, <1>2, <1>3, <2>1 DEF Ordered
  <2>2. CASE i > Len(s)
    <3> DEFINE j == i - Len(s)
    <3>1. j \in 1 .. Len(t) /\ (s \o t)[i] = t[j]
      BY <1>1, <1>2, <2>2
    <3>2. j < Len(t) /\ t[j + 1] = <<t[j][1], "key">>
      BY <1>3, <3>1 DEF Ordered
    <3>3. i + 1 \in 1 .. Len(s) + Len(t) /\ i + 1 > Len(s) /\ (i + 1) - Len(s) = j + 1
      BY <1>2, <2>2, <3>2
    <3>4. (s \o t)[i + 1] = t[j + 1]
      BY <1>1, <1>2, <3>3
    <3> QED
      BY <1>2, <3>1, <3>2, <3>4
  <2> QED
    BY <1>2, <2>1, <2>2
<1>4. ASSUME NEW i \in 1 .. Len(s) + Len(t) - 1, (s \o t)[i + 1][2] = "key"
      PROVE  (s \o t)[i][2] = "chain"
  <2>1. CASE i < Len(s)
    <3>1. (s \o t)[i] = s[i] /\ (s \o t)[i + 1] = s[i + 1] /\ i \in 1 .. Len(s) - 1
      BY <1>1, <1>2, <2>1
    <3> QED
      BY <1>4, <3>1 DEF Ordered
  <2>2. CASE i = Len(s)
    <3>1. (s \o t)[i + 1] = t[1] /\ t # <<>>
      BY <1>1, <1>2, <2>2, EmptySeq
    <3> QED
      BY <1>4, <3>1
  <2>3. CASE i > Len(s)
    <3> DEFINE j == i - Len(s)
    <3>1. j \in 1 .. Len(t) - 1 /\ (i + 1) - Len(s) = j + 1
      BY <1>2, <2>3
    <3>2. (s \o t)[i] = t[j] /\ (s \o t)[i + 1] = t[j + 1]
      BY <1>1, <1>2, <2>3, <3>1
    <3> QED
      BY <1>4, <3>1, <3>2 DEF Ordered
  <2> QED
    BY <1>2, <2>1, <2>2, <2>3
<1> QED
  BY <1>1, <1>3, <1>4 DEF Ordered

LEMMA OrderedTail ==
  ASSUME NEW s, Ordered(s), s # <<>>
  PROVE  /\ Head(s) \in CopyStep /\ Ordered(Tail(s))
         /\ Head(s)[2] = "chain" => Tail(s) # <<>> /\ Head(Tail(s)) = <<Head(s)[1], "key">>
         /\ Tail(s) # <<>> /\ Head(Tail(s))[2] = "key" => Head(s)[2] = "chain"
<1>1. /\ Head(s) = s[1] /\ Head(s) \in CopyStep /\ Tail(s) \in Seq(CopyStep) /\ Len(s) \in Nat \ {0}
      /\ Len(Tail(s)) = Len(s) - 1 /\ \A i \in 1 .. Len(s) - 1 : Tail(s)[i] = s[i + 1]
  BY DEF Ordered
<1>2. Ordered(Tail(s))
  BY <1>1 DEF Ordered
<1>3. Head(s)[2] = "chain" => Len(Tail(s)) > 0 /\ Tail(s)[1] = <<Head(s)[1], "key">>
  BY <1>1 DEF Ordered
<1>4. (Tail(s) # <<>> => Len(Tail(s)) > 0) /\ (Len(Tail(s)) > 0 => Tail(s) # <<>>)
      /\ (Tail(s) # <<>> => Head(Tail(s)) = Tail(s)[1])
  <2>1. Tail(s) # <<>> => Len(Tail(s)) \in Nat \ {0}
    BY <1>1, EmptySeq
  <2>2. Len(Tail(s)) > 0 => Tail(s) # <<>>
    BY EmptySeq
  <2>3. Tail(s) # <<>> => Head(Tail(s)) = Tail(s)[1]
    OBVIOUS
  <2> QED
    BY <1>1, <2>1, <2>2, <2>3
<1>5. Len(Tail(s)) > 0 /\ Tail(s)[1][2] = "key" => Head(s)[2] = "chain"
  BY <1>1 DEF Ordered
<1> QED
  BY <1>1, <1>2, <1>3, <1>4, <1>5

LEMMA ScriptOrdered ==
  ASSUME NEW d \in Domain
  PROVE  Ordered(Script(d)) /\ Script(d) # <<>> /\ Head(Script(d)) = <<"store", "chain">>
<1> DEFINE first  == <<<<"store", "chain">>, <<"store", "key">>>>
           nats   == <<<<"nats", "chain">>, <<"nats", "key">>, <<"nats", "reload">>>>
           others == IF d \in Proxied THEN <<<<d, "chain">>, <<d, "key">>, <<d, "reload">>>> ELSE <<>>
<1>1. Ordered(first) /\ first[1] = <<"store", "chain">> /\ Len(first) = 2
  BY DEF Ordered, CopyStep
<1>2. Ordered(nats) /\ nats[1] = <<"nats", "chain">> /\ Len(nats) = 3
  BY DEF Ordered, CopyStep, Copies
<1>3. Ordered(others) /\ (others # <<>> => others[1][2] = "chain")
  <2>1. CASE d \in Proxied
    BY <2>1 DEF Ordered, CopyStep, Copies
  <2>2. CASE d \notin Proxied
    BY <2>2 DEF Ordered
  <2> QED
    BY <2>1, <2>2
<1> HIDE DEF first, nats, others
<1>4. Ordered(nats \o others) /\ (nats \o others)[1][2] = "chain"
  <2>1. Len(others) \in Nat
    BY <1>3, LenProperties DEF Ordered
  <2>2. \A i \in 1 .. Len(nats) + Len(others) :
             (nats \o others)[i] = IF i <= Len(nats) THEN nats[i] ELSE others[i - Len(nats)]
    BY <1>2, <1>3, ConcatProperties DEF Ordered
  <2>3. (nats \o others)[1][2] = "chain"
    BY <1>2, <2>1, <2>2
  <2> QED
    BY <1>2, <1>3, <2>3, OrderedConcat
<1>5. Ordered(first \o (nats \o others))
  BY <1>1, <1>4, OrderedConcat
<1>6. Script(d) = first \o (nats \o others)
  BY DEF Script, Refresh, first, nats, others
<1>7. /\ first \o (nats \o others) \in Seq(CopyStep)
      /\ Len(first \o (nats \o others)) = Len(first) + Len(nats \o others)
      /\ \A i \in 1 .. Len(first) + Len(nats \o others) :
           (first \o (nats \o others))[i] =
             IF i <= Len(first) THEN first[i] ELSE (nats \o others)[i - Len(first)]
  BY <1>1, <1>4, ConcatProperties DEF Ordered
<1>8. Len(nats \o others) \in Nat
  BY <1>4, LenProperties DEF Ordered
<1>9. Script(d) # <<>> /\ Head(Script(d)) = <<"store", "chain">>
  BY <1>1, <1>6, <1>7, <1>8
<1> QED
  BY <1>5, <1>6, <1>9

-------------------------------------------------------------------------------
(* The inductive invariant                                                  *)

Value == {NoCert} \cup (Domain \X Int)

\* The types the argument needs; a writer with something to do has a domain.
Typed ==
  /\ store \in [Domain -> [chain : Int, key : Int]]
  /\ files \in [Copies -> [chain : Value, key : Value]]
  /\ job \in [Writers -> [steps : Seq(CopyStep), todo : SUBSET Domain,
                          domain : Domain \cup {NoCert}, serial : Nat]]
  /\ acme \in [Domain -> Nat] /\ used \in [Domain -> Nat] /\ configs \subseteq Domain
  /\ \A w \in Writers :
       /\ Ordered(job[w].steps)
       /\ job[w].steps # <<>> => job[w].domain \in Domain

\* A writer is about to make this write.
Due(w, dst, part) == job[w].steps # <<>> /\ Head(job[w].steps) = <<dst, part>>

\* No two writers have something to do.
Alone == \A v, w \in Writers : v # w => ~Busy(v) \/ ~Busy(w)

\* A writer finds the directory of its domain.
DirThere == \A w \in Writers : job[w].steps # <<>> => store[job[w].domain] # NoDir

\* In the store, chain and key fit but for a writer that is between the two.
StoreFits ==
  /\ \A d \in Domain :
       \/ store[d].chain = store[d].key
       \/ \E w \in Writers : job[w].domain = d /\ Due(w, "store", "key")
  /\ \A w \in Writers : Due(w, "store", "key") => store[job[w].domain].chain = job[w].serial

\* So they do in the copies; a writer between the two has the store's chain copied, if
\* there is one.
CopiesFit ==
  /\ \A c \in Copies : \/ files[c].chain = files[c].key
                       \/ \E w \in Writers : Due(w, c, "key")
  /\ \A c \in Copies, w \in Writers :
       Due(w, c, "key") =>
         files[c].chain = IF store[job[w].domain].chain > 0
                          THEN <<job[w].domain, store[job[w].domain].chain>>
                          ELSE files[c].key

FitInv == Typed /\ (~torn => Alone /\ DirThere /\ StoreFits /\ CopiesFit)

LEMMA IdleRests ==
  /\ Idle \in [steps : Seq(CopyStep), todo : SUBSET Domain, domain : Domain \cup {NoCert}, serial : Nat]
  /\ Idle.steps = <<>> /\ Idle.todo = {} /\ Ordered(<<>>)
  BY DEF Idle, Ordered

LEMMA FitStarts == CertInit => FitInv
<1> SUFFICES ASSUME CertInit PROVE FitInv
  OBVIOUS
<1>1. Typed
  BY IdleRests DEF CertInit, Typed, NoDir, Blank, Value
<1>2. Alone /\ DirThere /\ StoreFits /\ CopiesFit
  BY DEF CertInit, Alone, Busy, DirThere, StoreFits, CopiesFit, Due, NoDir, Blank, Idle
<1> QED
  BY <1>1, <1>2 DEF FitInv

\* What leaves the store, the copies and the jobs alone.
LEMMA BesideKeeps ==
  ASSUME FitInv, UNCHANGED <<store, files, job, torn>>,
         acme' \in [Domain -> Nat], used' \in [Domain -> Nat], configs' \subseteq Domain
  PROVE  FitInv'
<1>1. Typed'
  BY DEF FitInv, Typed
<1>2. ~torn' => Alone' /\ DirThere' /\ StoreFits' /\ CopiesFit'
  BY DEF FitInv, Alone, Busy, DirThere, StoreFits, CopiesFit, Due
<1> QED
  BY <1>1, <1>2 DEF FitInv

Job == [steps : Seq(CopyStep), todo : SUBSET Domain, domain : Domain \cup {NoCert}, serial : Nat]

\* A writer's job is replaced by another.
LEMMA JobTyped ==
  ASSUME Typed, NEW w \in Writers, NEW j \in Job, Ordered(j.steps),
         j.steps # <<>> => j.domain \in Domain, job' = [job EXCEPT ![w] = j],
         store' \in [Domain -> [chain : Int, key : Int]],
         files' \in [Copies -> [chain : Value, key : Value]],
         acme' \in [Domain -> Nat], used' \in [Domain -> Nat], configs' \subseteq Domain
  PROVE  Typed'
<1>1. job' \in [Writers -> Job]
  BY DEF Typed, Job
<1>2. \A v \in Writers : job'[v] = IF v = w THEN j ELSE job[v]
  BY DEF Typed
<1> QED
  BY <1>1, <1>2 DEF Typed, Job

\* Where nobody is between two writes everything fits, and a script starts well.
LEMMA NothingHalf ==
  ASSUME FitInv, ~torn, \A w \in Writers : job[w].steps = <<>>
  PROVE  /\ \A d \in Domain : store[d].chain = store[d].key
         /\ \A c \in Copies : files[c].chain = files[c].key
  BY DEF FitInv, StoreFits, CopiesFit, Due

LEMMA FreshFits ==
  ASSUME Typed', Alone', DirThere',
         \A d \in Domain : store'[d].chain = store'[d].key,
         \A c \in Copies : files'[c].chain = files'[c].key,
         \A w \in Writers : job'[w].steps = <<>> \/ Head(job'[w].steps) = <<"store", "chain">>
  PROVE  FitInv'
<1>1. \A w \in Writers, x \in {"store"} \cup Copies : ~Due(w, x, "key")'
  BY DEF Due
<1> QED
  BY <1>1 DEF FitInv, StoreFits, CopiesFit

LEMMA SyncStartKeeps == FitInv /\ StartSync => FitInv'
<1> SUFFICES ASSUME FitInv, StartSync PROVE FitInv'
  OBVIOUS
<1>1. Typed'
  BY IdleRests DEF FitInv, Typed, StartSync, Writers
<1>2. CASE torn'
  BY <1>1, <1>2 DEF FitInv
<1>3. CASE ~torn'
  <2>1. ~torn /\ ~Busy("import") /\ ~Busy("worker")
    BY <1>3 DEF StartSync, Spoil
  <2>2. job["import"] = Idle /\ job["worker"] = Idle
    BY <2>1 DEF Busy
  <2>3. \A w \in Writers : job[w].steps = <<>> /\ job'[w].steps = <<>>
    BY <2>2, IdleRests DEF StartSync, Writers, FitInv, Typed
  <2>4. Alone'
    BY <2>2 DEF StartSync, Alone, Busy, Writers, FitInv, Typed
  <2> QED
    BY <1>1, <2>1, <2>3, <2>4, NothingHalf, FreshFits DEF DirThere, StartSync
<1> QED
  BY <1>2, <1>3

LEMMA ConsiderKeeps == ASSUME FitInv, NEW d \in Domain, ConsiderDomain(d) PROVE FitInv'
<1> DEFINE made == IF store[d] = NoDir THEN Empty ELSE store[d]
           next == IF acme[d] \in {0, made.chain} THEN [Idle EXCEPT !.todo = job["worker"].todo \ {d}]
                   ELSE [steps |-> Script(d), todo |-> job["worker"].todo \ {d}, domain |-> d,
                         serial |-> acme[d]]
<1>1. /\ made \in [chain : Int, key : Int] /\ made # NoDir
      /\ store' = [store EXCEPT ![d] = made] /\ job' = [job EXCEPT !["worker"] = next]
  BY DEF ConsiderDomain, Empty, NoDir, FitInv, Typed
<1>2. /\ Ordered(Script(d)) /\ Script(d) \in Seq(CopyStep)
      /\ Script(d) # <<>> /\ Head(Script(d)) = <<"store", "chain">>
  BY ScriptOrdered DEF Ordered
<1>3. /\ next \in [steps : Seq(CopyStep), todo : SUBSET Domain, domain : Domain \cup {NoCert}, serial : Nat]
      /\ Ordered(next.steps)
      /\ next.steps = <<>> \/ (next.domain = d /\ Head(next.steps) = <<"store", "chain">>)
  BY <1>2, IdleRests DEF FitInv, Typed, Writers
<1> HIDE DEF made, next
<1>4. Typed'
  <2>1. /\ Typed /\ next \in Job /\ "worker" \in Writers
        /\ store' \in [Domain -> [chain : Int, key : Int]]
        /\ UNCHANGED <<files, acme, used, configs>>
    <3>1. store' \in [Domain -> [chain : Int, key : Int]]
      BY <1>1 DEF FitInv, Typed
    <3>2. next \in Job
      BY <1>3 DEF Job
    <3> QED
      BY <3>1, <3>2 DEF FitInv, Writers, ConsiderDomain
  <2>2. files' \in [Copies -> [chain : Value, key : Value]] /\ acme' \in [Domain -> Nat]
        /\ used' \in [Domain -> Nat] /\ configs' \subseteq Domain
    BY <2>1 DEF Typed
  <2> QED
    BY <1>1, <1>3, <2>1, <2>2, JobTyped
<1>5. CASE torn
  BY <1>4, <1>5 DEF FitInv, ConsiderDomain
<1>6. CASE ~torn
  <2>1. Busy("worker") /\ job["worker"].steps = <<>>
    BY IdleRests DEF ConsiderDomain, Busy
  <2>2. job["import"] = Idle
    BY <1>6, <2>1 DEF FitInv, Alone, Busy, Writers
  <2>3. \A w \in Writers : job[w].steps = <<>>
    BY <2>1, <2>2, IdleRests DEF Writers
  <2>4. job'["import"] = Idle /\ job'["worker"] = next
    BY <1>1, <2>2 DEF FitInv, Typed, Writers
  <2>5. Alone' /\ DirThere'
    BY <1>1, <1>3, <2>4, IdleRests DEF Alone, Busy, DirThere, Writers, FitInv, Typed
  <2>6. \A e \in Domain : store'[e].chain = store'[e].key
    BY <1>1, <1>6, <2>3, NothingHalf DEF made, Empty, FitInv, Typed
  <2>7. \A c \in Copies : files'[c].chain = files'[c].key
    BY <1>6, <2>3, NothingHalf DEF ConsiderDomain
  <2> QED
    BY <1>3, <1>4, <2>4, <2>5, <2>6, <2>7, IdleRests, FreshFits DEF Writers
<1> QED
  BY <1>5, <1>6

LEMMA ImportStartKeeps == ASSUME FitInv, NEW d \in Domain, StartImport(d) PROVE FitInv'
<1> DEFINE next == [steps |-> Script(d), todo |-> {}, domain |-> d, serial |-> used[d] + 1]
<1>1. /\ Ordered(Script(d)) /\ Script(d) \in Seq(CopyStep)
      /\ Script(d) # <<>> /\ Head(Script(d)) = <<"store", "chain">>
  BY ScriptOrdered DEF Ordered
<1>2. /\ next \in Job /\ Ordered(next.steps) /\ next.domain = d
      /\ Head(next.steps) = <<"store", "chain">>
  BY <1>1 DEF FitInv, Typed, Job
<1>3. job' = [job EXCEPT !["import"] = next]
  BY DEF StartImport
<1> HIDE DEF next
<1>4. Typed'
  <2>1. /\ Typed /\ "import" \in Writers
        /\ store' \in [Domain -> [chain : Int, key : Int]]
        /\ used' \in [Domain -> Nat] /\ UNCHANGED <<files, acme, configs>>
    <3>1. Empty \in [chain : Int, key : Int] /\ used[d] + 1 \in Nat
      BY DEF Empty, FitInv, Typed
    <3>2. store' \in [Domain -> [chain : Int, key : Int]]
      BY <3>1 DEF StartImport, FitInv, Typed
    <3>3. used' \in [Domain -> Nat]
      BY <3>1 DEF StartImport, FitInv, Typed
    <3> QED
      BY <3>2, <3>3 DEF FitInv, Writers, StartImport
  <2>2. files' \in [Copies -> [chain : Value, key : Value]] /\ acme' \in [Domain -> Nat]
        /\ configs' \subseteq Domain
    BY <2>1 DEF Typed
  <2> QED
    BY <1>2, <1>3, <2>1, <2>2, JobTyped
<1>5. CASE torn'
  BY <1>4, <1>5 DEF FitInv
<1>6. CASE ~torn'
  <2>1. ~torn /\ job["worker"] = Idle /\ job["import"] = Idle
    BY <1>6 DEF StartImport, Busy
  <2>2. \A w \in Writers : job[w].steps = <<>>
    BY <2>1, IdleRests DEF Writers
  <2>3. job'["worker"] = Idle /\ job'["import"] = next
    BY <1>3, <2>1 DEF FitInv, Typed, Writers
  <2>4. store' = [store EXCEPT ![d] = IF @ = NoDir THEN Empty ELSE @] /\ store'[d] # NoDir
    BY DEF StartImport, Empty, NoDir, FitInv, Typed
  <2>5. Alone' /\ DirThere'
    BY <1>2, <2>3, <2>4, IdleRests DEF Alone, Busy, DirThere, Writers
  <2>6. \A e \in Domain : store'[e].chain = store'[e].key
    BY <2>1, <2>2, <2>4, NothingHalf DEF Empty, FitInv, Typed
  <2>7. \A c \in Copies : files'[c].chain = files'[c].key
    BY <2>1, <2>2, NothingHalf DEF StartImport
  <2> QED
    BY <1>2, <1>4, <2>3, <2>5, <2>6, <2>7, IdleRests, FreshFits DEF Writers
<1> QED
  BY <1>5, <1>6

\* What a removal takes, it takes whole: and it meets no writer, or it is torn.
LEMMA RemovalKeeps ==
  ASSUME FitInv, Typed', job' \in [Writers -> Job],
         torn' \/ (~torn /\ \A w \in Writers : ~Busy(w)),
         \A w \in Writers : job'[w] \in {job[w], Idle},
         \A d \in Domain : store'[d] \in {store[d], NoDir},
         \A c \in Copies : files'[c] \in {files[c], Blank}
  PROVE  FitInv'
<1>1. CASE torn'
  BY <1>1 DEF FitInv
<1>2. CASE ~torn'
  <2>1. ~torn /\ \A w \in Writers : job[w] = Idle /\ job'[w] = Idle
    BY <1>2 DEF Busy
  <2>2. \A w \in Writers : job[w].steps = <<>> /\ job'[w].steps = <<>>
    BY <2>1, IdleRests
  <2>3. Alone' /\ DirThere'
    BY <2>1, <2>2 DEF Alone, Busy, DirThere
  <2>4. \A d \in Domain : store'[d].chain = store'[d].key
    BY <2>1, <2>2, NothingHalf DEF NoDir
  <2>5. \A c \in Copies : files'[c].chain = files'[c].key
    BY <2>1, <2>2, NothingHalf DEF Blank
  <2> QED
    BY <2>2, <2>3, <2>4, <2>5, FreshFits
<1> QED
  BY <1>1, <1>2

LEMMA RemoveKeeps == ASSUME FitInv, NEW d \in Domain, CertsRemove(d) PROVE FitInv'
<1>1. Typed'
  <2>1. /\ store' \in [Domain -> [chain : Int, key : Int]]
        /\ files' \in [Copies -> [chain : Value, key : Value]]
        /\ configs' \subseteq Domain /\ UNCHANGED <<acme, used, job>>
    BY DEF CertsRemove, FitInv, Typed, NoDir, Blank, Value, Copies
  <2> QED
    BY <2>1 DEF FitInv, Typed
<1>2. /\ job' \in [Writers -> Job] /\ \A w \in Writers : job'[w] \in {job[w], Idle}
      /\ \A e \in Domain : store'[e] \in {store[e], NoDir}
      /\ \A c \in Copies : files'[c] \in {files[c], Blank}
  BY DEF CertsRemove, FitInv, Typed, Job
<1>3. torn' \/ (~torn /\ \A w \in Writers : ~Busy(w))
  BY DEF CertsRemove
<1> QED
  BY <1>1, <1>2, <1>3, RemovalKeeps

LEMMA RemoveRenewKeeps == FitInv /\ RemoveCertRenew => FitInv'
<1> SUFFICES ASSUME FitInv, RemoveCertRenew PROVE FitInv'
  OBVIOUS
<1>1. Typed'
  <2>1. /\ store' \in [Domain -> [chain : Int, key : Int]]
        /\ configs' \subseteq Domain /\ UNCHANGED <<files, acme, used>>
        /\ job' = [job EXCEPT !["worker"] = Idle]
    BY DEF RemoveCertRenew, NoDir
  <2>2. files' \in [Copies -> [chain : Value, key : Value]] /\ acme' \in [Domain -> Nat]
        /\ used' \in [Domain -> Nat] /\ Typed /\ "worker" \in Writers
    BY <2>1 DEF FitInv, Typed, Writers
  <2>3. Idle \in Job /\ Ordered(Idle.steps) /\ ~(Idle.steps # <<>>)
    BY IdleRests DEF Job
  <2> HIDE DEF Job
  <2> QED
    BY <2>1, <2>2, <2>3, JobTyped
<1>2. /\ job' \in [Writers -> Job] /\ \A w \in Writers : job'[w] \in {job[w], Idle}
      /\ \A e \in Domain : store'[e] \in {store[e], NoDir}
      /\ \A c \in Copies : files'[c] \in {files[c], Blank}
  BY IdleRests DEF RemoveCertRenew, FitInv, Typed, Job
<1>3. torn' \/ (~torn /\ \A w \in Writers : ~Busy(w))
  BY DEF RemoveCertRenew
<1> QED
  BY <1>1, <1>2, <1>3, RemovalKeeps

LEMMA RebootKeeps == FitInv /\ NodeReboot => FitInv'
<1> SUFFICES ASSUME FitInv, NodeReboot PROVE FitInv'
  OBVIOUS
<1>1. job' = [w \in Writers |-> Idle] /\ job' \in [Writers -> Job]
  BY IdleRests DEF NodeReboot, Job
<1>2. Typed'
  BY <1>1, IdleRests DEF NodeReboot, FitInv, Typed
<1>3. torn' \/ (~torn /\ \A w \in Writers : ~Busy(w))
  BY DEF NodeReboot, Spoil
<1> QED
  BY <1>1, <1>2, <1>3, RemovalKeeps DEF NodeReboot

\* A writer that goes on with what is left of its script.
LEMMA AdvancedIs ==
  ASSUME Typed, NEW w \in Writers, job[w].steps # <<>>, job' = Advanced(w),
         store' \in [Domain -> [chain : Int, key : Int]],
         files' \in [Copies -> [chain : Value, key : Value]],
         acme' \in [Domain -> Nat], used' \in [Domain -> Nat], configs' \subseteq Domain
  PROVE  /\ Typed'
         /\ \A v \in Writers : v # w => job'[v] = job[v]
         /\ job'[w].steps = Tail(job[w].steps)
         /\ job'[w].steps # <<>> =>
              job'[w].domain = job[w].domain /\ job'[w].serial = job[w].serial
<1> DEFINE rest == Tail(job[w].steps)
           next == IF rest = <<>> THEN [Idle EXCEPT !.todo = job[w].todo]
                   ELSE [job[w] EXCEPT !.steps = rest]
<1>1. /\ job[w] \in Job /\ Ordered(job[w].steps) /\ job[w].domain \in Domain
      /\ Ordered(rest) /\ rest \in Seq(CopyStep)
  BY OrderedTail DEF Typed, Job, Ordered
<1>2. job' = [job EXCEPT ![w] = next]
  BY DEF Advanced
<1>3. /\ next \in Job /\ next.steps = rest
      /\ next.steps # <<>> => next.domain = job[w].domain /\ next.serial = job[w].serial
  BY <1>1, IdleRests DEF Job
<1> HIDE DEF next
<1>4. Typed'
  BY <1>1, <1>2, <1>3, JobTyped
<1>5. \A v \in Writers : job'[v] = IF v = w THEN next ELSE job[v]
  BY <1>2 DEF Typed
<1> QED
  BY <1>3, <1>4, <1>5

LEMMA KillKeeps == ASSUME FitInv, NEW w \in Writers, Kill(w) PROVE FitInv'
<1>1. Typed'
  <2>1. /\ UNCHANGED <<store, files, acme, used, configs>> /\ Typed
        /\ job' = [job EXCEPT ![w] = Idle]
    BY DEF Kill, FitInv
  <2>2. Idle \in Job /\ Ordered(Idle.steps) /\ ~(Idle.steps # <<>>)
    BY IdleRests DEF Job
  <2>3. /\ store' \in [Domain -> [chain : Int, key : Int]]
        /\ files' \in [Copies -> [chain : Value, key : Value]]
        /\ acme' \in [Domain -> Nat] /\ used' \in [Domain -> Nat] /\ configs' \subseteq Domain
    BY <2>1 DEF Typed
  <2> QED
    BY <2>1, <2>2, <2>3, JobTyped
<1> QED
  BY <1>1 DEF Kill, Spoil, FitInv

LEMMA FailKeeps == ASSUME FitInv, NEW w \in Writers, FailWrite(w) PROVE FitInv'
<1> DEFINE d == job[w].domain  dst == Head(job[w].steps)[1]  part == Head(job[w].steps)[2]
<1>1. /\ d \in Domain /\ dst \in {"store"} \cup Copies /\ part \in {"chain", "key"}
  BY OrderedTail DEF FailWrite, FitInv, Typed, CopyStep
<1>2. /\ store' \in [Domain -> [chain : Int, key : Int]]
      /\ files' \in [Copies -> [chain : Value, key : Value]]
  <2>1. CASE UNCHANGED <<store, files>>
    BY <2>1 DEF FitInv, Typed
  <2>2. CASE dst = "store" /\ store' = [store EXCEPT ![d][part] = IF store[d] = NoDir THEN @ ELSE 0] /\ UNCHANGED files
    <3> DEFINE x == IF store[d] = NoDir THEN store[d][part] ELSE 0
    <3>1. x \in Int /\ store' = [store EXCEPT ![d] = [store[d] EXCEPT ![part] = x]]
      BY <1>1, <2>2 DEF FitInv, Typed
    <3> HIDE DEF x, d, part
    <3>2. [store[d] EXCEPT ![part] = x] \in [chain : Int, key : Int]
      BY <1>1, <3>1 DEF FitInv, Typed
    <3> QED
      BY <1>1, <2>2, <3>1, <3>2 DEF FitInv, Typed
  <2>3. CASE dst # "store" /\ files' = [files EXCEPT ![dst][part] = NoCert] /\ UNCHANGED store
    BY <1>1, <2>3 DEF FitInv, Typed, Value
  <2>4. \/ UNCHANGED <<store, files>>
        \/ IF dst = "store"
           THEN /\ store' = [store EXCEPT ![d][part] = IF store[d] = NoDir THEN @ ELSE 0]
                /\ UNCHANGED files
           ELSE /\ files' = [files EXCEPT ![dst][part] = NoCert]
                /\ UNCHANGED store
    BY Zenon DEF FailWrite
  <2> HIDE DEF d, dst, part
  <2> QED
    BY <2>1, <2>2, <2>3, <2>4
<1>3. /\ job[w].steps # <<>> /\ job' = Advanced(w) /\ torn' = TRUE
      /\ UNCHANGED <<acme, used, configs>>
  BY DEF FailWrite, Spoil
<1>4. acme' \in [Domain -> Nat] /\ used' \in [Domain -> Nat] /\ configs' \subseteq Domain /\ Typed
  BY <1>3 DEF FitInv, Typed
<1> HIDE DEF d, dst, part
<1>5. Typed'
  BY <1>2, <1>3, <1>4, AdvancedIs
<1> QED
  BY <1>3, <1>5 DEF FitInv

LEMMA IssueCommandKeeps == ASSUME FitInv, NEW d \in Domain, CertsIssue(d) PROVE FitInv'
<1>1. store' \in [Domain -> [chain : Int, key : Int]]
  BY DEF CertsIssue, FitInv, Typed, Empty
<1>2. Typed'
  <2>1. configs' \subseteq Domain /\ UNCHANGED <<files, job, acme, used>>
    BY DEF CertsIssue, FitInv, Typed
  <2> QED
    BY <1>1, <2>1 DEF FitInv, Typed
<1>3. ASSUME ~torn PROVE Alone' /\ DirThere' /\ StoreFits' /\ CopiesFit'
  <2>1. /\ files' = files /\ job' = job
        /\ \A e \in Domain : store'[e] = IF e = d /\ store[d] = NoDir THEN Empty ELSE store[e]
    BY DEF CertsIssue, FitInv, Typed
  <2>2. Alone'
    BY <1>3, <2>1 DEF FitInv, Alone, Busy
  <2>3. \A w \in Writers : job[w].steps # <<>> =>
          job[w].domain \in Domain /\ store'[job[w].domain] = store[job[w].domain]
    BY <1>3, <2>1 DEF FitInv, Typed, DirThere
  <2>4. DirThere'
    BY <1>3, <2>1, <2>3 DEF FitInv, DirThere
  <2>5. StoreFits'
    <3>1. ASSUME NEW e \in Domain
          PROVE  \/ store'[e].chain = store'[e].key
                 \/ \E w \in Writers : job'[w].domain = e /\ Due(w, "store", "key")'
      <4>1. CASE store[e].chain = store[e].key
        BY <2>1, <4>1 DEF Empty
      <4>2. CASE store[e].chain # store[e].key
        <5>1. PICK w \in Writers : job[w].domain = e /\ Due(w, "store", "key")
          BY <1>3, <4>2 DEF FitInv, StoreFits
        <5>2. job'[w].domain = e /\ Due(w, "store", "key")'
          BY <2>1, <5>1 DEF Due
        <5> QED
          BY <5>2
      <4> QED
        BY <4>1, <4>2
    <3>2. \A w \in Writers : Due(w, "store", "key")' => store'[job'[w].domain].chain = job'[w].serial
      BY <1>3, <2>1, <2>3 DEF FitInv, StoreFits, Due
    <3> QED
      BY <3>1, <3>2 DEF StoreFits
  <2>6. CopiesFit'
    BY <1>3, <2>1, <2>3 DEF FitInv, CopiesFit, Due
  <2> QED
    BY <2>2, <2>4, <2>5, <2>6
<1> QED
  BY <1>2, <1>3 DEF FitInv, CertsIssue

\* What one write does to the store and to the copies.
LEMMA PerformWrites ==
  ASSUME FitInv, NEW w \in Writers, Perform(w),
         NEW d, NEW dst, NEW part, d = job[w].domain,
         dst = Head(job[w].steps)[1], part = Head(job[w].steps)[2]
  PROVE  /\ d \in Domain /\ <<dst, part>> \in CopyStep /\ Head(job[w].steps) = <<dst, part>>
         /\ job[w].serial \in Nat
         /\ store' \in [Domain -> [chain : Int, key : Int]]
         /\ files' \in [Copies -> [chain : Value, key : Value]]
         /\ \A e \in Domain :
              /\ store'[e].chain = IF e = d /\ dst = "store" /\ part = "chain" /\ store[d] # NoDir
                                   THEN job[w].serial ELSE store[e].chain
              /\ store'[e].key = IF e = d /\ dst = "store" /\ part = "key" /\ store[d] # NoDir
                                 THEN job[w].serial ELSE store[e].key
         /\ \A c \in Copies :
              /\ files'[c].chain = IF c = dst /\ part = "chain" /\ store[d].chain > 0
                                   THEN <<d, store[d].chain>> ELSE files[c].chain
              /\ files'[c].key = IF c = dst /\ part = "key" /\ store[d].key > 0
                                 THEN <<d, store[d].key>> ELSE files[c].key
<1>1. /\ d \in Domain /\ <<dst, part>> \in CopyStep /\ Head(job[w].steps) = <<dst, part>>
      /\ job[w].serial \in Nat
  BY OrderedTail DEF Perform, FitInv, Typed, CopyStep
<1>2. "store" \notin Copies
  BY CertConstants DEF Copies
<1>3. /\ store' = IF dst = "store" /\ store[d] # NoDir
                  THEN [store EXCEPT ![d][part] = job[w].serial] ELSE store
      /\ files' = IF dst # "store" /\ part # "reload" /\ store[d][part] > 0
                  THEN [files EXCEPT ![dst][part] = <<d, store[d][part]>>] ELSE files
  BY DEF Perform
<1>4. /\ store \in [Domain -> [chain : Int, key : Int]]
      /\ files \in [Copies -> [chain : Value, key : Value]]
  BY DEF FitInv, Typed
<1>5. CASE dst = "store"
  <2>1. part \in {"chain", "key"} /\ files' = files
    BY <1>1, <1>2, <1>3, <1>5 DEF CopyStep
  <2>2. CASE part = "chain"
    <3>1. store' = IF store[d] # NoDir
                   THEN [store EXCEPT ![d] = [store[d] EXCEPT !.chain = job[w].serial]] ELSE store
      BY <1>1, <1>3, <1>4, <1>5, <2>2
    <3>2. [store[d] EXCEPT !.chain = job[w].serial] \in [chain : Int, key : Int]
      BY <1>1, <1>4
    <3>3. store' \in [Domain -> [chain : Int, key : Int]]
      BY <1>1, <1>4, <3>1, <3>2
    <3> QED
      BY <1>1, <1>2, <1>4, <1>5, <2>1, <2>2, <3>1, <3>3
  <2>3. CASE part = "key"
    <3>1. store' = IF store[d] # NoDir
                   THEN [store EXCEPT ![d] = [store[d] EXCEPT !.key = job[w].serial]] ELSE store
      BY <1>1, <1>3, <1>4, <1>5, <2>3
    <3>2. [store[d] EXCEPT !.key = job[w].serial] \in [chain : Int, key : Int]
      BY <1>1, <1>4
    <3>3. store' \in [Domain -> [chain : Int, key : Int]]
      BY <1>1, <1>4, <3>1, <3>2
    <3> QED
      BY <1>1, <1>2, <1>4, <1>5, <2>1, <2>3, <3>1, <3>3
  <2> QED
    BY <2>1, <2>2, <2>3
<1>6. CASE dst # "store"
  <2>1. dst \in Copies /\ part \in {"chain", "key", "reload"} /\ store' = store
    BY <1>1, <1>3, <1>6 DEF CopyStep
  <2>2. CASE part = "chain"
    <3>1. store[d].chain > 0 => <<d, store[d].chain>> \in Value
      BY <1>1, <1>4 DEF Value
    <3> QED
      BY <1>1, <1>3, <1>4, <1>6, <2>1, <2>2, <3>1
  <2>3. CASE part = "key"
    <3>1. store[d].key > 0 => <<d, store[d].key>> \in Value
      BY <1>1, <1>4 DEF Value
    <3> QED
      BY <1>1, <1>3, <1>4, <1>6, <2>1, <2>3, <3>1
  <2>4. CASE part = "reload"
    BY <1>1, <1>3, <1>4, <1>6, <2>1, <2>4
  <2> QED
    BY <2>1, <2>2, <2>3, <2>4
<1> QED
  BY <1>5, <1>6

LEMMA PerformKeeps == ASSUME FitInv, NEW w \in Writers, Perform(w) PROVE FitInv'
<1> DEFINE d == job[w].domain  dst == Head(job[w].steps)[1]  part == Head(job[w].steps)[2]
<1>1. /\ d \in Domain /\ <<dst, part>> \in CopyStep /\ Head(job[w].steps) = <<dst, part>>
      /\ job[w].serial \in Nat
      /\ store' \in [Domain -> [chain : Int, key : Int]]
      /\ files' \in [Copies -> [chain : Value, key : Value]]
      /\ \A e \in Domain :
           /\ store'[e].chain = IF e = d /\ dst = "store" /\ part = "chain" /\ store[d] # NoDir
                                THEN job[w].serial ELSE store[e].chain
           /\ store'[e].key = IF e = d /\ dst = "store" /\ part = "key" /\ store[d] # NoDir
                              THEN job[w].serial ELSE store[e].key
      /\ \A c \in Copies :
           /\ files'[c].chain = IF c = dst /\ part = "chain" /\ store[d].chain > 0
                                THEN <<d, store[d].chain>> ELSE files[c].chain
           /\ files'[c].key = IF c = dst /\ part = "key" /\ store[d].key > 0
                              THEN <<d, store[d].key>> ELSE files[c].key
  BY PerformWrites
<1>2. /\ job[w].steps # <<>> /\ job' = Advanced(w) /\ torn' = torn
      /\ UNCHANGED <<acme, used, configs>> /\ Typed
  BY DEF Perform, FitInv
<1>3. acme' \in [Domain -> Nat] /\ used' \in [Domain -> Nat] /\ configs' \subseteq Domain
  BY <1>2 DEF Typed
<1>4. /\ Typed'
      /\ \A v \in Writers : v # w => job'[v] = job[v]
      /\ job'[w].steps = Tail(job[w].steps)
      /\ job'[w].steps # <<>> => job'[w].domain = d /\ job'[w].serial = job[w].serial
  BY <1>1, <1>2, <1>3, AdvancedIs
<1>5. /\ part = "chain" => job'[w].steps # <<>> /\ Head(job'[w].steps) = <<dst, "key">>
      /\ job'[w].steps # <<>> /\ Head(job'[w].steps)[2] = "key" => part = "chain"
  BY <1>1, <1>2, <1>4, OrderedTail DEF Typed
<1> HIDE DEF d, dst, part
<1>6. ASSUME ~torn PROVE Alone' /\ DirThere' /\ StoreFits' /\ CopiesFit'
  <2>1. Alone /\ DirThere /\ StoreFits /\ CopiesFit
    BY <1>6 DEF FitInv
  <2>2. \A v \in Writers : v # w => job[v] = Idle /\ job'[v] = Idle
    BY <1>2, <1>4, <2>1, IdleRests DEF Alone, Busy
  <2>3. \A v \in Writers, x \in {"store"} \cup Copies :
          /\ Due(v, x, "key") <=> v = w /\ x = dst /\ part = "key"
          /\ Due(v, x, "key")' <=> v = w /\ x = dst /\ part = "chain"
    <3>1. \A v \in Writers, x \in {"store"} \cup Copies : v # w => ~Due(v, x, "key") /\ ~Due(v, x, "key")'
      BY <2>2, IdleRests DEF Due
    <3>2. \A x \in {"store"} \cup Copies : Due(w, x, "key") <=> x = dst /\ part = "key"
      BY <1>1, <1>2 DEF Due
    <3>3. \A x \in {"store"} \cup Copies : Due(w, x, "key")' <=> x = dst /\ part = "chain"
      BY <1>5 DEF Due
    <3> QED
      BY <3>1, <3>2, <3>3
  <2>4. store[d] # NoDir /\ "store" \notin Copies /\ (dst = "store" \/ dst \in Copies)
    BY <1>1, <1>2, <2>1, CertConstants DEF DirThere, Copies, CopyStep, d
  <2>5. store'[d] # NoDir
    <3>1. dst = "store" /\ part = "chain" => store'[d].chain \in Nat
      BY <1>1, <2>4
    <3>2. dst = "store" /\ part = "key" => store'[d].key \in Nat
      BY <1>1, <2>4
    <3>3. ~(dst = "store" /\ part \in {"chain", "key"}) =>
            store'[d].chain = store[d].chain /\ store'[d].key = store[d].key
      BY <1>1
    <3>4. store[d].chain # -1 \/ store[d].key # -1
      BY <1>1, <1>2, <2>4 DEF Typed, NoDir
    <3>5. store'[d].chain # -1 \/ store'[d].key # -1
      BY <3>1, <3>2, <3>3, <3>4
    <3> QED
      BY <3>5 DEF NoDir
  <2>6. Alone' /\ DirThere'
    BY <1>4, <2>2, <2>5, IdleRests DEF Alone, Busy, DirThere
  <2>7. \A e \in Domain : e # d \/ dst # "store" \/ part # "key" => store[e].chain = store[e].key
    BY <2>1, <2>3 DEF StoreFits, d
  <2>8. StoreFits'
    <3>1. dst = "store" /\ part = "key" => store[d].chain = job[w].serial
      BY <2>1, <2>3 DEF StoreFits, d
    <3>2. \A e \in Domain : store'[e].chain = store'[e].key \/ (e = d /\ dst = "store" /\ part = "chain")
      BY <1>1, <2>4, <2>7, <3>1
    <3>3. dst = "store" /\ part = "chain" => job'[w].domain = d /\ Due(w, "store", "key")'
      BY <1>4, <1>5, <2>3
    <3>4. \A v \in Writers : Due(v, "store", "key")' => store'[job'[v].domain].chain = job'[v].serial
      BY <1>1, <1>4, <1>5, <2>3, <2>4
    <3> QED
      BY <3>2, <3>3, <3>4 DEF StoreFits
  <2>9. CopiesFit'
    <3>1. \A c \in Copies : c # dst \/ part # "key" => files[c].chain = files[c].key
      BY <2>1, <2>3 DEF CopiesFit
    <3>2. ASSUME dst \in Copies, part = "key"
          PROVE  files[dst].chain = IF store[d].chain > 0 THEN <<d, store[d].chain>> ELSE files[dst].key
      BY <2>1, <2>3, <3>2 DEF CopiesFit, d
    <3>3. \A c \in Copies : files'[c].chain = files'[c].key \/ (c = dst /\ part = "chain")
      BY <1>1, <2>4, <2>7, <3>1, <3>2
    <3>4. \A c \in Copies : files'[c].chain = files'[c].key \/ \E v \in Writers : Due(v, c, "key")'
      BY <2>3, <3>3
    <3>5. ASSUME NEW c \in Copies, NEW v \in Writers, Due(v, c, "key")'
          PROVE  files'[c].chain = IF store'[job'[v].domain].chain > 0
                                   THEN <<job'[v].domain, store'[job'[v].domain].chain>>
                                   ELSE files'[c].key
      <4>1. v = w /\ c = dst /\ part = "chain" /\ job'[v].domain = d
        BY <1>4, <1>5, <2>3, <3>5
      <4>2. store'[d].chain = store[d].chain /\ files[c].chain = files[c].key
        BY <1>1, <2>4, <3>1, <4>1
      <4> QED
        BY <1>1, <4>1, <4>2
    <3> QED
      BY <3>4, <3>5 DEF CopiesFit
  <2> QED
    BY <2>6, <2>8, <2>9
<1> QED
  BY <1>2, <1>4, <1>6 DEF FitInv

\* PairsFit for any domains, serials and mishaps: however issues, renewals, imports,
\* removals and skips follow one another (syncCert, the import's script), no service is
\* left with the chain of one certificate and the key of another.
THEOREM PairsAlwaysFit == CertSpec => []PairsFit
<1>1. FitInv /\ [CertNext]_<<certVars, opsVars>> => FitInv'
  <2> SUFFICES ASSUME FitInv, [CertNext]_<<certVars, opsVars>> PROVE FitInv'
    OBVIOUS
  <2>1. ASSUME UNCHANGED <<store, files, job, torn, acme, used, configs>> PROVE FitInv'
    BY <2>1, BesideKeeps DEF FitInv, Typed
  <2>2. CASE InstallTraefik \/ (\E t \in BOOLEAN : ApplyDomains(t)) \/ WatchTraefik \/ StartNats \/ TraefikHarm
    BY <2>1, <2>2 DEF InstallTraefik, ApplyDomains, WatchTraefik, StartNats, TraefikHarm, otherCert
  <2>3. CASE StartSync
    BY <2>3, SyncStartKeeps
  <2>4. ASSUME NEW d \in Domain, Issue(d) PROVE FitInv'
    BY <2>4, BesideKeeps DEF Issue, FitInv, Typed
  <2>5. ASSUME NEW d \in Domain, ConsiderDomain(d) \/ StartImport(d) \/ CertsIssue(d) \/ CertsRemove(d)
        PROVE  FitInv'
    BY <2>5, ConsiderKeeps, ImportStartKeeps, IssueCommandKeeps, RemoveKeeps
  <2>6. ASSUME NEW w \in Writers, Perform(w) \/ FailWrite(w) \/ Kill(w) PROVE FitInv'
    BY <2>6, PerformKeeps, FailKeeps, KillKeeps
  <2>7. CASE RemoveCertRenew \/ NodeReboot
    BY <2>7, RemoveRenewKeeps, RebootKeeps
  <2>8. CASE UNCHANGED certVars \/ (\E c \in Component : OpsRemoved(c))
    BY <2>1, <2>8 DEF certVars, OpsRemoved, otherCert
  <2> QED
    BY <2>2, <2>3, <2>4, <2>5, <2>6, <2>7, <2>8 DEF CertNext, CertStep, CertMishap
<1>2. FitInv => PairsFit
  BY DEF FitInv, CopiesFit, Due, PairsFit
<1> QED
  BY <1>1, <1>2, FitStarts, PTL DEF CertSpec

-------------------------------------------------------------------------------
(* The way in                                                                *)

\* The command comes back as the new account, or is over.
LEMMA ReconnectGoes ==
  ASSUME Reconnect
  PROVE  \/ init' = Rest
         \/ init' = [init EXCEPT !.step = "after", !.user = "sdkops",
                                 !.port = IF init.asked \in {0, 22} THEN init.port ELSE init.asked]
<1>1. CASE Login("sdkops", IF init.asked \in {0, 22} THEN init.port ELSE init.asked)
  BY <1>1, Zenon DEF Reconnect
<1>2. CASE ~Login("sdkops", IF init.asked \in {0, 22} THEN init.port ELSE init.asked)
  BY <1>2, Zenon DEF Reconnect
<1> QED
  BY <1>1, <1>2

\* Every variable keeps its type: for any ports, any number of commands and logins.
THEOREM AccessTypes == AccessSpec => []AccessTypeOK
<1>1. AccessInit => AccessTypeOK
  BY AccessConstants DEF AccessInit, AccessTypeOK, AllPorts, Rest, Step, User, Parts4Login
<1>2. AccessTypeOK /\ [AccessNext]_accessVars => AccessTypeOK'
  <2> SUFFICES ASSUME AccessTypeOK, [AccessNext]_accessVars PROVE AccessTypeOK'
    OBVIOUS
  <2> USE AccessConstants DEF AccessTypeOK, Goto, Step, User, Parts4Login
  <2>0. 22 \in AllPorts /\ AskedPorts \subseteq AllPorts \cup {0} /\ OpenPorts \subseteq AllPorts
        /\ Rest \in [step : Step, user : User, port : AllPorts, asked : AskedPorts \cup {0}, spare : BOOLEAN]
    BY DEF AllPorts, OpenPorts, Rest
  <2>1. ASSUME NEW u \in User, NEW p \in AllPorts, GivePlainInit(u, p) PROVE AccessTypeOK'
    BY <2>1 DEF GivePlainInit, Begin
  <2>2. ASSUME NEW u \in User, NEW p \in AllPorts, NEW asked \in AskedPorts \cup {0}, NEW spare \in BOOLEAN,
               GiveInit(u, p, asked, spare)
        PROVE  AccessTypeOK'
    BY <2>2 DEF GiveInit, Begin
  <2>3. CASE CreateUser
    BY <2>3 DEF CreateUser
  <2>4. CASE WriteJail
    BY <2>0, <2>4 DEF WriteJail
  <2>5. CASE DenyRoot
    BY <2>5 DEF DenyRoot
  <2>12. CASE CopyKeys
    BY <2>12 DEF CopyKeys
  <2>6. CASE AddPort
    <3>1. sshdConf' \in [ports : SUBSET AllPorts, root : BOOLEAN]
      BY <2>0, <2>6 DEF AddPort
    <3> QED
      BY <2>6, <3>1 DEF AddPort
  <2>7. CASE RestartSshd
    BY <2>7 DEF RestartSshd
  <2>8. CASE WriteRules
    BY <2>0, <2>8 DEF WriteRules
  <2>9. CASE LoadRules
    BY <2>9 DEF LoadRules
  <2>10. CASE Reconnect
    <3> DEFINE p == IF init.asked \in {0, 22} THEN init.port ELSE init.asked
    <3>1. p \in AllPorts
      BY <2>0
    <3>2. init' = Rest \/ init' = [init EXCEPT !.step = "after", !.user = "sdkops", !.port = p]
      BY <2>10, ReconnectGoes
    <3>3. failed' = Tries \/ failed' = failed
      BY <2>10, Zenon DEF Reconnect
    <3>4. UNCHANGED <<sshdConf, sshd, account, nftConf, nft, jail, inits, hurt>>
      BY <2>10, Zenon DEF Reconnect
    <3> QED
      <4>1. init' \in [step : Step, user : User, port : AllPorts, asked : AskedPorts \cup {0}, spare : BOOLEAN]
        <5>1. CASE init' = Rest
          BY <2>0, <5>1
        <5>2. CASE init' = [init EXCEPT !.step = "after", !.user = "sdkops", !.port = p]
          <6> HIDE DEF p
          <6> QED
            BY <3>1, <5>2
        <5> QED
          BY <3>2, <5>1, <5>2
      <4> QED
        BY <3>3, <3>4, <4>1
  <2>13. CASE PostInstall \/ KillInit
    BY <2>0, <2>13 DEF PostInstall, KillInit
  <2>14. CASE AccessReboot
    BY <2>0, <2>14 DEF AccessReboot
  <2>15. CASE Forgive
    BY <2>15 DEF Forgive
  <2>16. ASSUME NEW spare \in BOOLEAN, FleetJail(spare) PROVE AccessTypeOK'
    BY <2>0, <2>16 DEF FleetJail
  <2>17. ASSUME NEW p \in AllPorts, Probe(p) PROVE AccessTypeOK'
    BY <2>17 DEF Probe
  <2>11. CASE UNCHANGED accessVars
    BY <2>11 DEF accessVars
  <2> QED
    BY <2>1, <2>2, <2>3, <2>4, <2>5, <2>6, <2>7, <2>8, <2>9, <2>10, <2>11, <2>12, <2>13, <2>14, <2>15,
       <2>16, <2>17 DEF AccessNext
<1> QED
  BY <1>1, <1>2, PTL DEF AccessSpec

Hardening == {"jail", "root", "keys", "port", "restart", "rules", "load", "back"}

\* The operator knows of it when the account is not whole.
AccountKnown ==
  ~sshdConf.root \/ init.step \in Hardening =>
    "account" \in hurt \/ {"user", "shell", "sudo"} \subseteq account

\* Without root, the keys are there or were never copied; sshd allows root at least as
\* long as its configuration does.
KeysKnown == /\ ~sshdConf.root => "keys" \in hurt \/ "keys" \in account
             /\ sshdConf.root => sshd.root

\* Some port is open, now, after the next restart of sshd, and after the next load of
\* the rules.
PortKnown ==
  \/ hurt \cap {"moved", "untold"} # {}
  \/ ~Shut(sshd.ports, nft) /\ ~Shut(sshdConf.ports, nft) /\ ~Shut(sshdConf.ports, nftConf)

\* The rules are replaced only after sshd was restarted.
Restarted == init.step \in {"rules", "load"} => sshd = sshdConf

WayInv == AccessTypeOK /\ AccountKnown /\ KeysKnown /\ PortKnown /\ Restarted

\* WayIn for any ports, bans and number of commands, with init killed anywhere and the
\* machine booting at any time: the steps of hardening (src/hardening/steps.go) in the
\* order RunSteps has them.  The exceptions are WayIn's own.
THEOREM AlwaysWayIn == AccessSpec => []WayIn
<1>1. AccessInit /\ AccessTypeOK => WayInv
  <2> SUFFICES ASSUME AccessInit, AccessTypeOK PROVE WayInv
    OBVIOUS
  <2>1. AccountKnown /\ KeysKnown /\ Restarted
    BY DEF AccessInit, AccountKnown, KeysKnown, Restarted, Hardening, Rest
  <2>2. PortKnown
    <3>1. PICK P \in BornPorts : sshdConf = [ports |-> P, root |-> TRUE]
      BY DEF AccessInit
    <3>2. P # {} /\ P \subseteq AllPorts
      BY AccessConstants DEF AllPorts
    <3> QED
      BY <3>1, <3>2 DEF AccessInit, PortKnown, Shut
  <2> QED
    BY <2>1, <2>2 DEF WayInv
<1>2. WayInv /\ AccessTypeOK' /\ [AccessNext]_accessVars => WayInv'
  <2> SUFFICES ASSUME WayInv, AccessTypeOK', [AccessNext]_accessVars PROVE WayInv'
    OBVIOUS
  <2> USE DEF WayInv, AccessTypeOK, Goto, Step
  <2>1. CASE UNCHANGED accessVars
    BY <2>1 DEF accessVars, AccountKnown, KeysKnown, PortKnown, Restarted
  <2>2. ASSUME NEW u \in User, NEW p \in AllPorts, NEW asked \in AskedPorts \cup {0}, NEW spare \in BOOLEAN,
               GiveInit(u, p, asked, spare) \/ GivePlainInit(u, p)
        PROVE  WayInv'
    BY <2>2 DEF GiveInit, GivePlainInit, Begin, AccountKnown, KeysKnown, PortKnown, Restarted, Hardening
  <2>3. CASE CreateUser
    BY <2>3 DEF CreateUser, AccountKnown, KeysKnown, PortKnown, Restarted, Hardening
  <2>4. CASE WriteJail
    BY <2>4 DEF WriteJail, AccountKnown, KeysKnown, PortKnown, Restarted, Hardening
  <2>5. CASE DenyRoot
    BY <2>5 DEF DenyRoot, AccountKnown, KeysKnown, PortKnown, Restarted, Hardening
  <2>6. CASE CopyKeys
    BY <2>6 DEF CopyKeys, AccountKnown, KeysKnown, PortKnown, Restarted, Hardening
  <2>7. CASE AddPort
    BY <2>7 DEF AddPort, AccountKnown, KeysKnown, PortKnown, Restarted, Hardening
  <2>8. CASE RestartSshd
    BY <2>8 DEF RestartSshd, AccountKnown, KeysKnown, PortKnown, Restarted, Hardening
  <2>9. CASE WriteRules
    BY <2>9 DEF WriteRules, AccountKnown, KeysKnown, PortKnown, Restarted, Hardening
  <2>10. CASE LoadRules
    BY <2>10 DEF LoadRules, AccountKnown, KeysKnown, PortKnown, Restarted, Hardening
  <2>11. CASE Reconnect
    <3>0. init' = Rest \/ \E x : init' = [init EXCEPT !.step = "after", !.user = "sdkops", !.port = x]
      BY <2>11, ReconnectGoes
    <3>1. init'.step \notin Hardening
      <4>1. CASE init' = Rest
        BY <4>1 DEF Rest, Hardening
      <4>2. ASSUME NEW x, init' = [init EXCEPT !.step = "after", !.user = "sdkops", !.port = x]
            PROVE  init'.step = "after"
        BY <4>2
      <4> QED
        BY <3>0, <4>1, <4>2 DEF Hardening
    <3>2. UNCHANGED <<sshdConf, sshd, account, nftConf, nft, hurt>>
      BY <2>11 DEF Reconnect
    <3> QED
      BY <3>1, <3>2 DEF AccountKnown, KeysKnown, PortKnown, Restarted, Hardening
  <2>12. CASE PostInstall \/ KillInit
    BY <2>12 DEF PostInstall, KillInit, AccountKnown, KeysKnown, PortKnown, Restarted, Hardening, Rest
  <2>13. CASE AccessReboot
    BY <2>13 DEF AccessReboot, AccountKnown, KeysKnown, PortKnown, Restarted, Hardening, Rest
  <2>14. CASE (\E spare \in BOOLEAN : FleetJail(spare)) \/ (\E p \in AllPorts : Probe(p)) \/ Forgive
    BY <2>14 DEF FleetJail, Probe, Forgive, AccountKnown, KeysKnown, PortKnown, Restarted
  <2> QED
    BY <2>1, <2>2, <2>3, <2>4, <2>5, <2>6, <2>7, <2>8, <2>9, <2>10, <2>11, <2>12, <2>13, <2>14 DEF AccessNext
<1>3. WayInv => WayIn
  <2> SUFFICES ASSUME WayInv, failed # Tries,
                      ~(~sshd.root /\ hurt \cap {"account", "keys"} # {}),
                      ~(Shut(sshd.ports, nft) /\ hurt \cap {"moved", "untold"} # {})
               PROVE  \E u \in User, p \in AllPorts : Login(u, p)
    BY DEF WayIn
  <2>1. ~Shut(sshd.ports, nft)
    BY DEF WayInv, PortKnown
  <2>2. PICK p \in sshd.ports : p \in nft
    BY <2>1 DEF Shut
  <2>3. p \in AllPorts /\ ~Banned(p)
    BY DEF WayInv, AccessTypeOK, Banned
  <2>4. CASE sshd.root
    BY <2>2, <2>3, <2>4 DEF Login, User
  <2>5. CASE ~sshd.root
    <3>1. "account" \notin hurt /\ "keys" \notin hurt /\ ~sshdConf.root
      BY <2>5 DEF WayInv, KeysKnown
    <3>2. account = Parts4Login
      BY <3>1 DEF WayInv, AccountKnown, KeysKnown, AccessTypeOK, Parts4Login
    <3> QED
      BY <2>2, <2>3, <2>5, <3>2 DEF Login, User
  <2> QED
    BY <2>4, <2>5
<1> QED
  BY <1>1, <1>2, <1>3, AccessTypes, PTL DEF AccessSpec

-------------------------------------------------------------------------------
(* k3s on one machine                                                        *)

\* Any machine, whatever versions, data and snapshots it holds, any desk and any
\* options; where there is a unit there is a binary.
K3sMachine(V) ==
  [root : BOOLEAN, discard : BOOLEAN, roles : SUBSET Role, up : BOOLEAN, version : V, flags : SUBSET V,
   audits : Nat, data : V, snaps : SUBSET (V \X V), policy : SUBSET V, helm : V, offloads : SUBSET V]
BinaryBehindUnit(m) == m.roles # {} => m.version # Absent

\* get.k3s.io with a version to fetch: the units get a binary.
LEMMA ScriptedBinary ==
  ASSUME NEW V, NEW m \in K3sMachine(V), BinaryBehindUnit(m), NEW role \in Role, NEW flags,
         NEW version, version # Absent, NEW skip \in BOOLEAN, NEW luck \in Luck
  PROVE  BinaryBehindUnit(Scripted(m, role, flags, version, skip, luck).m)
<1>. DEFINE n == [m EXCEPT !.roles = @ \cup {role}, !.up = luck.answers, !.version = IF skip THEN @ ELSE version,
                        !.flags = IF role = "server" THEN flags ELSE @,
                        !.audits = IF role = "server" THEN 0 ELSE @]
            r == Scripted(m, role, flags, version, skip, luck)
<1>1. n.version = IF skip THEN m.version ELSE version
  BY DEF K3sMachine
<1>. HIDE DEF n
<1>2. CASE luck.fetched = "none"
  BY <1>2 DEF Scripted
<1>3. CASE luck.fetched # "none" /\ (IF skip THEN m.version = Absent ELSE luck.fetched = "script")
  BY <1>3 DEF Scripted
<1>4. CASE luck.fetched # "none" /\ ~ (IF skip THEN m.version = Absent ELSE luck.fetched = "script")
  <2>1. r = [ok |-> TRUE, m |-> n]
    BY <1>4 DEF Scripted, n
  <2>. QED
    BY <1>1, <1>4, <2>1 DEF BinaryBehindUnit
<1>. QED
  BY <1>2, <1>3, <1>4

\* What a command may change of a server: nothing of its unit, its binary and its data,
\* or, an upgrade, the flags and the version.
ServerKept(m, op, n) ==
  \/ n.flags = m.flags /\ n.version = m.version
  \/ op = "upgrade" /\ n.flags = {} /\ n.version = "stable"

ClusterKept(m, op, n) ==
  /\ BinaryBehindUnit(n)
  /\ "server" \in m.roles => ServerKept(m, op, n)
  /\ n.roles # m.roles => n.roles = m.roles \cup {"server"} /\ (op = "upgrade" \/ op \in ThroughK3sExec)
  /\ op # "restore" => n.data = m.data

\* A command that leaves the unit, the binary and the data alone.
LEMMA UnitAlone ==
  ASSUME NEW m, NEW n, NEW op, BinaryBehindUnit(m),
         n.roles = m.roles, n.version = m.version, n.flags = m.flags, op # "restore" => n.data = m.data
  PROVE  ClusterKept(m, op, n)
BY DEF ClusterKept, ServerKept, BinaryBehindUnit

\* A server's unit with these flags and this version, or nothing.
ServerPut(m, n, flags, version) ==
  \/ n = m
  \/ /\ n.roles = m.roles \cup {"server"} /\ n.version = version /\ n.flags = flags
     /\ n.data = m.data /\ DOMAIN n = DOMAIN m

LEMMA ScriptedServer ==
  ASSUME NEW V, NEW m \in K3sMachine(V), NEW flags, NEW version, NEW luck \in Luck
  PROVE  ServerPut(m, Scripted(m, "server", flags, version, FALSE, luck).m, flags, version)
<1>. DEFINE n == [m EXCEPT !.roles = @ \cup {"server"}, !.up = luck.answers, !.version = version,
                           !.flags = flags, !.audits = 0]
            r == Scripted(m, "server", flags, version, FALSE, luck)
<1>1. /\ n.roles = m.roles \cup {"server"} /\ n.version = version /\ n.flags = flags
      /\ n.data = m.data /\ DOMAIN n = DOMAIN m
  BY DEF K3sMachine
<1>2. \/ r.m = m
      \/ r.m = [m EXCEPT !.roles = @ \cup {"server"}, !.up = luck.answers,
                         !.version = IF FALSE THEN @ ELSE version,
                         !.flags = IF "server" = "server" THEN flags ELSE @,
                         !.audits = IF "server" = "server" THEN 0 ELSE @]
  BY DEF Scripted
<1>3. r.m = m \/ r.m = n
  BY <1>2
<1>. HIDE DEF n
<1>. QED
  BY <1>1, <1>3 DEF ServerPut

LEMMA ExecKeeps ==
  ASSUME NEW V, NEW m \in K3sMachine(V), BinaryBehindUnit(m), NEW desk, NEW ip, NEW luck \in Luck,
         NEW op \in ThroughK3sExec, Absent # "stable"
  PROVE  ClusterKept(m, op, K3sExec(m, desk, ip, luck).m)
<1>1. op # "restore" /\ op # "upgrade"
  BY DEF ThroughK3sExec
<1>2. CASE m.version # Absent
  BY <1>2, UnitAlone DEF K3sExec
<1>3. CASE m.version = Absent
  <2>. DEFINE c == DefaultInstall(ip)
              o == DiscardOff(m)
              s == Scripted(o, "server", ServerFlags(c), "stable", FALSE, luck).m
              i == InstallK3s(m, desk, c, luck, TRUE)
  <2>1. m.roles = {}
    BY <1>3 DEF BinaryBehindUnit
  <2>2. /\ o \in K3sMachine(V) /\ o.roles = m.roles /\ o.version = m.version
        /\ o.flags = m.flags /\ o.data = m.data
    BY DEF DiscardOff, K3sMachine
  <2>3. WantedVersion(c) = "stable" /\ c.skip = FALSE /\ c.cis = {}
    BY DEF WantedVersion, DefaultInstall
  <2>4. /\ DOMAIN s = DOMAIN o /\ s.data = m.data
        /\ \/ s.roles = m.roles /\ s.version = m.version
           \/ s.roles = m.roles \cup {"server"} /\ s.version = "stable"
    <3>1. ServerPut(o, s, ServerFlags(c), "stable")
      BY <2>2, ScriptedServer
    <3>. HIDE DEF o, s
    <3>. QED
      BY <2>2, <3>1 DEF ServerPut
  <2>5. i.m = s \/ i.m = PostInstallCis(s, c, TRUE)
    BY <2>3 DEF InstallK3s
  <2>6. /\ PostInstallCis(s, c, TRUE).roles = s.roles /\ PostInstallCis(s, c, TRUE).version = s.version
        /\ PostInstallCis(s, c, TRUE).data = s.data
    <3>1. {"roles", "version", "data", "policy"} \subseteq DOMAIN s
      BY <2>2, <2>4 DEF K3sMachine
    <3>. HIDE DEF s, c
    <3>. QED
      BY <2>3, <3>1 DEF PostInstallCis
  <2>7. K3sExec(m, desk, ip, luck).m = i.m
    <3>1. K3sExec(m, desk, ip, luck) = [i EXCEPT !.ok = i.ok /\ Kubectl(i.m)]
      BY <1>3 DEF K3sExec
    <3>2. i = [ok |-> i.ok, m |-> i.m, desk |-> i.desk]
      BY DEF InstallK3s
    <3>. HIDE DEF i
    <3>. QED
      BY <3>1, <3>2
  <2>. HIDE DEF i, s, o, c
  <2>8. /\ K3sExec(m, desk, ip, luck).m.data = m.data
        /\ LET n == K3sExec(m, desk, ip, luck).m
           IN \/ n.roles = m.roles /\ n.version = m.version
              \/ n.roles = m.roles \cup {"server"} /\ n.version = "stable"
    BY <2>4, <2>5, <2>6, <2>7
  <2>. QED
    BY <2>1, <2>8, <1>3 DEF ClusterKept, BinaryBehindUnit
<1>. QED
  BY <1>2, <1>3

\* A command of the cluster on any machine: the units there keep a binary, the flags and
\* the version of a server survive all but the upgrade, which drops them and follows the
\* stable channel, only a restore touches the data, and a server appears where there was
\* none only by an upgrade or by a kubectl command that is not attached to the terminal.
THEOREM CommandsKeepServer ==
  ASSUME NEW V, NEW m \in K3sMachine(V), BinaryBehindUnit(m), NEW desk, NEW ip, NEW luck \in Luck,
         NEW op \in ClusterOp, Absent # "stable"
  PROVE  ClusterKept(m, op, Cluster(m, desk, ip, op, luck).m)
<1>. DEFINE n == Cluster(m, desk, ip, op, luck).m
<1>1. CASE op \in ThroughK3sExec
  <2>1. n = K3sExec(m, desk, ip, luck).m
    BY <1>1 DEF Cluster
  <2>. QED
    BY <1>1, <2>1, ExecKeeps
<1>2. CASE op = "upgrade"
  <2>. DEFINE u == Scripted(m, "server", {}, "stable", FALSE, luck).m
  <2>1. n = u
    BY <1>2 DEF Cluster, UpgradeK3s, ThroughK3sExec
  <2>2. ServerPut(m, u, {}, "stable")
    BY ScriptedServer
  <2>. HIDE DEF n, u
  <2>3. ClusterKept(m, op, n)
    BY <1>2, <2>1, <2>2 DEF ClusterKept, ServerKept, ServerPut, BinaryBehindUnit
  <2>. QED
    BY <2>3 DEF n
<1>3. CASE op \notin ThroughK3sExec /\ op # "upgrade"
  <2>1. /\ n.roles = m.roles /\ n.version = m.version /\ n.flags = m.flags
        /\ op # "restore" => n.data = m.data
    <3>1. CASE op \in {"restart", "rotate"}
      <4>1. n = m \/ n = [m EXCEPT !.up = luck.answers]
        BY <1>3, <3>1 DEF Cluster, RestartK3s, CertRotate
      <4>. QED
        BY <4>1 DEF K3sMachine
    <3>2. CASE op = "snapshot"
      <4>1. n = m \/ n = [m EXCEPT !.snaps = @ \cup {<<"s", m.data>>}]
        BY <1>3, <3>2 DEF Cluster, EtcdSnapshot
      <4>. QED
        BY <4>1 DEF K3sMachine
    <3>3. CASE op = "restore"
      <4>1. \/ n = m
            \/ n = [m EXCEPT !.data = IF <<"s", "new">> \in m.snaps THEN <<"s", "new">>[2] ELSE @,
                             !.up = luck.answers]
        BY <1>3, <3>3 DEF Cluster, EtcdRestore
      <4>. HIDE DEF n
      <4>. QED
        BY <3>3, <4>1 DEF K3sMachine
    <3>4. CASE op = "helm"
      <4>1. n = m \/ n = [m EXCEPT !.helm = "newest"]
        BY <1>3, <3>4 DEF Cluster, ClusterHelm
      <4>. QED
        BY <4>1 DEF K3sMachine
    <3>5. CASE op \in {"token", "node-ssh"}
      BY <1>3, <3>5 DEF Cluster, ClusterToken, NodeSSH
    <3>6. CASE op \in Attached
      BY <1>3, <3>6 DEF Cluster, Attached
    <3>. QED
      BY <1>3, <3>1, <3>2, <3>3, <3>4, <3>5, <3>6 DEF ClusterOp
  <2>. QED
    BY <2>1, UnitAlone
<1>. QED
  BY <1>1, <1>2, <1>3

\* The hypothesis of CommandsKeepServer: a bare machine has no unit, and setting up a
\* server or an agent of some version or channel, an air-gapped binary and the two
\* removals leave no unit without a binary, whatever fails on the way.
THEOREM SetUpsHaveBinary ==
  ASSUME NEW V, NEW m \in K3sMachine(V), BinaryBehindUnit(m), Absent # "latest",
         NEW desk, NEW cfg, WantedVersion(cfg) # Absent, cfg.skip \in BOOLEAN, NEW luck \in Luck,
         NEW again, NEW token, NEW channel, channel # Absent, NEW version
  PROVE  /\ \A root, discard : BinaryBehindUnit(BareMachine(root, discard))
         /\ BinaryBehindUnit(InstallK3s(m, desk, cfg, luck, again).m)
         /\ BinaryBehindUnit(JoinK3s(m, token, channel, version, luck).m)
         /\ BinaryBehindUnit(Airgap(m, luck).m)
         /\ BinaryBehindUnit(UninstallK3s(m)) /\ BinaryBehindUnit(RemoveK3s(m))
<1>1. \A root, discard : BinaryBehindUnit(BareMachine(root, discard))
  BY DEF BinaryBehindUnit, BareMachine
<1>2. BinaryBehindUnit(InstallK3s(m, desk, cfg, luck, again).m)
  <2>. DEFINE o == DiscardOff(m)
              s == Scripted(o, "server", ServerFlags(cfg), WantedVersion(cfg), cfg.skip, luck).m
              i == InstallK3s(m, desk, cfg, luck, again)
  <2>1. o \in K3sMachine(V) /\ o.roles = m.roles /\ o.version = m.version
    BY DEF DiscardOff, K3sMachine
  <2>2. BinaryBehindUnit(s)
    <3>1. BinaryBehindUnit(o) /\ "server" \in Role
      BY <2>1 DEF BinaryBehindUnit, Role
    <3>. HIDE DEF o
    <3>. QED
      BY <2>1, <3>1, ScriptedBinary
  <2>3. i.m = s \/ i.m = PostInstallCis(s, cfg, again)
    BY DEF InstallK3s
  <2>4. {"roles", "version", "up", "audits", "policy"} \subseteq DOMAIN s
    <3>1. DOMAIN s = DOMAIN o
      BY DEF Scripted
    <3>. QED
      BY <2>1, <3>1 DEF K3sMachine
  <2>. HIDE DEF s
  <2>5. LET a == AuditLog(s, again)
        IN {"roles", "version", "policy"} \subseteq DOMAIN a /\ a.roles = s.roles /\ a.version = s.version
    BY <2>4 DEF AuditLog
  <2>6. PostInstallCis(s, cfg, again).roles = s.roles /\ PostInstallCis(s, cfg, again).version = s.version
    BY <2>4, <2>5 DEF PostInstallCis
  <2>. QED
    BY <2>2, <2>3, <2>6 DEF BinaryBehindUnit
<1>3. BinaryBehindUnit(JoinK3s(m, token, channel, version, luck).m)
  <2>. DEFINE v == IF version # Absent THEN version ELSE channel
  <2>1. v # Absent /\ "agent" \in Role
    BY DEF Role
  <2>. HIDE DEF v
  <2>2. BinaryBehindUnit(Scripted(m, "agent", {}, v, FALSE, luck).m)
    BY <2>1, ScriptedBinary
  <2>3. CASE token
    BY <2>2, <2>3 DEF JoinK3s, v
  <2>4. CASE ~token
    BY <2>4 DEF JoinK3s
  <2>. QED
    BY <2>3, <2>4
<1>4. BinaryBehindUnit(Airgap(m, luck).m)
  <2>1. [m EXCEPT !.version = "latest"].version = "latest"
    BY DEF K3sMachine
  <2>. QED
    BY <2>1 DEF Airgap, BinaryBehindUnit
<1>5. BinaryBehindUnit(UninstallK3s(m))
  <2>1. LET b == BareMachine(m.root, m.discard)
        IN [b EXCEPT !.helm = m.helm, !.offloads = m.offloads].roles = {}
    BY DEF BareMachine
  <2>. QED
    BY <2>1 DEF UninstallK3s, BinaryBehindUnit
<1>6. BinaryBehindUnit(RemoveK3s(m))
  <2>1. RemoveK3s(m).roles = m.roles /\ RemoveK3s(m).version = m.version
    BY DEF RemoveK3s, K3sMachine
  <2>. QED
    BY <2>1 DEF BinaryBehindUnit
<1>. QED
  BY <1>1, <1>2, <1>3, <1>4, <1>5, <1>6

-------------------------------------------------------------------------------
(* Reverse proxies                                                           *)

\* Any node, whatever its proxies' sites hold.
ProxyNode(V) ==
  [root : BOOLEAN, v4 : BOOLEAN, net : BOOLEAN, programs : SUBSET Backend, box : {"absent", "created", "running"},
   ports : Backend \cup {NoSite}, sites : [Backend -> V]]

\* What `infra proxy set` owes the node: whoever listens on the web ports keeps them, a
\* command that fails was Traefik's and found them taken or no image, and where they were
\* free or the proxy's own, the scripts may write, and the program is there or to be had,
\* the proxy serves the domain at 8080.
PortsKept(s, b, d, r) ==
  /\ s.ports # NoSite => r.node.ports = s.ports
  /\ ~r.ok => /\ b = "traefik" /\ s.box = "absent"
              /\ ~s.net \/ (s.ports \notin {NoSite, "traefik"} /\ s.v4)
  /\ (/\ s.root /\ s.ports \in {NoSite, b}
      /\ b # "traefik" => Obtains(s, b)
      /\ b = "traefik" => (s.box = "absent" /\ s.net) \/ (s.box # "absent" /\ s.ports = b))
       => r.ok /\ r.node.ports = b /\ r.node.sites[b] = Site(d, 8080)

LEMMA ServingPorts ==
  ASSUME NEW t, NEW b, {"ports", "sites"} \subseteq DOMAIN t
  PROVE  /\ Serving(t, b).ports = IF t.ports \in {NoSite, b} THEN b ELSE t.ports
         /\ Serving(t, b).sites = t.sites
<1>1. CASE t.ports \in {NoSite, b}
  <2>1. Serving(t, b) = [t EXCEPT !.ports = b]
    BY <1>1 DEF Serving, Listens
  <2>. QED
    BY <1>1, <2>1
<1>2. CASE t.ports \notin {NoSite, b}
  BY <1>2 DEF Serving, Listens
<1>. QED
  BY <1>1, <1>2

\* Caddy's and nginx's: what they write, and then they are restarted.
LEMMA ProgramServes ==
  ASSUME NEW V, NEW s \in ProxyNode(V), NEW b \in {"caddy", "nginx"}, NEW d,
         NoSite \notin Backend, s.root, Obtains(s, b)
  PROVE  PortsKept(s, b, d, [ok |-> TRUE, node |-> Served(s, b, d, 8080)])
<1>. DEFINE t == [s EXCEPT !.programs = @ \cup {b}, !.sites[b] = Site(d, 8080)]
<1>1. {"ports", "sites"} \subseteq DOMAIN t /\ t.ports = s.ports /\ t.sites[b] = Site(d, 8080)
  BY DEF ProxyNode, Backend
<1>2. Served(s, b, d, 8080) = Serving(t, b)
  BY DEF Served
<1>. HIDE DEF t
<1>3. /\ Served(s, b, d, 8080).ports = IF s.ports \in {NoSite, b} THEN b ELSE s.ports
      /\ Served(s, b, d, 8080).sites[b] = Site(d, 8080)
  BY <1>1, <1>2, ServingPorts
<1>. QED
  BY <1>3 DEF PortsKept, Obtains

\* A program that is not there, and a script that may not write, leave the ports alone.
LEMMA ProgramMissing ==
  ASSUME NEW s, NEW b \in {"caddy", "nginx"}, NEW d, NEW t, t.ports = s.ports,
         ~s.root \/ ~Obtains(s, b)
  PROVE  PortsKept(s, b, d, [ok |-> TRUE, node |-> t])
BY DEF PortsKept, Obtains

THEOREM ProxySetKeepsPorts ==
  ASSUME NEW V, NEW s \in ProxyNode(V), NEW b \in Backend, NEW d, d # NoSite, NoSite \notin Backend
  PROVE  PortsKept(s, b, d, ProxySet(s, b, d))
<1>. DEFINE r == ProxySet(s, b, d)
<1>1. CASE b = "caddy"
  <2>. DEFINE t == [s EXCEPT !.sites["caddy"] = Site(d, 8080)]
              n == IF ~s.root THEN s ELSE IF Obtains(s, b) THEN Served(s, b, d, 8080) ELSE t
  <2>1. r = [ok |-> TRUE, node |-> n]
    BY <1>1 DEF ProxySet, Install, InstallCaddy
  <2>2. t.ports = s.ports
    BY DEF ProxyNode
  <2>. HIDE DEF t, r
  <2>3. ASSUME s.root, Obtains(s, b) PROVE PortsKept(s, b, d, [ok |-> TRUE, node |-> n])
    BY <1>1, <2>3, ProgramServes
  <2>4. ASSUME ~s.root \/ ~Obtains(s, b) PROVE PortsKept(s, b, d, [ok |-> TRUE, node |-> n])
    <3>1. n.ports = s.ports
      BY <2>2, <2>4
    <3>. QED
      BY <1>1, <2>4, <3>1, ProgramMissing
  <2>. QED
    BY <2>1, <2>3, <2>4 DEF r
<1>2. CASE b = "nginx"
  <2>. DEFINE n == IF s.root /\ Obtains(s, b) THEN Served(s, b, d, 8080) ELSE s
  <2>1. r = [ok |-> TRUE, node |-> n]
    BY <1>2 DEF ProxySet, Install, InstallNginx
  <2>. HIDE DEF r
  <2>3. ASSUME s.root, Obtains(s, b) PROVE PortsKept(s, b, d, [ok |-> TRUE, node |-> n])
    BY <1>2, <2>3, ProgramServes
  <2>4. ASSUME ~s.root \/ ~Obtains(s, b) PROVE PortsKept(s, b, d, [ok |-> TRUE, node |-> n])
    <3>1. n.ports = s.ports
      BY <2>4
    <3>. QED
      BY <1>2, <2>4, <3>1, ProgramMissing
  <2>. QED
    BY <2>1, <2>3, <2>4 DEF r
<1>3. CASE b = "traefik"
  <2>1. r = InstallTraefikProxy(s, d, 8080)
    BY <1>3 DEF ProxySet, Install
  <2>2. CASE s.box # "absent" \/ (s.net /\ (Listens(s, "traefik") \/ ~s.v4))
    <3>. DEFINE f == s.box = "absent" /\ Listens(s, "traefik")
                n == [s EXCEPT !.sites["traefik"] = Site(d, 8080),
                               !.box = IF @ = "absent" THEN "running" ELSE @,
                               !.ports = IF f THEN "traefik" ELSE @]
    <3>1. r = [ok |-> TRUE, node |-> n]
      BY <2>1, <2>2 DEF InstallTraefikProxy
    <3>2. n.ports = (IF f THEN "traefik" ELSE s.ports) /\ n.sites["traefik"] = Site(d, 8080)
      BY DEF ProxyNode, Backend
    <3>. HIDE DEF n, r
    <3>. QED
      BY <1>3, <2>2, <3>1, <3>2 DEF PortsKept, Listens, Obtains, r
  <2>3. CASE ~(s.box # "absent" \/ (s.net /\ (Listens(s, "traefik") \/ ~s.v4)))
    <3>. DEFINE t == IF s.net THEN [s EXCEPT !.box = "created"] ELSE s
    <3>1. r = [ok |-> FALSE, node |-> t]
      BY <2>1, <2>3 DEF InstallTraefikProxy
    <3>2. t.ports = s.ports
      BY DEF ProxyNode
    <3>. HIDE DEF r, t
    <3>. QED
      BY <1>3, <2>3, <3>1, <3>2 DEF PortsKept, Listens, Obtains, r, ProxyNode
  <2>. QED
    BY <2>2, <2>3
<1>. QED
  BY <1>1, <1>2, <1>3 DEF Backend
===============================================================================
