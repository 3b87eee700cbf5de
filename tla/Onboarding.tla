----------------------------- MODULE Onboarding -----------------------------
(***************************************************************************)
(* Setting up the daemon: the wizard (cli/src/tui/onboarding) with its     *)
(* pages, the non-interactive command (cli/src/commands/onboard.ts), the   *)
(* writers and loaders of the configuration and the store of secrets       *)
(* (shared/config/src), and the guidance templates (daemon/src/onboard.ts). *)
(*                                                                         *)
(* A configuration file is what parsing it yields; a written file is empty *)
(* before it has its text, and an empty file of secrets does not parse.    *)
(* One guidance file stands for all three.  What a user types into a form  *)
(* is chosen when the form is left.                                        *)
(***************************************************************************)
EXTENDS Naturals, Sequences, FiniteSets, SequencesExt

CONSTANTS
    Missing,    \* nothing there
    Builtin,    \* ids of BUILTIN_PROVIDERS
    Slugs,      \* names for custom providers
    Offered,    \* models of the builtin providers
    Models,     \* model ids
    Names,      \* channel names
    Pulses,     \* whether a user wants pulses
    Modes,      \* what the user wants done with guidance files
    Scenarios   \* the configurations a user may come with, each with bounds: edits,
                \* submissions, input/output faults, crashes

ASSUME OnboardingAssumption ==
    /\ Builtin \cap Slugs = {} /\ Offered \subseteq Models
    /\ Missing \notin {"user", "template"}
    /\ Pulses \subseteq BOOLEAN /\ Modes \subseteq {"backup", "skip", "overwrite"}

\* What parsing a file yields: its entries; nothing where it is missing or does not parse.
Whole(entries) == [file |-> "whole", entries |-> entries]
NoFile == [file |-> "missing", entries |-> <<>>]
TornFile == [file |-> "torn", entries |-> <<>>]
IsFile(f) == f \in {NoFile, TornFile, Whole(f.entries)}

FILES == {"providers", "models", "channels", "preferences"}
\* A keychain is there at once; the user's own text is in place.
ASSUME ScenariosAssumption ==
    \A s \in Scenarios :
       /\ s.left \in [edits : Nat, submits : Nat, faults : Nat, crashes : Nat]
       /\ s.disk \in [FILES -> {s.disk[f] : f \in FILES}]
       /\ \A f \in FILES : IsFile(s.disk[f])
       /\ \A f \in {"providers", "channels"} : IsFiniteSet(DOMAIN s.disk[f].entries)
       /\ s.disk.preferences.entries # <<>> => "pulse" \in DOMAIN s.disk.preferences.entries
       /\ IsFile(s.secrets)
       /\ s.native \in BOOLEAN /\ (s.native => s.secrets.file = "whole")
       /\ s.guide \in [file : {"user"}, bak : {Missing, "user", "template"}]

VARIABLES
    disk,     \* providers, models, channels, preferences: the files of the configuration
    secrets,  \* secrets.json, or the entries of the keychain, and whether the file is whole
    native,   \* the platform has a keychain
    guide,    \* a guidance file and its backup
    existing, \* existingConfig: what the wizard found when it started
    wiz,      \* the wizard's state
    form,     \* the working state of a page
    subs,     \* the setups under way or just ended
    left,     \* bounds left
    alone,    \* history: no setup has run beside another
    halfway,  \* history: the process has died, a setup has failed between its providers and
              \* their models, a failed write has left a file empty, or there was a model
              \* without its provider at the start
    loose,    \* history: providers whose credential was never in the store
    backups   \* history: backups made, and overwrites

store == <<disk, secrets, native, guide>>
history == <<alone, halfway, loose, backups>>
onboardVars == <<store, existing, wiz, form, subs, left, history>>

Slot == {1, 2}
Empty == <<>>
SecretOf(id) == <<id, "api-key">>
Credential(n) == <<n, "credential">>

PAGES == <<"disclaimer", "provider", "channels", "preferences", "pulse", "templates">>
NoForm == [step |-> "list"]
Off == [page |-> 0]
DEFAULT_STATE ==
    [exact |-> TRUE, page |-> 1, accepted |-> FALSE, providers |-> <<>>, removed |-> {}, channels |-> <<>>,
     gone |-> {}, pulse |-> TRUE, mode |-> "backup"]
NoConfig == [providers |-> {}, models |-> Empty, channels |-> {}, preferences |-> FALSE]
\* Object.assign, and an entry set.
Assigned(f, g) == [x \in DOMAIN f \cup DOMAIN g |-> IF x \in DOMAIN g THEN g[x] ELSE f[x]]
With(f, n, v) == [x \in DOMAIN f \cup {n} |-> IF x = n THEN v ELSE f[x]]
Idle == [at |-> "idle"]
Active(i) == subs[i].at \notin {"idle", "done", "failed"}
Spend(b) == left[b] > 0 /\ left' = [left EXCEPT ![b] = @ - 1]

(***************************************************************************)
(* Files.                                                                  *)
(***************************************************************************)
\* readTomlTableMapOptional: a file that is not there reads as an empty one.
Parsed(f) == disk[f].entries
Loads == \A f \in DOMAIN disk : disk[f].file # "torn"

\* What a file holds after a write at its start: two writers that have both emptied it
\* leave the longer text's end behind the shorter one.
Over(old, new, blank) == IF old \in {blank, new} THEN {new} ELSE {new, TornFile}

\* get() of a secret store.
Stored(name) == name \in DOMAIN secrets.entries

(***************************************************************************)
(* The wizard starts: loadExistingConfig.                                  *)
(***************************************************************************)
Info(p) == [id |-> p, secret |-> Parsed("providers")[p], stored |-> Stored(Parsed("providers")[p])]

Existing ==
    [providers |-> {Info(p) : p \in DOMAIN Parsed("providers")},
     models |-> Parsed("models"),
     channels |-> {[id |-> n, stored |-> Stored(Parsed("channels")[n])] :
                       n \in DOMAIN Parsed("channels")},
     preferences |-> disk.preferences.file # "missing"]

ModelsOf(e, p) == {m \in DOMAIN e.models : e.models[m] = p}

\* existingToInstanceStates of the provider page, and of the channel page.
ProviderInstance(e, info) ==
    [id |-> info.id, custom |-> info.id \notin Builtin, was |-> info.id, key |-> "",
     keep |-> info.stored, models |-> ModelsOf(e, info.id)]
ProviderInstances(e) ==
    [i \in 1..Cardinality(e.providers) |-> ProviderInstance(e, SetToSeq(e.providers)[i])]
ChannelInstances(e) ==
    [i \in 1..Cardinality(e.channels) |->
        LET c == SetToSeq(e.channels)[i] IN [id |-> c.id, key |-> "", keep |-> c.stored]]

\* A page that is shown takes its list from existingConfig each time: what was entered
\* on it before is gone, the marks for removal are not.
Mounted(e, w) ==
    [w EXCEPT
        !.providers = IF PAGES[w.page] = "provider" /\ e.providers # {}
                      THEN ProviderInstances(e) ELSE @,
        !.channels = IF PAGES[w.page] = "channels" /\ e.channels # {}
                     THEN ChannelInstances(e) ELSE @]

getStartingPage(e) == IF e.preferences THEN 2 ELSE 1

\* A file that does not parse keeps the wizard from starting.
Start ==
    /\ wiz = Off /\ Loads /\ left.submits > 0
    /\ \A i \in Slot : Active(i) => ~subs[i].state.exact
    /\ existing' = Existing
    /\ LET page == getStartingPage(Existing) IN
       wiz' = Mounted(Existing, [DEFAULT_STATE EXCEPT !.page = page, !.accepted = page > 1])
    /\ form' = NoForm
    /\ UNCHANGED <<store, subs, left, history>>

(***************************************************************************)
(* The provider page.                                                      *)
(***************************************************************************)
On(page) == wiz # Off /\ PAGES[wiz.page] = page
Kept(w) == {i \in DOMAIN w.providers : w.providers[i].id \notin w.removed}
KeptChannels(w) == {i \in DOMAIN w.channels : w.channels[i].id \notin w.gone}
Found(id) == {x \in existing.providers : x.id = id}
HasStored(id) == \E x \in Found(id) : x.stored

FormStep(p) == IF p.custom THEN "common" ELSE "auth"
Form(at, p, stored) == [step |-> FormStep(p), at |-> at, work |-> p, stored |-> stored]

\* 'd' on a provider of the list.
MarkProvider(i) ==
    /\ On("provider") /\ form = NoForm /\ Spend("edits")
    /\ i \in DOMAIN wiz.providers
    /\ LET id == wiz.providers[i].id IN
       wiz' = [wiz EXCEPT !.removed = IF id \in @ THEN @ \ {id} ELSE @ \cup {id}]
    /\ UNCHANGED <<store, existing, form, subs, history>>

\* handleListSelect: an entry is opened for editing.
EditProvider(i) ==
    /\ On("provider") /\ form = NoForm /\ Spend("edits")
    /\ i \in DOMAIN wiz.providers
    /\ form' = Form(i, wiz.providers[i], HasStored(wiz.providers[i].id))
    /\ UNCHANGED <<store, existing, wiz, subs, history>>

\* The nodes of ProviderSelector: a builtin provider, a new custom one, or a custom one
\* that is configured.
Nodes == Builtin \cup {"custom"} \cup {x.id : x \in existing.providers}

\* handleProviderSelect: one that is in the list already is edited.
SelectProvider(c) ==
    /\ On("provider") /\ form = NoForm /\ Spend("edits")
    /\ c \in Nodes
    /\ LET same == {i \in DOMAIN wiz.providers : wiz.providers[i].id = c}
           new == [id |-> c, custom |-> c \notin Builtin,
                   was |-> IF Found(c) = {} THEN Missing ELSE c, key |-> "",
                   keep |-> HasStored(c), models |-> {}]
       IN form' = IF same = {} THEN Form(0, new, HasStored(c))
                  ELSE LET i == CHOOSE i \in same : TRUE
                       IN Form(i, wiz.providers[i], HasStored(c))
    /\ UNCHANGED <<store, existing, wiz, subs, history>>

\* validateSlug.
ValidSlug(slug) ==
    /\ slug \in Slugs
    /\ \A i \in DOMAIN wiz.providers : wiz.providers[i].id = slug => i = form.at

\* handleCommonFieldsSubmit.
SubmitCommonFields(slug) ==
    /\ form.step = "common" /\ ValidSlug(slug)
    /\ form' = [form EXCEPT !.step = "auth", !.work.id = slug]
    /\ UNCHANGED <<store, existing, wiz, subs, left, history>>

\* Space, and Escape, on the field of a stored key.
ToggleKeepExistingApiKey ==
    /\ form.step = "auth" /\ form.stored
    /\ form' = [form EXCEPT !.work.keep = ~@]
    /\ UNCHANGED <<store, existing, wiz, subs, left, history>>

\* isProviderValid.
Valid(p) == p.keep \/ p.key # ""

\* handleAuthSubmit: while the field asks for a new key, Enter does nothing.
SubmitAuth(key) ==
    /\ form.step = "auth" /\ (form.stored => form.work.keep)
    /\ LET p == [form.work EXCEPT !.key = key] IN
       /\ Valid(p)
       /\ form' = [form EXCEPT !.step = "models", !.work = p]
    /\ UNCHANGED <<store, existing, wiz, subs, left, history>>

\* handleModelChange: what is configured and not offered falls out of the selection.
Toggled(p, m) ==
    LET known == ModelsOf(existing, IF p.was = Missing THEN p.id ELSE p.was)
        selected == IF m \in p.models THEN (p.models \cap Offered) \ {m}
                    ELSE (p.models \cap Offered) \cup {m}
        custom == (p.models \ Offered) \ known
    IN selected \cup custom \cup (known \cap (selected \cup custom))

ToggleModel(m) ==
    /\ form.step = "models" /\ ~form.work.custom /\ m \in Offered
    /\ form' = [form EXCEPT !.work.models = Toggled(form.work, m)]
    /\ UNCHANGED <<store, existing, wiz, subs, left, history>>

\* handleAddCustomModel.
AddModel(m) ==
    /\ form.step = "models" /\ m \notin form.work.models
    /\ form' = [form EXCEPT !.work.models = @ \cup {m}]
    /\ UNCHANGED <<store, existing, wiz, subs, left, history>>

\* handleModelsSubmit.
SubmitModels ==
    /\ form.step = "models" /\ form.work.models # {}
    /\ wiz' = [wiz EXCEPT !.providers = IF form.at = 0 THEN Append(@, form.work)
                                        ELSE [@ EXCEPT ![form.at] = form.work]]
    /\ form' = NoForm
    /\ UNCHANGED <<store, existing, subs, left, history>>

\* Escape of each step.
BackInForm ==
    /\ form # NoForm
    /\ form' = CASE form.step = "models" -> [form EXCEPT !.step = "auth"]
                 [] form.step = "auth" /\ form.work.custom -> [form EXCEPT !.step = "common"]
                 [] OTHER -> NoForm
    /\ form.step = "auth" => (form.stored => form.work.keep)
    /\ UNCHANGED <<store, existing, wiz, subs, left, history>>

(***************************************************************************)
(* The channel page.                                                       *)
(***************************************************************************)
MarkChannel(i) ==
    /\ On("channels") /\ form = NoForm /\ Spend("edits")
    /\ i \in DOMAIN wiz.channels
    /\ LET n == wiz.channels[i].id IN
       wiz' = [wiz EXCEPT !.gone = IF n \in @ THEN @ \ {n} ELSE @ \cup {n}]
    /\ UNCHANGED <<store, existing, form, subs, history>>

\* handleFormSubmit: the name of a new channel is not compared with the others' here, the
\* form only shows an error; a credential may be left out.
SubmitChannel(i, name, key, keep) ==
    /\ On("channels") /\ form = NoForm /\ Spend("edits")
    /\ i \in DOMAIN wiz.channels \cup {0}
    /\ i # 0 => name = wiz.channels[i].id
    /\ keep => i # 0 /\ wiz.channels[i].keep
    /\ LET c == [id |-> name, key |-> IF keep THEN "" ELSE key, keep |-> keep] IN
       wiz' = [wiz EXCEPT !.channels = IF i = 0 THEN Append(@, c) ELSE [@ EXCEPT ![i] = c]]
    /\ UNCHANGED <<store, existing, form, subs, history>>

(***************************************************************************)
(* Moving between pages.                                                   *)
(***************************************************************************)
\* What the page on show has reported through onValidityChange.
canProceed(w) ==
    CASE PAGES[w.page] = "disclaimer" -> w.accepted
      [] PAGES[w.page] = "provider" -> Kept(w) # {}
      [] PAGES[w.page] = "channels" -> KeptChannels(w) # {}
      [] OTHER -> TRUE

\* Space on the disclaimer.
ToggleDisclaimer ==
    /\ On("disclaimer") /\ Spend("edits")
    /\ wiz' = [wiz EXCEPT !.accepted = ~@]
    /\ UNCHANGED <<store, existing, form, subs, history>>

\* handleNext on all pages but the last.
NextPage ==
    /\ wiz # Off /\ form = NoForm /\ wiz.page < Len(PAGES) /\ canProceed(wiz)
    /\ \E pulse \in IF On("pulse") THEN Pulses ELSE {wiz.pulse} :
       wiz' = Mounted(existing, [wiz EXCEPT !.page = @ + 1, !.pulse = pulse])
    /\ UNCHANGED <<store, existing, form, subs, left, history>>

\* handleBack; also while a setup is under way.
Back ==
    /\ wiz # Off /\ form = NoForm /\ wiz.page > 1 /\ Spend("edits")
    /\ wiz' = Mounted(existing, [wiz EXCEPT !.page = @ - 1])
    /\ UNCHANGED <<store, existing, form, subs, history>>

(***************************************************************************)
(* completeOnboarding.                                                     *)
(***************************************************************************)
Chosen(s) == {s.providers[i] : i \in Kept(s)}
Put(s) == [id \in {p.id : p \in Chosen(s)} |-> SecretOf(id)]

\* Of two providers with a model of one name, the later one gets it.
Owner(s, m) ==
    LET having == {i \in Kept(s) : m \in s.providers[i].models}
    IN s.providers[CHOOSE i \in having : \A j \in having : j <= i].id
PutModels(s) == [m \in UNION {p.models : p \in Chosen(s)} |-> Owner(s, m)]

\* The first loop: a key is stored, or setup ends with an error.  It passes over what was
\* marked for removal and over a key that is kept.
Pass == [job |-> "pass"]
KeyJob(p) ==
    IF p.keep THEN Pass
    ELSE IF p.key = "" THEN [job |-> "refuse"]
    ELSE [job |-> "secret", name |-> SecretOf(p.id), value |-> p.key]
KeyJobs(s) ==
    [i \in DOMAIN s.providers |-> IF i \in Kept(s) THEN KeyJob(s.providers[i]) ELSE Pass]
CredentialJob(c) ==
    IF c.keep \/ c.key = "" THEN Pass
    ELSE [job |-> "secret", name |-> Credential(c.id), value |-> c.key]
CredentialJobs(s) ==
    [i \in DOMAIN s.channels |->
        IF i \in KeptChannels(s) THEN CredentialJob(s.channels[i]) ELSE Pass]
File(f) == <<[job |-> f]>>

\* Mutation of Jobs: the providers are written before their keys are stored.
JobsKeysLast(s) ==
    File("providers") \o KeyJobs(s) \o File("models") \o File("channels")
    \o File("preferences") \o File("templates")
\* The steps of a setup, in order.
Jobs(s) ==
    KeyJobs(s) \o File("providers") \o File("models")
    \o (IF s.channels = <<>> THEN <<>> ELSE CredentialJobs(s) \o File("channels"))
    \o File("preferences") \o (IF s.pulse THEN File("pulse") ELSE <<>>)
    \o File("templates")

\* Mutation of saveProvidersConfig: the merge alone.
saveProvidersConfigAll(old, s) == Assigned(old, Put(s))
\* A provider that is to be removed goes before the merge.
saveProvidersConfig(old, s) == Assigned([p \in DOMAIN old \ s.removed |-> old[p]], Put(s))

\* Mutation of ModelsFile: the models of removed providers stay.
ModelsFileKept(old, s) == Assigned(old, PutModels(s))
\* models.toml: without the models of removed providers and those no longer selected.
\* The command only adds.
ModelsFile(old, s) ==
    LET dropped == {m \in DOMAIN old :
            \/ old[m] \in s.removed
            \/ \E p \in Chosen(s) : old[m] = p.id /\ m \notin p.models}
    IN Assigned([m \in DOMAIN old \ (IF s.exact THEN dropped ELSE {}) |-> old[m]], PutModels(s))

saveChannelsConfig(old, s) ==
    Assigned([n \in DOMAIN old \ s.gone |-> old[n]],
             [n \in {s.channels[i].id : i \in KeptChannels(s)} |-> Credential(n)])

\* preferences.toml: default models only where there are none.
savePreferencesConfig(old, s) ==
    LET named == {<<p.id, m>> : p \in Chosen(s), m \in Models}
        mine == {x \in named : \E p \in Chosen(s) : p.id = x[1] /\ x[2] \in p.models}
    IN IF old = Empty THEN [default |-> mine, pulse |-> FALSE]
       ELSE [old EXCEPT !.default = IF @ = {} THEN mine ELSE @]
WithPulse(old) == IF old = Empty THEN [default |-> {}, pulse |-> TRUE]
                  ELSE [old EXCEPT !.pulse = TRUE]

FileOf(job) == IF job = "pulse" THEN "preferences" ELSE job
Text(job, old, s) ==
    CASE job = "providers" -> saveProvidersConfig(old, s)
      [] job = "models" -> ModelsFile(old, s)
      [] job = "channels" -> saveChannelsConfig(old, s)
      [] job = "preferences" -> savePreferencesConfig(old, s)
      [] job = "pulse" -> WithPulse(old)

\* handleNext on the last page.  A setup under way does not keep Enter from starting
\* another.  The command is a process of its own.
Setup(i, s) ==
    /\ ~Active(i) /\ (i = 2 => Active(1)) /\ Spend("submits")
    /\ subs' = [j \in Slot |->
                   IF j = i THEN [at |-> "read", state |-> s, jobs |-> Jobs(s), held |-> Missing]
                   ELSE IF Active(j) THEN subs[j] ELSE Idle]
    /\ alone' = (alone /\ \A j \in Slot : ~Active(j))
    /\ UNCHANGED <<store, existing, form, halfway, loose, backups>>

Submit(i, mode) ==
    /\ On("templates") /\ mode \in Modes
    /\ wiz' = [wiz EXCEPT !.mode = mode]
    /\ Setup(i, wiz')

\* What the options of the command ask for.
Options(p, m, pulse) ==
    [exact |-> FALSE, providers |-> <<[id |-> p, custom |-> FALSE, was |-> Missing,
         key |-> "new", keep |-> FALSE, models |-> {m}]>>,
     removed |-> {}, channels |-> <<>>, gone |-> {}, pulse |-> pulse, mode |-> "backup"]
Command(i, p, m, pulse) == Setup(i, Options(p, m, pulse)) /\ UNCHANGED wiz

Job(i) == Head(subs[i].jobs)
At(i, at, jobs) == Active(i) /\ subs[i].at = at /\ subs[i].jobs # <<>> /\ Job(i).job \in jobs
Configs == {"providers", "models", "channels", "preferences", "pulse"}
Go(i, at, held) == subs' = [subs EXCEPT ![i].at = at, ![i].held = held]
Fail(i) == subs' = [subs EXCEPT ![i] = [at |-> "failed"]]
\* The job is done; after the last one the wizard ends.
Pop(i) ==
    subs' = [subs EXCEPT ![i].jobs = Tail(@), ![i].held = Missing,
                         ![i].at = IF Len(subs[i].jobs) = 1 THEN "done" ELSE "read"]
Quiet == UNCHANGED <<native, existing, form, left, alone, halfway>>

\* continue.
Continue(i) ==
    /\ At(i, "read", {"pass"}) /\ Pop(i)
    /\ Quiet /\ UNCHANGED <<disk, secrets, guide, wiz, loose, backups>>

Refuse(i) ==
    /\ At(i, "read", {"refuse"}) /\ Fail(i)
    /\ Quiet /\ UNCHANGED <<disk, secrets, guide, wiz, loose, backups>>

\* set() of the keychain.
KeychainSet(i) ==
    /\ native /\ At(i, "read", {"secret"})
    /\ secrets' = Whole(With(secrets.entries, Job(i).name, Job(i).value))
    /\ Pop(i) /\ Quiet /\ UNCHANGED <<disk, guide, wiz, loose, backups>>

\* set() of the file: opened, or created empty, and read.
SecretRead(i) ==
    /\ ~native /\ At(i, "read", {"secret"})
    /\ secrets' = IF secrets.file = "missing" THEN TornFile ELSE secrets
    /\ IF secrets.file = "torn" THEN Fail(i) ELSE Go(i, "cut", secrets.entries)
    /\ Quiet /\ UNCHANGED <<disk, guide, wiz, loose, backups>>

\* replaceContents.
SecretCut(i) ==
    /\ At(i, "cut", {"secret"}) /\ secrets' = TornFile
    /\ Go(i, "write", subs[i].held)
    /\ Quiet /\ UNCHANGED <<disk, guide, wiz, loose, backups>>
Replaced(i) == Whole(With(subs[i].held, Job(i).name, Job(i).value))
SecretWrite(i) ==
    /\ At(i, "write", {"secret"})
    /\ secrets' \in Over(secrets, Replaced(i), TornFile)
    /\ Pop(i) /\ Quiet /\ UNCHANGED <<disk, guide, wiz, loose, backups>>

\* A writer of the configuration reads the file it merges with,
ConfigRead(i) ==
    /\ At(i, "read", Configs)
    /\ LET f == FileOf(Job(i).job) IN
       IF disk[f].file = "torn" THEN Fail(i) ELSE Go(i, "cut", Parsed(f))
    /\ Quiet /\ UNCHANGED <<disk, secrets, guide, wiz, loose, backups>>
\* empties it
ConfigCut(i) ==
    /\ At(i, "cut", Configs)
    /\ disk' = [disk EXCEPT ![FileOf(Job(i).job)] = Whole(Empty)]
    /\ Go(i, "write", subs[i].held)
    /\ Quiet /\ UNCHANGED <<secrets, guide, wiz, loose, backups>>
\* and writes.
ConfigWrite(i) ==
    /\ At(i, "write", Configs)
    /\ LET f == FileOf(Job(i).job)  s == subs[i].state IN
       /\ \E file \in Over(disk[f], Whole(Text(Job(i).job, subs[i].held, s)), Whole(Empty)) :
              disk' = [disk EXCEPT ![f] = file]
       /\ loose' = IF f # "providers" THEN loose
                   ELSE loose \cup {p.id : p \in {q \in Chosen(s) :
                            /\ q.keep
                            /\ ~\E x \in Found(q.was) : x.stored /\ x.secret = SecretOf(q.id)}}
    /\ Pop(i) /\ Quiet /\ UNCHANGED <<secrets, guide, wiz, backups>>

\* Mutation of TemplateCheck: the file that is there is written over.
TemplateCheckNot(i) ==
    /\ At(i, "read", {"templates"})
    /\ IF subs[i].state.mode = "skip" /\ guide.file # Missing THEN Go(i, "end", Missing)
       ELSE Go(i, "write", Missing)
    /\ Quiet /\ UNCHANGED <<disk, secrets, guide, wiz, loose, backups>>
\* executeOnboard of the daemon for one file: is it there, to the backup, the template.
TemplateCheck(i) ==
    /\ At(i, "read", {"templates"})
    /\ LET there == guide.file # Missing IN
       IF there /\ subs[i].state.mode = "skip" THEN Go(i, "end", Missing)
       ELSE IF there /\ subs[i].state.mode = "backup" THEN Go(i, "cut", Missing)
       ELSE Go(i, "write", Missing)
    /\ Quiet /\ UNCHANGED <<disk, secrets, guide, wiz, loose, backups>>
\* A file that is gone by now ends the call with an error, which the wizard only reports.
TemplateBackup(i) ==
    /\ At(i, "cut", {"templates"})
    /\ IF guide.file = Missing THEN guide' = guide /\ Go(i, "end", Missing) /\ UNCHANGED backups
       ELSE /\ guide' = [file |-> Missing, bak |-> guide.file] /\ Go(i, "write", Missing)
            /\ backups' = backups + 1
    /\ Quiet /\ UNCHANGED <<disk, secrets, wiz, loose>>
TemplateWrite(i) ==
    /\ At(i, "write", {"templates"})
    /\ guide' = [guide EXCEPT !.file = "template"]
    /\ backups' = IF subs[i].state.mode = "overwrite" THEN 2 ELSE backups
    /\ Go(i, "end", Missing)
    /\ Quiet /\ UNCHANGED <<disk, secrets, wiz, loose>>
\* onComplete and exit(); the daemon may also not be reached at all.
Finish(i) ==
    /\ At(i, "end", {"templates"}) \/ At(i, "read", {"templates"})
    /\ Pop(i)
    /\ IF subs[i].state.exact THEN wiz' = Off /\ form' = NoForm ELSE UNCHANGED <<wiz, form>>
    /\ UNCHANGED <<store, existing, left, history>>

\* An open, read or write fails: the wizard shows the error and goes on.
IoFails(i) ==
    /\ At(i, subs[i].at, Configs \cup {"secret"}) /\ Spend("faults")
    /\ Fail(i) /\ halfway' = (halfway \/ subs[i].at = "write" \/ Job(i).job = "models")
    /\ UNCHANGED <<store, existing, wiz, form, alone, loose, backups>>

\* The process dies with its setups.
Crash ==
    /\ wiz # Off /\ Spend("crashes")
    /\ wiz' = Off /\ form' = NoForm /\ halfway' = TRUE
    /\ subs' = [i \in Slot |-> IF Active(i) /\ subs[i].state.exact THEN Idle ELSE subs[i]]
    /\ UNCHANGED <<store, existing, alone, loose, backups>>

\* Every model has its provider.
Resolves ==
    \A m \in DOMAIN Parsed("models") : Parsed("models")[m] \in DOMAIN Parsed("providers")

OnboardInit ==
    /\ \E b \in Scenarios :
       /\ disk = b.disk /\ secrets = b.secrets /\ native = b.native
       /\ guide = b.guide /\ left = b.left
    /\ loose = {p \in DOMAIN Parsed("providers") : ~Stored(Parsed("providers")[p])}
    /\ existing = NoConfig /\ wiz = Off /\ form = NoForm /\ subs = [i \in Slot |-> Idle]
    /\ alone = TRUE /\ halfway = ~Resolves /\ backups = 0

Page ==
    \/ \E i \in 1..4 : MarkProvider(i) \/ EditProvider(i) \/ MarkChannel(i)
    \/ \E c \in Builtin \cup Slugs \cup {"custom"} : SelectProvider(c)
    \/ \E slug \in Slugs : SubmitCommonFields(slug)
    \/ ToggleKeepExistingApiKey
    \/ \E key \in {"", "new"} : SubmitAuth(key)
    \/ \E m \in Models : ToggleModel(m) \/ AddModel(m)
    \/ SubmitModels \/ BackInForm
    \/ \E i \in 0..2, n \in Names, key \in {"", "new"}, keep \in BOOLEAN :
          SubmitChannel(i, n, key, keep)
    \/ NextPage \/ Back \/ ToggleDisclaimer

SetupStep ==
    \E i \in Slot :
        \/ Continue(i) \/ Refuse(i) \/ KeychainSet(i) \/ SecretRead(i) \/ SecretCut(i) \/ SecretWrite(i)
        \/ ConfigRead(i) \/ ConfigCut(i) \/ ConfigWrite(i)
        \/ TemplateCheck(i) \/ TemplateBackup(i) \/ TemplateWrite(i) \/ Finish(i)

OnboardNext ==
    \/ Start \/ Page \/ SetupStep \/ Crash
    \/ \E i \in Slot, mode \in Modes : Submit(i, mode)
    \/ \E i \in Slot, p \in Builtin, m \in Offered, pulse \in Pulses : Command(i, p, m, pulse)
    \/ \E i \in Slot : IoFails(i)

OnboardSpec == OnboardInit /\ [][OnboardNext]_onboardVars

(***************************************************************************)
(* Properties.                                                             *)
(***************************************************************************)
\* A provider that providers.toml names has its key in the store at every moment, also
\* when a step failed or the process died: completeOnboarding stores the keys first.  Not
\* so for a provider that kept a key stored under another name, and not when two setups
\* have shared the secrets file.
CredentialsAreStored ==
    (native \/ alone) /\ secrets.file # "torn" =>
        \A p \in DOMAIN Parsed("providers") \ loose : Stored(Parsed("providers")[p])

\* When setup succeeds the files hold what the wizard showed: who is kept, who is removed,
\* each model with its provider, the keys typed, the channels and the pulse; whatever
\* failed, was tried again or was gone back to before.  Every model of models.toml has its
\* provider in providers.toml, where resolveModel looks for both, unless it had none when
\* the user came, a setup ended between the two files or a failed write left one empty.
SetupIsSaved ==
    \A i \in Slot : subs[i].at = "done" /\ alone =>
        LET s == subs[i].state
            models == Parsed("models")
        IN
        /\ \A p \in Chosen(s) : /\ p.id \in DOMAIN Parsed("providers")
                                /\ ~p.keep => /\ Stored(SecretOf(p.id))
                                              /\ secrets.entries[SecretOf(p.id)] = p.key
        /\ s.removed \cap DOMAIN Parsed("providers") = {}
        /\ \A m \in DOMAIN PutModels(s) : m \in DOMAIN models /\ models[m] = PutModels(s)[m]
        /\ s.exact => \A m \in DOMAIN models, p \in Chosen(s) :
                          models[m] = p.id => m \in p.models
        /\ \A j \in KeptChannels(s) : s.channels[j].id \in DOMAIN Parsed("channels")
        /\ s.pulse => Parsed("preferences").pulse
        /\ ~halfway => Resolves

\* The user's own guidance text is in place or in the backup, through every step of the
\* copy; a second backup writes over the first.
TextSurvivesABackup == backups <= 1 => "user" \in {guide.file, guide.bak}
=============================================================================
