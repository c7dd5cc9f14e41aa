---------------------------- MODULE PluginLoader ----------------------------
(***************************************************************************)
(* The plugin loader of libblockdev (src/src/lib/blockdev.c.in) together   *)
(* with the dispatch code generated for every plugin by                    *)
(* src/scripts/boilerplate_generator.py.                                   *)
(*                                                                         *)
(* Every function of the API is called through a pointer, _bd_xxx in the   *)
(* generated code, that holds the address of the function in the loaded    *)
(* plugin or of a stub that reports an error.  The bd_*init family loads   *)
(* and unloads plugins under init_lock; API calls and the bd_is_plugin_    *)
(* available / bd_get_plugin_soname queries take no lock at all, so they   *)
(* interleave with every step of the load.                                 *)
(***************************************************************************)
EXTENDS Naturals, Sequences, FiniteSets

CONSTANTS
    Threads,     \* threads of the application
    NoThread,    \* init_lock is not held
    UNDEF,       \* BD_PLUGIN_UNDEF, the number of plugins
    NotBuilt,    \* plugins compiled out (s390 elsewhere, zfs --without-zfs)
    SoNames,     \* names of shared objects
    NFuncs,      \* number of API functions of a plugin
    Provides,    \* Provides[p][so]: the functions of p that so exports
    Configs,     \* what the config files and the defaults may list, per plugin
    Requests,    \* the require_plugins arguments the application uses
    Kinds,       \* the functions of the bd_*init family that are called
    NULL,        \* the C null pointer
    Stub,        \* address of the generated bd_xxx_stub
    Freed,       \* a pointer to memory that was g_free()d
    Quiesced     \* TRUE: the application stops API calls around a reload

Plugins == 0 .. UNDEF - 1
Funcs == 1 .. NFuncs

\* A NULL-terminated array of BDPluginSpec, or NULL ("all") for all plugins.
RequestType ==
    [all : BOOLEAN, specs : Seq([name : Nat, so : SoNames \cup {NULL}])]

ConfigType == [Plugins -> Seq(SoNames)]

InitKinds == {"init", "try_init", "ensure"}
ReinitKinds == {"reinit", "try_reinit"}

ASSUME ConstantsAssumption ==
    /\ NoThread \notin Threads
    /\ UNDEF \in Nat
    /\ NFuncs \in Nat
    /\ NotBuilt \subseteq Plugins
    /\ Provides \in [Plugins -> [SoNames -> SUBSET Funcs]]
    /\ Configs \subseteq ConfigType
    /\ Requests \subseteq RequestType
    /\ Kinds \subseteq InitKinds \cup ReinitKinds
    /\ Quiesced \in BOOLEAN

ASSUME AddressAssumption ==
    /\ NULL \notin SoNames /\ Stub \notin SoNames /\ Freed \notin SoNames
    /\ NULL # Stub /\ NULL # Freed

CallType ==
    [kind : InitKinds \cup ReinitKinds, req : RequestType, reload : BOOLEAN]

VARIABLES
    init_lock,      \* the thread that holds the mutex, or NoThread
    initialized,    \* the flag behind bd_is_initialized ()
    handle,         \* plugins[p].handle: the shared object of p, or NULL
    so_name,        \* plugins[p].spec.so_name: a name, NULL or a freed pointer
    fn,             \* fn[p][f]: the pointer the generated wrapper calls
    refs,           \* refs[p][so]: dlopen ()s of so for p not yet dlclose ()d
    sonames,        \* plugins_sonames, what the lock holder has left to try
    cur,            \* the plugin the lock holder's loop is at
    sym,            \* the function the lock holder resolves next
    lib,            \* the shared object the lock holder has dlopen()ed
    pc,             \* where every thread is
    call,           \* the arguments of a bd_*init call
    asked,          \* the plugin a bd_get_plugin_soname call is about
    inside,         \* the address a thread's API call jumped to
    ret,            \* what a thread's last call returned
    before          \* history: the tables when init_lock was last taken

shared == <<init_lock, initialized, handle, so_name, fn, refs>>
loader == <<sonames, cur, sym, lib, before>>
args == <<call, asked, inside, ret>>
threads == <<pc, call, asked, inside, ret>>
vars == <<init_lock, initialized, handle, so_name, fn, refs, sonames, cur, sym,
          lib, pc, call, asked, inside, ret, before>>

UnloadSteps == {"stubs", "dlclose", "nohandle"}
FreeSteps == {"free", "clear"}
LoadSteps == {"load", "initfn", "dlsym", "nosym", "soname"}
LoaderSteps == UnloadSteps \cup FreeSteps \cup LoadSteps
PCs == {"idle", "lock", "infn", "query"} \cup LoaderSteps

NoCall == [kind |-> "init", req |-> [all |-> TRUE, specs |-> <<>>],
           reload |-> FALSE]

Init ==
    /\ init_lock = NoThread
    /\ initialized = FALSE
    /\ handle = [p \in Plugins |-> NULL]
    /\ so_name = [p \in Plugins |-> NULL]
    /\ fn = [p \in Plugins |-> [f \in Funcs |-> Stub]]
    /\ refs = [p \in Plugins |-> [s \in SoNames |-> 0]]
    /\ sonames = [p \in Plugins |-> <<>>]
    /\ cur = 0 /\ sym = 1 /\ lib = NULL
    /\ pc = [t \in Threads |-> "idle"]
    /\ call = [t \in Threads |-> NoCall]
    /\ asked = [t \in Threads |-> 0]
    /\ inside = [t \in Threads |-> NULL]
    /\ ret = [t \in Threads |-> FALSE]
    /\ before = [handle |-> handle, fn |-> fn]

-----------------------------------------------------------------------------
(* What a request asks for.                                                *)

\* required_plugins_mask; names from BD_PLUGIN_UNDEF on are skipped.
Mask(req) ==
    {p \in Plugins : \E i \in DOMAIN req.specs : req.specs[i].name = p}

\* The array's first item is NULL: requested to load no plugins.
EmptyRequest(req) == ~req.all /\ req.specs = <<>>

\* The plugins whose handles decide the result of load_plugins.
Required(req) == IF req.all THEN Plugins \ NotBuilt ELSE Mask(req)

\* Positions of the specs that name p and bring a so_name of their own.
ExplicitAt(req, p) ==
    {i \in DOMAIN req.specs : req.specs[i].name = p /\ req.specs[i].so # NULL}

\* A later spec for the same plugin replaces what an earlier one put in.
ExplicitSo(req, p) ==
    req.specs[CHOOSE i \in ExplicitAt(req, p) :
                  \A j \in ExplicitAt(req, p) : j <= i].so

\* Mutant: the defaults of plugins not required stay.
PluginsSonames_defaults(req, conf) ==
    [p \in Plugins |->
        IF ~req.all /\ ExplicitAt(req, p) # {} THEN <<ExplicitSo(req, p)>>
        ELSE IF p \in NotBuilt THEN <<>>
        ELSE conf[p]]

\* plugins_sonames as do_load gets it: the configuration without the plugins
\* compiled out, the request's own names instead, nothing for the others.
PluginsSonames(req, conf) ==
    [p \in Plugins |->
        IF ~req.all /\ p \notin Mask(req) THEN <<>>
        ELSE IF ~req.all /\ ExplicitAt(req, p) # {} THEN <<ExplicitSo(req, p)>>
        ELSE IF p \in NotBuilt THEN <<>>
        ELSE conf[p]]

\* bd_is_plugin_available ()
Available(p) == p < UNDEF /\ handle[p] # NULL

\* Mutant: bd_ensure_init looks for one available plugin, not for all.
Missing_all(req) ==
    IF req.all THEN \A p \in Plugins : ~Available(p)
    ELSE \A i \in DOMAIN req.specs : ~Available(req.specs[i].name)

\* The check of bd_ensure_init; unlike Required it counts unknown names and,
\* for a NULL request, the plugins that were compiled out.
Missing(req) ==
    IF req.all THEN \E p \in Plugins : ~Available(p)
    ELSE \E i \in DOMAIN req.specs : ~Available(req.specs[i].name)

\* What an init call leaves in initialized, from the num_loaded it counted.
InitializedBy(req) ==
    (\E p \in Required(req) : handle[p] # NULL) \/ EmptyRequest(req)

-----------------------------------------------------------------------------
(* The application.  Quiesced stands for an application that lets its API  *)
(* calls and queries finish before it reloads; the library enforces none.  *)

Goto(t, where) == pc' = [pc EXCEPT ![t] = where]

Return(t, value) ==
    /\ Goto(t, "idle")
    /\ ret' = [ret EXCEPT ![t] = value]

\* A reload was called and has not returned.
Reloading(t) == pc[t] \in {"lock"} \cup LoaderSteps /\ call[t].reload

CallInit(t, kind, req, reload) ==
    /\ pc[t] = "idle"
    /\ kind \in InitKinds => ~reload
    /\ Quiesced /\ reload => \A u \in Threads : pc[u] \notin {"infn", "query"}
    /\ call' = [call EXCEPT ![t] =
                    [kind |-> kind, req |-> req, reload |-> reload]]
    /\ Goto(t, "lock")
    /\ UNCHANGED <<shared, loader, asked, inside, ret>>

\* An API call: the generated wrapper loads the pointer and jumps.
CallFunction(t, p, f) ==
    /\ pc[t] = "idle"
    /\ Quiesced => \A u \in Threads : ~Reloading(u)
    /\ inside' = [inside EXCEPT ![t] = fn[p][f]]
    /\ Goto(t, "infn")
    /\ UNCHANGED <<shared, loader, call, asked, ret>>

ReturnFunction(t) ==
    /\ pc[t] = "infn"
    /\ inside' = [inside EXCEPT ![t] = NULL]
    /\ Goto(t, "idle")
    /\ UNCHANGED <<shared, loader, call, asked, ret>>

\* bd_get_plugin_soname: tests the handle, then copies so_name.
QuerySoname(t, p) ==
    /\ pc[t] = "idle"
    /\ Quiesced => \A u \in Threads : ~Reloading(u)
    /\ IF handle[p] # NULL
         THEN /\ Goto(t, "query")
              /\ asked' = [asked EXCEPT ![t] = p]
              /\ UNCHANGED ret
         ELSE Return(t, FALSE) /\ UNCHANGED asked
    /\ UNCHANGED <<shared, loader, call, inside>>

CopySoname(t) ==
    /\ pc[t] = "query"
    /\ Return(t, so_name[asked[t]] # NULL)
    /\ asked' = [asked EXCEPT ![t] = 0]
    /\ UNCHANGED <<shared, loader, call, inside>>

\* bd_is_initialized: the whole read is one step under the mutex.
IsInitialized(t) ==
    /\ pc[t] = "idle"
    /\ init_lock = NoThread
    /\ Return(t, initialized)
    /\ UNCHANGED <<shared, loader, call, asked, inside>>

-----------------------------------------------------------------------------
(* The bd_*init family: entry.                                             *)

\* Not to be loaded again: bd_init and bd_try_init fail, bd_ensure_init
\* succeeds when nothing it wants is missing.
AlreadyInitialized(c) ==
    /\ initialized
    /\ \/ c.kind \in {"init", "try_init"}
       \/ c.kind = "ensure" /\ ~Missing(c.req)

EnterAndReturn(t) ==
    /\ pc[t] = "lock"
    /\ init_lock = NoThread
    /\ AlreadyInitialized(call[t])
    /\ Return(t, call[t].kind = "ensure")
    /\ UNCHANGED <<shared, loader, call, asked, inside>>

EnterAndLoad(t, conf) ==
    /\ pc[t] = "lock"
    /\ init_lock = NoThread
    /\ ~AlreadyInitialized(call[t])
    /\ init_lock' = t
    /\ sonames' = PluginsSonames(call[t].req, conf)
    /\ cur' = 0
    /\ before' = [handle |-> handle, fn |-> fn]
    /\ Goto(t, IF call[t].reload THEN "stubs" ELSE "load")
    /\ UNCHANGED <<initialized, handle, so_name, fn, refs, sym, lib, args>>

(* unload_plugins and the generated unload_xxx functions.                  *)

UnloadSkip(t) ==
    /\ pc[t] = "stubs" /\ cur \in Plugins
    /\ handle[cur] = NULL
    /\ cur' = cur + 1
    /\ UNCHANGED <<shared, sonames, sym, lib, threads, before>>

\* Mutant: unload_xxx does not revert the pointers.
UnloadStubs_forgotten(t) ==
    /\ pc[t] = "stubs" /\ cur \in Plugins
    /\ handle[cur] # NULL
    /\ UNCHANGED fn
    /\ Goto(t, "dlclose")
    /\ UNCHANGED <<init_lock, initialized, handle, so_name, refs, loader,
                   args>>

UnloadStubs(t) ==
    /\ pc[t] = "stubs" /\ cur \in Plugins
    /\ handle[cur] # NULL
    /\ fn' = [fn EXCEPT ![cur] = [f \in Funcs |-> Stub]]
    /\ Goto(t, "dlclose")
    /\ UNCHANGED <<init_lock, initialized, handle, so_name, refs, loader,
                   args>>

\* close_fn () and dlclose ().
UnloadDlclose(t) ==
    /\ pc[t] = "dlclose"
    /\ refs' = [refs EXCEPT ![cur][handle[cur]] = @ - 1]
    /\ Goto(t, "nohandle")
    /\ UNCHANGED <<init_lock, initialized, handle, so_name, fn, loader, args>>

UnloadHandle(t) ==
    /\ pc[t] = "nohandle"
    /\ handle' = [handle EXCEPT ![cur] = NULL]
    /\ cur' = cur + 1
    /\ Goto(t, "stubs")
    /\ UNCHANGED <<init_lock, initialized, so_name, fn, refs, sonames, sym,
                   lib, args, before>>

\* Mutant: the names of unloaded plugins are not cleaned.
UnloadDone_names(t) ==
    /\ pc[t] = "stubs" /\ cur = UNDEF
    /\ cur' = 0
    /\ Goto(t, "load")
    /\ UNCHANGED <<shared, sonames, sym, lib, args, before>>

UnloadDone(t) ==
    /\ pc[t] = "stubs" /\ cur = UNDEF
    /\ cur' = 0
    /\ Goto(t, "free")
    /\ UNCHANGED <<shared, sonames, sym, lib, args, before>>

\* g_free (plugins[i].spec.so_name); plugins[i].spec.so_name = NULL;
FreeSoname(t) ==
    /\ pc[t] = "free" /\ cur \in Plugins
    /\ so_name' = [so_name EXCEPT ![cur] = IF @ = NULL THEN NULL ELSE Freed]
    /\ Goto(t, "clear")
    /\ UNCHANGED <<init_lock, initialized, handle, fn, refs, loader, args>>

ClearSoname(t) ==
    /\ pc[t] = "clear"
    /\ so_name' = [so_name EXCEPT ![cur] = NULL]
    /\ cur' = cur + 1
    /\ Goto(t, "free")
    /\ UNCHANGED <<init_lock, initialized, handle, fn, refs, sonames, sym, lib,
                   args, before>>

FreeDone(t) ==
    /\ pc[t] = "free" /\ cur = UNDEF
    /\ cur' = 0
    /\ Goto(t, "load")
    /\ UNCHANGED <<shared, sonames, sym, lib, args, before>>

(* do_load, load_plugin_from_sonames and the generated load_xxx_from_plugin. *)

\* Loaded already, compiled out, or no more names to try.
LoadSkip(t) ==
    /\ pc[t] = "load" /\ cur \in Plugins
    /\ \/ cur \in NotBuilt
       \/ handle[cur] # NULL
       \/ sonames[cur] = <<>>
    /\ cur' = cur + 1
    /\ UNCHANGED <<shared, sonames, sym, lib, threads, before>>

NextName(t) ==
    /\ pc[t] = "load" /\ cur \in Plugins
    /\ cur \notin NotBuilt
    /\ handle[cur] = NULL
    /\ sonames[cur] # <<>>

DlopenFails(t) ==
    /\ NextName(t)
    /\ sonames' = [sonames EXCEPT ![cur] = Tail(@)]
    /\ UNCHANGED <<shared, cur, sym, lib, threads, before>>

\* Mutant: a name whose init function failed is tried again.
Dlopen_again(t) ==
    /\ NextName(t)
    /\ lib' = Head(sonames[cur])
    /\ refs' = [refs EXCEPT ![cur][Head(sonames[cur])] = @ + 1]
    /\ UNCHANGED sonames
    /\ Goto(t, "initfn")
    /\ UNCHANGED <<init_lock, initialized, handle, so_name, fn, cur, sym, args,
                   before>>

Dlopen(t) ==
    /\ NextName(t)
    /\ lib' = Head(sonames[cur])
    /\ refs' = [refs EXCEPT ![cur][Head(sonames[cur])] = @ + 1]
    /\ sonames' = [sonames EXCEPT ![cur] = Tail(@)]
    /\ Goto(t, "initfn")
    /\ UNCHANGED <<init_lock, initialized, handle, so_name, fn, cur, sym, args,
                   before>>

\* bd_xxx_init () returned FALSE: dlclose, and load_xxx_from_plugin is NULL.
InitFnFails(t) ==
    /\ pc[t] = "initfn"
    /\ refs' = [refs EXCEPT ![cur][lib] = @ - 1]
    /\ lib' = NULL
    /\ Goto(t, "load")
    /\ UNCHANGED <<init_lock, initialized, handle, so_name, fn, sonames, cur,
                   sym, args, before>>

InitFnSucceeds(t) ==
    /\ pc[t] = "initfn"
    /\ sym' = 1
    /\ Goto(t, "dlsym")
    /\ UNCHANGED <<shared, sonames, cur, lib, args, before>>

\* dlsym () stores its result in the pointer itself, NULL when so lacks it.
ResolvePresent(t) ==
    /\ pc[t] = "dlsym" /\ sym \in Funcs
    /\ sym \in Provides[cur][lib]
    /\ fn' = [fn EXCEPT ![cur][sym] = lib]
    /\ sym' = sym + 1
    /\ UNCHANGED <<init_lock, initialized, handle, so_name, refs, sonames, cur,
                   lib, threads, before>>

ResolveAbsent(t) ==
    /\ pc[t] = "dlsym" /\ sym \in Funcs
    /\ sym \notin Provides[cur][lib]
    /\ fn' = [fn EXCEPT ![cur][sym] = NULL]
    /\ Goto(t, "nosym")
    /\ UNCHANGED <<init_lock, initialized, handle, so_name, refs, loader,
                   args>>

\* Mutant: a missing symbol leaves the NULL of dlsym () behind.
RestoreStub_forgotten(t) ==
    /\ pc[t] = "nosym"
    /\ UNCHANGED fn
    /\ sym' = sym + 1
    /\ Goto(t, "dlsym")
    /\ UNCHANGED <<init_lock, initialized, handle, so_name, refs, sonames, cur,
                   lib, args, before>>

\* dlerror () reported the failure: back to the stub.
RestoreStub(t) ==
    /\ pc[t] = "nosym"
    /\ fn' = [fn EXCEPT ![cur][sym] = Stub]
    /\ sym' = sym + 1
    /\ Goto(t, "dlsym")
    /\ UNCHANGED <<init_lock, initialized, handle, so_name, refs, sonames, cur,
                   lib, args, before>>

SetHandle(t) ==
    /\ pc[t] = "dlsym" /\ sym \notin Funcs
    /\ handle' = [handle EXCEPT ![cur] = lib]
    /\ Goto(t, "soname")
    /\ UNCHANGED <<init_lock, initialized, so_name, fn, refs, loader, args>>

SetSoname(t) ==
    /\ pc[t] = "soname"
    /\ so_name' = [so_name EXCEPT ![cur] = lib]
    /\ lib' = NULL
    /\ cur' = cur + 1
    /\ Goto(t, "load")
    /\ UNCHANGED <<init_lock, initialized, handle, fn, refs, sonames, sym,
                   args, before>>

\* The rest of load_plugins and of the caller: count, set the flag, unlock.
Finish(t) ==
    /\ pc[t] = "load" /\ cur = UNDEF
    /\ initialized' = InitializedBy(call[t].req)
    /\ init_lock' = NoThread
    /\ sonames' = [p \in Plugins |-> <<>>]
    /\ Return(t, \A p \in Required(call[t].req) : handle[p] # NULL)
    /\ UNCHANGED <<handle, so_name, fn, refs, cur, sym, lib, call, asked,
                   inside, before>>

-----------------------------------------------------------------------------
Unload(t) == \/ UnloadSkip(t) \/ UnloadStubs(t) \/ UnloadDlclose(t)
             \/ UnloadHandle(t) \/ UnloadDone(t)

FreeNames(t) == FreeSoname(t) \/ ClearSoname(t) \/ FreeDone(t)

Load(t) == \/ LoadSkip(t) \/ DlopenFails(t) \/ Dlopen(t)
           \/ InitFnFails(t) \/ InitFnSucceeds(t)
           \/ ResolvePresent(t) \/ ResolveAbsent(t) \/ RestoreStub(t)
           \/ SetHandle(t) \/ SetSoname(t)

\* The steps of a thread inside the library.
Step(t) ==
    \/ Unload(t) \/ FreeNames(t) \/ Load(t) \/ Finish(t)

Enter(t) == EnterAndReturn(t) \/ \E conf \in Configs : EnterAndLoad(t, conf)

Use(t) ==
    \/ \E kind \in Kinds, req \in Requests, reload \in BOOLEAN :
           CallInit(t, kind, req, reload)
    \/ \E p \in Plugins, f \in Funcs : CallFunction(t, p, f)
    \/ ReturnFunction(t)
    \/ \E p \in Plugins : QuerySoname(t, p)
    \/ CopySoname(t)
    \/ IsInitialized(t)

Next == \E t \in Threads : Use(t) \/ Enter(t) \/ Step(t)

Spec == Init /\ [][Next]_vars

\* The holder of init_lock goes on; nothing is assumed of the others.
FairSpec == Spec /\ \A t \in Threads : WF_vars(Step(t))

-----------------------------------------------------------------------------
(* Properties.                                                             *)

TypeOK ==
    /\ init_lock \in Threads \cup {NoThread}
    /\ initialized \in BOOLEAN
    /\ handle \in [Plugins -> SoNames \cup {NULL}]
    /\ so_name \in [Plugins -> SoNames \cup {NULL, Freed}]
    /\ fn \in [Plugins -> [Funcs -> SoNames \cup {NULL, Stub}]]
    /\ refs \in [Plugins -> [SoNames -> Nat]]
    /\ sonames \in ConfigType
    /\ cur \in 0 .. UNDEF
    /\ sym \in 1 .. NFuncs + 1
    /\ lib \in SoNames \cup {NULL}
    /\ pc \in [Threads -> PCs]
    /\ call \in [Threads -> CallType]
    /\ asked \in [Threads -> Nat]
    /\ inside \in [Threads -> SoNames \cup {NULL, Stub}]
    /\ ret \in [Threads -> BOOLEAN]
    /\ before \in [handle : [Plugins -> SoNames \cup {NULL}],
                   fn : [Plugins -> [Funcs -> SoNames \cup {NULL, Stub}]]]

\* The address the wrapper of function f of plugin p has to call when so is
\* what is loaded for p.
Dispatch(p, so, f) ==
    IF so # NULL /\ f \in Provides[p][so] THEN so ELSE Stub

\* Whenever no init call is in progress, every API pointer leads into the
\* shared object loaded for its plugin if that one exports the function and to
\* the stub otherwise, and so_name tells which shared object that is.
QuiescentDispatch ==
    init_lock = NoThread =>
        \A p \in Plugins :
            /\ so_name[p] = handle[p]
            /\ \A f \in Funcs : fn[p][f] = Dispatch(p, handle[p], f)

\* At every moment, also in the middle of a load or of an unload, an API
\* pointer that leads into a shared object leads into one that is mapped.
NoDanglingPointer ==
    \A p \in Plugins, f \in Funcs :
        fn[p][f] \in SoNames => refs[p][fn[p][f]] > 0

\* Whenever no init call is in progress, every successful dlopen () is owned by
\* exactly one handle: no mapping is leaked by a failed init function and none
\* is given up twice.
NoMappingLeak ==
    init_lock = NoThread =>
        \A p \in Plugins, s \in SoNames :
            refs[p][s] = IF handle[p] = s THEN 1 ELSE 0

Mapped(s) == \E p \in Plugins : refs[p][s] > 0

\* When the application quiesces around reloads, no thread is ever executing
\* code of a shared object that has been unmapped.
NoUnmappedCode ==
    Quiesced => \A t \in Threads : inside[t] \in SoNames => Mapped(inside[t])

\* When the application quiesces around reloads, bd_get_plugin_soname never
\* copies a name that load_plugins has freed.
NoFreedName ==
    Quiesced => \A t \in Threads : pc[t] = "query" => so_name[asked[t]] # Freed

\* Nothing is used after it is gone, although calls and queries take no lock:
\* no pointer leads into an unmapped object, no thread is inside one, and no
\* freed name is read.
NothingDangles == NoDanglingPointer /\ NoUnmappedCode /\ NoFreedName

\* README.md and README.DEVEL.md: a function no plugin provides is a stub that
\* reports an error, so the application does not crash.  In particular a call
\* never jumps through a NULL pointer.
NoNullCall ==
    \A t \in Threads : pc[t] = "infn" => inside[t] # NULL

\* A bd_*init call that returns TRUE in this step has all it asked for.
SuccessStep ==
    \A t \in Threads :
        pc[t] \in {"lock", "load"} /\ pc'[t] = "idle" /\ ret'[t] =>
            \A p \in Required(call[t].req) : handle'[p] # NULL

\* A function of the bd_*init family that returns TRUE leaves every plugin it
\* was asked for loaded (bd_init and bd_try_init, bd_ensure_init whether it
\* loads or returns early, bd_reinit and bd_try_reinit).
SuccessMeansLoaded == [][SuccessStep]_vars

\* Giving up the lock initialized and with nothing loaded answers a request
\* for nothing.
ReleaseStep ==
    \A t \in Threads :
        /\ init_lock = t /\ init_lock' # t
        /\ initialized' /\ \A p \in Plugins : handle'[p] = NULL
        => EmptyRequest(call[t].req)

\* The library is left initialized with no plugin at all only by a call that
\* asked for none.
InitializedJustified == [][ReleaseStep]_vars

\* A handle that is replaced or dropped in this step is so by a reload.
HandleStep ==
    \A p \in Plugins :
        handle[p] # NULL /\ handle'[p] # handle[p] =>
            \E t \in Threads : init_lock = t /\ call[t].reload

\* Loading without reload never unloads: a handle only changes from NULL, or
\* during a call made with reload.
OnlyReloadUnloads == [][HandleStep]_vars

\* Every init call that got the lock gives it back: the nested loops over
\* plugins, names and functions end.
LockReleased ==
    \A t \in Threads : (init_lock = t) ~> (init_lock # t)

-----------------------------------------------------------------------------
\* What the application may rely on, see PluginRegistry.
Registry == INSTANCE PluginRegistry WITH
    loaded <- IF init_lock = NoThread THEN handle ELSE before.handle,
    table <- IF init_lock = NoThread THEN fn ELSE before.fn,
    waiting <- {t \in Threads : pc[t] \in {"lock"} \cup LoaderSteps}

\* Seen between init calls, the loader behaves as if every call of the
\* bd_*init family took effect in one step: what it loads, keeps and answers
\* depends on its own request and on what was loaded when it got the lock.
RegistrySpec == Registry!Spec

-----------------------------------------------------------------------------
(* The inductive invariant: what the loops of load_plugins have done so far. *)

\* Only the holder of the lock is inside load_plugins.
LockInv ==
    \A t \in Threads : pc[t] \in LoaderSteps <=> init_lock = t

\* refs[p] is exactly one reference to so, or none if so is NULL.
HoldsOnly(p, so) == \A s \in SoNames : refs[p][s] = IF s = so THEN 1 ELSE 0

AllStubs(p) == \A f \in Funcs : fn[p][f] = Stub

\* The three tables agree about p.
Settled(p) ==
    /\ so_name[p] = handle[p]
    /\ HoldsOnly(p, handle[p])
    /\ \A f \in Funcs : fn[p][f] = Dispatch(p, handle[p], f)
    /\ p \in NotBuilt => handle[p] = NULL

\* p was unloaded; so_name is what the first loop leaves to the second.
Emptied(p) ==
    /\ handle[p] = NULL /\ HoldsOnly(p, NULL) /\ AllStubs(p)

OthersSettled == \A p \in Plugins \ {cur} : Settled(p)

\* The plugin at the cursor is half unloaded.
Unloading(so) ==
    /\ cur \in Plugins \ NotBuilt
    /\ handle[cur] \in SoNames /\ so_name[cur] = handle[cur]
    /\ HoldsOnly(cur, so) /\ AllStubs(cur)
    /\ \A p \in Plugins : /\ p < cur => Emptied(p) /\ so_name[p] # Freed
                          /\ p > cur => Settled(p)

\* The plugin at the cursor is half loaded, its functions below n resolved.
Opened(n) ==
    /\ cur \in Plugins \ NotBuilt
    /\ lib \in SoNames /\ so_name[cur] = NULL
    /\ HoldsOnly(cur, lib)
    /\ \A f \in Funcs :
           /\ f < n => fn[cur][f] = Dispatch(cur, lib, f)
           /\ f > n => fn[cur][f] = Stub
    /\ OthersSettled

\* Nothing is loaded, the names below the cursor are gone.
Freeing ==
    \A p \in Plugins : /\ Emptied(p)
                       /\ p < cur => so_name[p] = NULL
                       /\ p > cur => so_name[p] # Freed

\* What holds while the thread in load_plugins is at a given place.
Phase(where) ==
    /\ where = "stubs" =>
           \A p \in Plugins : IF p < cur THEN Emptied(p) /\ so_name[p] # Freed
                              ELSE Settled(p)
    /\ where = "dlclose" => Unloading(handle[cur])
    /\ where = "nohandle" => Unloading(NULL)
    /\ where = "free" => Freeing /\ (cur \in Plugins => so_name[cur] # Freed)
    /\ where = "clear" => Freeing /\ cur \in Plugins
    /\ where = "load" => \A p \in Plugins : Settled(p)
    /\ where = "initfn" => Opened(0) /\ handle[cur] = NULL
    /\ where = "dlsym" =>
           /\ Opened(sym) /\ handle[cur] = NULL
           /\ sym \in Funcs => fn[cur][sym] = Stub
    /\ where = "nosym" =>
           /\ Opened(sym) /\ handle[cur] = NULL
           /\ sym \in Funcs /\ sym \notin Provides[cur][lib]
           /\ fn[cur][sym] = NULL
    /\ where = "soname" => Opened(NFuncs + 1) /\ handle[cur] = lib

LoopInv ==
    /\ init_lock = NoThread => \A p \in Plugins : Settled(p)
    /\ \A t \in Threads : Phase(pc[t])

\* What a thread's own variables say about where it is.
CallInv ==
    \A t \in Threads :
        /\ pc[t] \in UnloadSteps \cup FreeSteps => call[t].reload
        /\ pc[t] # "infn" => inside[t] = NULL
        /\ pc[t] = "query" => asked[t] \in Plugins

\* so is loaded for a plugin or being resolved for one.
InUse(so) ==
    \/ \E p \in Plugins : handle[p] = so
    \/ \E t \in Threads : pc[t] \in {"dlsym", "nosym"} /\ lib = so

\* Unlocked readers of an application that quiesces around reloads.
QuiesceInv ==
    Quiesced =>
        \A t \in Threads : pc[t] \in {"infn", "query"} =>
            /\ \A u \in Threads : ~Reloading(u)
            /\ inside[t] \in SoNames => InUse(inside[t])

\* What the holder of the lock decides about the plugins: what was loaded stays
\* unless it reloads, and all it tries and loads may serve the plugin.
Choosing(t) ==
    /\ ~(initialized /\ call[t].kind \in {"init", "try_init"})
    /\ \A p \in Plugins \ NotBuilt :
           sonames[p] \in Seq(Registry!MayServe(call[t].req, p))
    /\ pc[t] \in LoadSteps \ {"load"} => lib \in Registry!MayServe(call[t].req, cur)
    /\ ~call[t].reload =>
           \A p \in Plugins : before.handle[p] # NULL => handle[p] = before.handle[p]
    /\ pc[t] \in LoadSteps =>
           \A p \in Plugins :
               \/ handle[p] \in Registry!MayServe(call[t].req, p) \cup {NULL}
               \/ ~call[t].reload /\ before.handle[p] # NULL

ChoiceInv == \A t \in Threads : init_lock = t => Choosing(t)

\* TypeOK, mutual exclusion, the progress of the loader's loops, what the
\* unlocked readers rely on and what the loads choose from: implies
\* QuiescentDispatch, NoDanglingPointer, NoMappingLeak and, in a quiescing
\* application, NoUnmappedCode and NoFreedName; and every step it is kept by
\* is one of PluginRegistry.
IndInv == TypeOK /\ LockInv /\ LoopInv /\ CallInv /\ QuiesceInv /\ ChoiceInv

=============================================================================
