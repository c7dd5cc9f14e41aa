--------------------------- MODULE PluginRegistry ---------------------------
(***************************************************************************)
(* What the bd_*init family promises: a call takes effect in one step      *)
(* between its invocation and its return.  In that step it either leaves   *)
(* everything as it is or decides for every plugin which shared object     *)
(* serves it and points the whole API of the plugin there.                 *)
(***************************************************************************)
EXTENDS Naturals, Sequences

CONSTANTS Threads, UNDEF, NotBuilt, SoNames, NFuncs, Provides, Configs, NULL,
          Stub

VARIABLES
    loaded,         \* the shared object that serves a plugin, or NULL
    table,          \* where a call of a function of a plugin goes
    initialized,    \* what bd_is_initialized () says
    waiting,        \* the threads in a call of the bd_*init family
    call,           \* the arguments of a thread's call
    ret             \* the result of a thread's last call

registry == <<loaded, table, initialized>>
vars == <<loaded, table, initialized, waiting, call, ret>>

Plugins == 0 .. UNDEF - 1
Funcs == 1 .. NFuncs

\* The table that belongs to a choice of shared objects.
TableOf(chosen) ==
    [p \in Plugins |-> [f \in Funcs |->
        IF chosen[p] # NULL /\ f \in Provides[p][chosen[p]]
          THEN chosen[p] ELSE Stub]]

Init ==
    /\ loaded = [p \in Plugins |-> NULL]
    /\ table = TableOf(loaded)
    /\ initialized = FALSE
    /\ waiting = {}

\* The plugins a request names and the ones it wants.
Named(req) ==
    {p \in Plugins : \E i \in DOMAIN req.specs : req.specs[i].name = p}

Wanted(req) == IF req.all THEN Plugins \ NotBuilt ELSE Named(req)

\* The shared objects that may serve p: the ones the request insists on or
\* else the ones configured; none for a plugin that is not wanted.
MayServe(req, p) ==
    LET own == {req.specs[i].so : i \in
                   {j \in DOMAIN req.specs : req.specs[j].name = p}} \ {NULL}
        configured == UNION {{conf[p][i] : i \in DOMAIN conf[p]} :
                               conf \in Configs}
    IN  IF p \in NotBuilt \/ p \notin Wanted(req) THEN {}
        ELSE IF ~req.all /\ own # {} THEN own
        ELSE configured

Invoke(t) ==
    /\ t \notin waiting
    /\ waiting' = waiting \cup {t}
    /\ \A u \in Threads \ {t} : call'[u] = call[u]
    /\ UNCHANGED <<registry, ret>>

\* Nothing is loaded: bd_init and bd_try_init refuse to initialize twice, and
\* bd_ensure_init has nothing to do.
Decline(t) ==
    /\ initialized
    /\ ret'[t] = (call[t].kind = "ensure")
    /\ \/ call[t].kind \in {"init", "try_init"}
       \/ call[t].kind = "ensure" /\ \A p \in Wanted(call[t].req) : loaded[p] # NULL
    /\ UNCHANGED registry

\* What is kept is kept as it is, everything else is served by a shared object
\* that may serve it or by none.
Load(t) ==
    LET req == call[t].req
        kept(p) == ~call[t].reload /\ loaded[p] # NULL
    IN  /\ ~(initialized /\ call[t].kind \in {"init", "try_init"})
        /\ loaded' \in [Plugins -> SoNames \cup {NULL}]
        /\ \A p \in Plugins :
               IF kept(p) THEN loaded'[p] = loaded[p]
               ELSE loaded'[p] \in MayServe(req, p) \cup {NULL}
        /\ table' = TableOf(loaded')
        /\ initialized' = ((\E p \in Wanted(req) : loaded'[p] # NULL)
                           \/ (~req.all /\ req.specs = <<>>))
        /\ ret'[t] = (\A p \in Wanted(req) : loaded'[p] # NULL)

Respond(t) ==
    /\ t \in waiting
    /\ waiting' = waiting \ {t}
    /\ Decline(t) \/ Load(t)
    /\ \A u \in Threads \ {t} : ret'[u] = ret[u]
    /\ UNCHANGED call

\* The queries of the library change nothing but their own result.
Query(t) ==
    /\ t \notin waiting
    /\ \A u \in Threads \ {t} : ret'[u] = ret[u]
    /\ UNCHANGED <<registry, waiting, call>>

Next == \E t \in Threads : Invoke(t) \/ Respond(t) \/ Query(t)

Spec == Init /\ [][Next]_vars

=============================================================================
