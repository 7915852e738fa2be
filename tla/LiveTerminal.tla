---------------------------- MODULE LiveTerminal ----------------------------
(***************************************************************************)
(* The live side of web_app.py: readiness, order previews, submits and the *)
(* kill switch of the server process.  Previews and the switch live in the *)
(* memory of the process, the settings in its environment, so a restart    *)
(* forgets the first and may change the second; the instrument file and    *)
(* the margins at the broker change at any time.                           *)
(*                                                                         *)
(* Prices and margins are numbers, NaN (what float() makes of the text     *)
(* "nan"), or NoNumber where the broker's answer holds none.               *)
(***************************************************************************)
EXTENDS Integers, Sequences

CONSTANTS
  Settings,    \* [key, secret, token, user, live, manual, kill, submit, whitelist, most]
  LiveOrders,  \* bodies of a preview: [symbol, nse, side, limit, product, quantity, price]
  Confirms,    \* the rest of a submit's body: [typed, approval]
  Margins,     \* the broker's answer: [reason, required, available]
  MaxPreviews,
  NaN, NoNumber

ASSUME NumbersAssumption ==
    /\ NaN \notin Int /\ NoNumber \notin Int /\ NaN # NoNumber
    /\ \A s \in Settings : s.most \in Int
    /\ \A o \in LiveOrders : o.quantity \in Int
    /\ \A m \in Margins : {m.required, m.available} \subseteq Int \cup {NaN, NoNumber}

VARIABLES
  settings,      \* os.environ of the running process
  instrumentFile, \* whether the instrument dump is there and not empty
  webKill,       \* _KILL_SWITCH_ENABLED
  previews,      \* _PREVIEWS; a preview's id is its place
  submitted      \* the answer of a submit just made, with what it was about

liveTerminalVars == <<settings, instrumentFile, webKill, previews, submitted>>

\* A comparison with NaN is false.
Below(a, b) == a # NaN /\ b # NaN /\ a < b

KillSwitchActive == webKill \/ settings.kill

\* _live_block_reasons of _live_readiness.
ReadinessReasons ==
    {r \in {"credentials", "token", "user", "instruments", "live", "manual", "kill"} :
        \/ r = "credentials" /\ ~(settings.key /\ settings.secret)
        \/ r = "token" /\ ~settings.token
        \/ r = "user" /\ ~settings.user
        \/ r = "instruments" /\ ~instrumentFile
        \/ r = "live" /\ ~settings.live
        \/ r = "manual" /\ ~settings.manual
        \/ r = "kill" /\ KillSwitchActive}

\* _live_margin_check, with the client of _kite_client_from_env.
MarginReasons(m) ==
    IF ~(settings.key /\ settings.token) THEN {"no client"}
    ELSE IF m.reason # "none" THEN {m.reason}
    ELSE IF m.required = NoNumber \/ m.available = NoNumber THEN {"no margin"}
    ELSE IF Below(m.available, m.required) THEN {"margin"} ELSE {}

OrderReasons(o) ==
    {r \in {"exchange", "side", "type", "product", "quantity", "most", "price", "symbol"} :
        \/ r = "exchange" /\ ~o.nse
        \/ r = "side" /\ o.side \notin {"BUY", "SELL"}
        \/ r = "type" /\ ~o.limit
        \/ r = "product" /\ o.product \notin {"MIS", "CNC"}
        \/ r = "quantity" /\ o.quantity < 1
        \/ r = "most" /\ o.quantity > settings.most
        \/ r = "price" /\ o.price # NaN /\ o.price <= 0
        \/ r = "symbol" /\ o.symbol \notin settings.whitelist}

PreviewOf(o, m) ==
    [order |-> o, margin |-> m,
     reasons |-> ReadinessReasons \cup OrderReasons(o) \cup MarginReasons(m)]

\* _live_order_submit, but for its last reason, given when there is no other.  No submit
\* ever stores an idempotency key, so none is ever found used.
SubmitReasons(id, c) ==
    {r \in {"unknown", "typed", "approval", "disabled"} :
        \/ r = "unknown" /\ id \notin DOMAIN previews
        \/ r = "typed" /\ ~c.typed
        \/ r = "approval" /\ ~c.approval
        \/ r = "disabled" /\ ~settings.submit}
    \cup ReadinessReasons
    \cup (IF id \in DOMAIN previews THEN previews[id].reasons ELSE {})

-----------------------------------------------------------------------------
LiveTerminalInit ==
    /\ settings \in Settings /\ instrumentFile \in BOOLEAN
    /\ webKill = FALSE /\ previews = <<>> /\ submitted = <<>>

PreviewLiveOrder ==
    /\ Len(previews) < MaxPreviews
    /\ \E o \in LiveOrders, m \in Margins : previews' = Append(previews, PreviewOf(o, m))
    /\ submitted' = <<>>
    /\ UNCHANGED <<settings, instrumentFile, webKill>>

\* The answer is BLOCKED whatever the reasons.
SubmitLiveOrder ==
    /\ \E id \in 0 .. MaxPreviews, c \in Confirms :
          submitted' = <<[id |-> id, confirm |-> c, reasons |-> SubmitReasons(id, c)]>>
    /\ UNCHANGED <<settings, instrumentFile, webKill, previews>>

SetWebKill ==
    /\ webKill' \in BOOLEAN
    /\ submitted' = <<>>
    /\ UNCHANGED <<settings, instrumentFile, previews>>

InstrumentsChange ==
    /\ instrumentFile' = ~instrumentFile
    /\ submitted' = <<>>
    /\ UNCHANGED <<settings, webKill, previews>>

\* Mutant: the previews of the old process are kept.
ServerRestarts_KeepsPreviews ==
    /\ settings' \in Settings
    /\ webKill' = FALSE /\ submitted' = <<>>
    /\ UNCHANGED <<instrumentFile, previews>>

\* The switch set through the page is forgotten, too.
ServerRestarts ==
    /\ settings' \in Settings
    /\ webKill' = FALSE /\ previews' = <<>> /\ submitted' = <<>>
    /\ UNCHANGED instrumentFile

LiveTerminalNext ==
    \/ PreviewLiveOrder \/ SubmitLiveOrder \/ SetWebKill \/ InstrumentsChange \/ ServerRestarts

LiveTerminalSpec == LiveTerminalInit /\ [][LiveTerminalNext]_liveTerminalVars

-----------------------------------------------------------------------------
\* When nothing but the deliberate refusal (_live_order_submit's last reason) stands in a
\* submit's way, its preview was made by this process when everything was ready and the
\* order within the settings now in force, and everything is ready again at the submit.
OnlyRefusalRemains ==
    (submitted # <<>> /\ submitted[1].reasons = {}) =>
        LET id == submitted[1].id
        IN /\ id \in DOMAIN previews
           /\ submitted[1].confirm.typed /\ submitted[1].confirm.approval
           /\ settings.submit /\ settings.live /\ settings.manual
           /\ ~settings.kill /\ ~webKill /\ instrumentFile
           /\ LET o == previews[id].order
              IN o.symbol \in settings.whitelist /\ o.quantity \in 1 .. settings.most

\* A preview that was clean when it was made had the broker's own figures to rest on, and
\* the money was there: a figure that is missing never counts as enough.
CleanPreviewIsCovered ==
    \A id \in DOMAIN previews : previews[id].reasons = {} =>
        LET m == previews[id].margin
        IN /\ m.reason = "none" /\ NoNumber \notin {m.required, m.available}
           /\ NaN \notin {m.required, m.available} => m.required <= m.available

\* What blocked a preview still blocks its submit when the cause is gone: turning the
\* switch off or repairing the file clears no preview made before.
BlockedStaysBlocked ==
    (submitted # <<>> /\ submitted[1].id \in DOMAIN previews) =>
        previews[submitted[1].id].reasons \subseteq submitted[1].reasons

\* A preview rests on the broker's figures, a submit on its preview, and both on what is in
\* force: only the deliberate refusal may remain.
PreviewsSound == OnlyRefusalRemains /\ CleanPreviewIsCovered /\ BlockedStaysBlocked
=============================================================================
