--------------------------- MODULE GatewayDevices ---------------------------
(***************************************************************************)
(* The gateway's device registry (agentgw/src/devices.rs): one JSON file   *)
(* that `agentgw device add` and `revoke`, processes of their own, read,   *)
(* change and replace under an flock, and that the gateway reads again for *)
(* every request that carries a bearer token (require_auth, main.rs).      *)
(*                                                                         *)
(* A device id is a sequence, since revoke takes a prefix of one. A token  *)
(* is named by the device it was made for. Processes may be killed between *)
(* any two steps; a power loss is not modelled.                            *)
(***************************************************************************)
EXTENDS Naturals, FiniteSets, Sequences

CONSTANTS DeviceIds,          \* device ids, in the order they are minted
          Given,        \* what an operator may give to revoke
          Commands,     \* the device commands that may run at once
          MaxCommands   \* commands in one behaviour

VARIABLES file,         \* devices.json: id -> entry
          lock,         \* holders of the flock on devices.lock
          cmd,          \* the running commands
          minted, ran,  \* ids handed out, commands started
          gate,         \* how the gateway was started
          request,      \* the request it serves
          added, revoked, tried   \* reported additions and revocations; revocations begun

devicesVars == <<file, lock, cmd, minted, ran, gate, request, added, revoked, tried>>

Master == <<"master">>
Unknown == <<"unknown">>
Unauthorized == <<"401">>
Unavailable == <<"503">>
Admin == <<"admin">>
Local == <<"local">>
LocalDevice == <<"gateway">>

Letters == UNION {{d[i] : i \in DOMAIN d} : d \in DeviceIds}

\* Device ids are texts, and none is one of the gateway's own names.
ASSUME DeviceAssumption ==
    /\ DeviceIds \subseteq Seq(Letters)
    /\ DeviceIds \cap {Master, Unknown, Unauthorized, Unavailable, Admin, Local,
                      LocalDevice} = {}

Bearers == {{}, {Master}, {Unknown}} \cup {{d} : d \in DeviceIds}
Idle == [pc |-> "idle"]

token_hash(t) == <<"sha256">> \o t

DevicesInit ==
    /\ file = <<>> /\ lock = {} /\ cmd = [c \in Commands |-> Idle]
    /\ minted = {} /\ ran = 0
    /\ gate \in [auth_token : {{}, {Master}}, devices_file : BOOLEAN, loopback : BOOLEAN]
    /\ request = Idle
    /\ added = {} /\ revoked = {} /\ tried = {}

-----------------------------------------------------------------------------
(* The commands.                                                           *)

Exit(c) == cmd' = [cmd EXCEPT ![c] = Idle] /\ lock' = lock \ {c}

add(c) ==
    /\ cmd[c] = Idle /\ ran < MaxCommands
    /\ \E d \in DeviceIds \ minted :
        /\ minted' = minted \cup {d}
        /\ cmd' = [cmd EXCEPT ![c] = [pc |-> "flock", op |-> "add", id |-> d]]
    /\ ran' = ran + 1
    /\ UNCHANGED <<file, lock, gate, request, added, revoked, tried>>

revoke(c) ==
    /\ cmd[c] = Idle /\ ran < MaxCommands
    /\ \E p \in Given : cmd' = [cmd EXCEPT ![c] = [pc |-> "flock", op |-> "revoke", prefix |-> p]]
    /\ ran' = ran + 1
    /\ UNCHANGED <<file, lock, minted, gate, request, added, revoked, tried>>

update_Unlocked(c) ==
    /\ cmd[c].pc = "flock"
    /\ lock' = lock \cup {c}
    /\ cmd' = [cmd EXCEPT ![c].pc = "load"]
    /\ UNCHANGED <<file, minted, ran, gate, request, added, revoked, tried>>

\* update: the lock is held from before load until after save.
update(c) ==
    /\ cmd[c].pc = "flock" /\ lock = {}
    /\ lock' = {c}
    /\ cmd' = [cmd EXCEPT ![c].pc = "load"]
    /\ UNCHANGED <<file, minted, ran, gate, request, added, revoked, tried>>

\* The ids a prefix matches; revoke wants exactly one.
Matches(reg, p) ==
    {d \in DOMAIN reg : Len(p) <= Len(d) /\ SubSeq(d, 1, Len(p)) = p}

\* The closures of add and revoke.
Edited(reg, op, d) ==
    IF op = "add"
    THEN [x \in DOMAIN reg \cup {d} |->
            IF x = d THEN [token_hash |-> token_hash(d), enabled |-> TRUE] ELSE reg[x]]
    ELSE [reg EXCEPT ![d].enabled = FALSE]

\* load, then the command's closure on what was read.
load(c) ==
    /\ cmd[c].pc = "load"
    /\ LET chosen == IF cmd[c].op = "add" THEN {cmd[c].id} ELSE Matches(file, cmd[c].prefix)
       IN  \/ /\ Cardinality(chosen) = 1
              /\ LET d == CHOOSE x \in chosen : TRUE
                 IN  /\ cmd' = [cmd EXCEPT ![c] = [pc |-> "save", op |-> cmd[c].op, id |-> d,
                                                   reg |-> Edited(file, cmd[c].op, d)]]
                     /\ tried' = IF cmd[c].op = "revoke" THEN tried \cup {d} ELSE tried
              /\ UNCHANGED lock
           \/ Exit(c) /\ UNCHANGED tried      \* unreadable, no match or ambiguous
    /\ UNCHANGED <<file, minted, ran, gate, request, added, revoked>>

\* save: a temporary file of its own is written and renamed over the registry,
\* or one of the steps fails and the registry stays.
save(c) ==
    /\ cmd[c].pc = "save"
    /\ \/ file' = cmd[c].reg /\ cmd' = [cmd EXCEPT ![c].pc = "saved"] /\ UNCHANGED lock
       \/ Exit(c) /\ UNCHANGED file
    /\ UNCHANGED <<minted, ran, gate, request, added, revoked, tried>>

\* The lock is released and the outcome printed.
cli(c) ==
    /\ cmd[c].pc = "saved"
    /\ added' = IF cmd[c].op = "add" THEN added \cup {cmd[c].id} ELSE added
    /\ revoked' = IF cmd[c].op = "revoke" THEN revoked \cup {cmd[c].id} ELSE revoked
    /\ Exit(c)
    /\ UNCHANGED <<file, minted, ran, gate, request, tried>>

\* The kernel drops the flock of a process that dies.
Kill(c) ==
    /\ cmd[c] # Idle /\ Exit(c)
    /\ UNCHANGED <<file, minted, ran, gate, request, added, revoked, tried>>

-----------------------------------------------------------------------------
(* The gateway.                                                            *)

Arrive ==
    /\ request.pc # "auth"
    /\ \E b \in Bearers :
        request' = [pc |-> "auth", bearer |-> b, added |-> added, revoked |-> revoked]
    /\ UNCHANGED <<file, lock, cmd, minted, ran, gate, added, revoked, tried>>

authenticate_Revoked(reg, t) == {d \in DOMAIN reg : reg[d].token_hash = token_hash(t)}

\* authenticate: the enabled devices whose hash is the token's.
authenticate(reg, t) ==
    {d \in DOMAIN reg : reg[d].enabled /\ reg[d].token_hash = token_hash(t)}

\* device_caller: who a token stands for, or that the registry is unreadable.
device_caller(t) ==
    IF ~gate.devices_file THEN {Unauthorized}
    ELSE {Unavailable}
         \cup (IF authenticate(file, t) = {} THEN {Unauthorized} ELSE authenticate(file, t))

\* The callers require_auth may pass on, or the status it answers with.
Caller(bearer) ==
    IF bearer = {}
    THEN IF gate.auth_token = {} /\ gate.loopback THEN {Local} ELSE {Unauthorized}
    ELSE IF bearer = gate.auth_token THEN {Admin}
    ELSE IF gate.auth_token # {} \/ gate.devices_file
         THEN device_caller(CHOOSE t \in bearer : TRUE)
    ELSE IF gate.loopback THEN {Local} ELSE {Unauthorized}

\* api_respond_approval: the device an answer is recorded under.
device_id(caller) == IF caller \in {Admin, Local} THEN LocalDevice ELSE caller

require_auth ==
    /\ request.pc = "auth"
    /\ \E caller \in Caller(request.bearer) :
        request' = [pc |-> "answered", bearer |-> request.bearer, added |-> request.added,
                    revoked |-> request.revoked, caller |-> caller,
                    device |-> IF caller \in {Unauthorized, Unavailable} THEN {}
                               ELSE {device_id(caller)}]
    /\ UNCHANGED <<file, lock, cmd, minted, ran, gate, added, revoked, tried>>

DevicesNext ==
    \/ \E c \in Commands :
        add(c) \/ revoke(c) \/ update(c) \/ load(c) \/ save(c) \/ cli(c) \/ Kill(c)
    \/ Arrive
    \/ require_auth

DevicesSpec == DevicesInit /\ [][DevicesNext]_devicesVars

-----------------------------------------------------------------------------
\* The registry, the commands' copies of it and the request have their types.
DevicesTypeOK ==
    /\ DOMAIN file \subseteq minted /\ minted \subseteq DeviceIds
    /\ \A d \in DOMAIN file : file[d] \in [token_hash : {token_hash(d)}, enabled : BOOLEAN]
    /\ lock \subseteq Commands /\ added \cup tried \subseteq minted /\ revoked \subseteq tried
    /\ \A c \in Commands : cmd[c].pc \in {"idle", "flock", "load", "save", "saved"}
    /\ request.pc \in {"idle", "auth", "answered"}

\* "concurrent `device add`/`revoke` invocations can't lose each other's
\* writes" (update): what a command has reported stays in the registry,
\* whoever else edits it and whoever is killed.
RegistryKept ==
    /\ added \subseteq DOMAIN file
    /\ \A d \in revoked : ~file[d].enabled

\* A revocation takes effect without a restart (the module's comment) and
\* nothing else takes a device away: a request that came after the report is
\* never served as that device; a device that was reported and that nobody has
\* begun to revoke is served as itself, or told of an outage; and an answer to
\* an approval is recorded under the device whose token came with it.
Honoured ==
    request.pc = "answered" =>
        /\ request.device \subseteq DeviceIds \cup {LocalDevice}
        /\ \A d \in request.device \cap DeviceIds :
            request.bearer = {d} /\ d \notin request.revoked
        /\ gate.devices_file =>
            \A d \in request.added \ tried :
                request.bearer = {d} => request.caller \in {d, Unavailable}

\* What a command has reported stays in the registry whoever else edits it,
\* and every later request is served accordingly (devices.rs, require_auth).
DevicesHonoured == RegistryKept /\ Honoured
=============================================================================
