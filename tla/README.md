# A verification model of pfctl-rs

`pfctl` is a Rust library that drives the packet filter of macOS through
ioctls on `/dev/pf`. It is a client of a kernel that many processes use at
once. A call of the library is usually several ioctls, nothing locks the device
between them, and a process can die between any two. What the library can get
wrong, and what its tests (one process, one thread, no failing ioctl) hardly
reach, is therefore what happens *between* the ioctls. This project models that.

Paths below are those of the repository with `src/` for its root.

## Inventory

| component | source | state | operations | what makes it correct |
|---|---|---|---|---|
| pf device (external) | `src/src/ffi/mod.rs` | active and inactive rules of each ruleset, two tickets per ruleset, one address buffer with a ticket, state table, anchor rules | the ioctls | each ioctl is atomic; stale tickets are refused |
| `Transaction`, `AnchorChange` | `src/src/transaction.rs` | the changes by anchor | `add_change`, `commit` | all or nothing; rules reach the right ruleset in order with their own address |
| rule calls of `PfCtl` | `src/src/lib.rs:339-433`, `src/src/utils.rs` | none | `set_rules`, `flush_rules`, `add_rule`, `add_nat_rule`, `add_redirect_rule`, `add_scrub_rule` | as above, one rule |
| state calls of `PfCtl` | `src/src/lib.rs:435-492`, `565-648` | a snapshot held across ioctls | `get_states`, `kill_state`, `clear_states`, `clear_interface_states` | return and remove the right states, and count them |
| anchor rules | `src/src/lib.rs:308-337`, `577-602` | none | `add_anchor`, `remove_anchor`, `try_` variants | the right error; the lookup ends |
| error kinds | `src/src/macros.rs`, `src/src/lib.rs:97-231` | none | `ioctl_guard!`, `ignore_error_kind!` | a failed ioctl is never a success |
| enable, disable | `src/src/lib.rs:277-306` | none | `enable`, `disable`, `try_` variants, `is_enabled` | one of several clients hears that it made a change; `try_` is idempotent |
| interfaces | `src/src/lib.rs:494-563` | a buffer that grows | `get_interfaces`, `set_interface_flag`, `clear_interface_flag` | the list is complete |
| rule encoding | `src/src/rule/*.rs` | none | `try_copy_to` of every rule type | invalid combinations are rejected, families agree |
| `PoolAddrList` | `src/src/pooladdr.rs` | linked C structures | `new`, `to_palist` | pointers outlive the ioctl |
| state accessors | `src/src/state.rs` | none | reads of one record | show the connection a rule was meant for |
| bindings, tests, examples | `src/src/ffi/pfvar.rs`, `src/tests`, `src/examples` | | | |

Components interact only through the kernel: `Transaction` and the single-rule
calls share the address buffer and the rulesets, of their own process and of all
others; `clear_states` and `remove_anchor` share the numbering of anchor rules;
`get_states` and `kill_state` share the state table with the traffic.

The hard behaviours, listed line by line under `hazards` in `PROJECT.json`:
interleaved transactions; the one address buffer; tickets drawn from one
iterator by four loops; failures and crashes halfway with no rollback; snapshots
that are old when they are used; slots the kernel did not write; an 8-bit counter;
lists that are walked while others change them.

## Modules

| module | models | lines of code it stands for |
|---|---|---|
| `PfKernel` | rulesets, tickets and the address buffer of the device (external) | the ioctls the next module issues |
| `PfRules` | every call that changes rules, ioctl by ioctl | `transaction.rs`, `lib.rs:339-433`, `utils.rs` |
| `RulesetStore` | what those calls promise: an atomic store (abstract specification) | doc of `AnchorChange`, `transaction.rs:289-292` |
| `PfStates` | the calls on states and anchor rules | `lib.rs:308-337`, `435-492`, `565-648` |
| `PfDevice` | the switch of the firewall, and the interface calls while interfaces come and go | `lib.rs:277-306`, `494-563`, `macros.rs`, `rule/interface.rs` |
| `PfRuleEncoding` | which rules are refused, and what the kernel reads in the others | `rule/*.rs` |
| `PfStateView` | what a `State` says of a connection; over `PfRuleEncoding` | `state.rs`, `rule/direction.rs`, `rule/proto.rs` |
| `PfPoolList` | the memory of a `PoolAddrList` | `pooladdr.rs` and the calls that use it |
| `MCPfRules`, `MCPfStates`, `MCPfDevice`, `MCPfRuleEncoding` | small instances for TLC | |
| `PfRulesProofs` | type correctness and control flow of `PfRules`, proved | |
| `PfRulesSafety` | tickets and pools of `PfRules`, proved | |
| `PfRulesRefinement` | inactive rulesets of `PfRules` and the refinement of `RulesetStore`, proved | |
| `PfRulesSolo` | one client alone in `PfRules`, proved | |
| `PfStatesProofs` | the order of the state table, snapshots, type correctness and control flow of `PfStates`, proved | |
| `PfStatesSafety` | what `clear_states` removes and counts, and lookups of anchors, proved | |
| `PfDeviceProofs` | all of `PfDevice` but its liveness, proved | |
| `PfRuleEncodingProofs` | all properties of `PfRuleEncoding` and `PfStateView`, proved | |

### PfRules

`pc[c]` is the next ioctl of client `c`'s call, so a step is one ioctl with the
code around it up to the next one:

| `pc` | action | code |
|---|---|---|
| `idle` | `AddChange`, `CommitTransaction`, `SetRules`, `FlushRules`, `AddSingleRule` | the public calls |
| `begin` | `BeginTrans` (`OpenFails`) | `commit` up to DIOCXBEGIN |
| `rule` | `NextRule` | the loops of `commit`; no ioctl |
| `pool` | `PoolTicket` | `get_pool_ticket` |
| `addr` | `AddPoolAddress` | `add_pool_address` and the port conversion after it |
| `add` | `AddTransRule` | DIOCADDRULE |
| `ticket` | `GetTicket` | `get_ticket` |
| `change` | `ChangeRule` | DIOCCHANGERULE |
| `commit` | `CommitTrans` | DIOCXCOMMIT |

`elems`, `tickets`, `elem`, `nrule` are `pfioc_elements`, the tickets in it, and
the positions of the loops. `ElementOrders` is the order of the elements: the
kinds in the order of `commit`, the anchors in an arbitrary order (a `HashMap`'s)
that is the same in each kind. Every `?` is an action: `ConversionFails`
(a name, rule, address or port that does not fit, at the point where *this* call
converts it: `add_nat_rule` and `add_redirect_rule` convert before their first
ioctl, `add_rule` and `add_scrub_rule` before their last), `TicketRefused`
(EBUSY), `IoctlFails` (any other errno) and `OpenFails`. `Crash` ends a process
anywhere; `Succeed` is the end of a call's last ioctl, where the process either
returns or dies with the ioctl's work done. Nothing is rolled back, as in the code, which never uses DIOCXROLLBACK.

Data is abstract: a rule is a model value with a kind, an optional pool address
and at most one conversion that fails; a name is long or not.

### PfStates

A state is a model value with the anchor whose rule created it and a *class*:
what a kill request can tell apart (family, protocol and interface; it has no
ports, and its addresses have no masks). `Traffic` and `Expire` are the kernel;
the anchor rules of each kind are a sequence, so that inserting or deleting one
renumbers the others, and an exported state carries the number its filter anchor
has at that moment. `table` is the set of the states there are and `created` the
order in which all states there ever were came: the place of a state in an export
(`Rank`) is the number of those created before it that are still there. `todo` is
the set of slots of the snapshot that `clear_states` still has to kill, lowest
first. Where an anchor rule is inserted is left open.
An anchor name can be too long for its field, and an interface name too; a lookup
only compares the name, so `remove_anchor` and `clear_states` do not refuse it.
`removed`,
`present` and `moved` (the calls that others have moved anchor rules under) are
history variables; no action reads them.

| `pc` | action | code |
|---|---|---|
| `idle` | `StartCall` | the public calls |
| `count`, `fetch` | `CountStates`, `FetchStates` | the two DIOCGETSTATES of `get_states_inner` |
| `rules`, `rule` | `GetRules`, `GetRule`, `RuleGone`, `AnchorNotFound` | `with_anchor_rule` |
| `kill` | `KillNext`, `KillsDone` | the closure of `clear_states` |
| `killOne`, `clearInterface` | `KillState`, `ClearInterfaceStates` | `kill_state`, `clear_interface_states` |
| `insert`, `delete` | `InsertAnchor`, `DeleteAnchor` | `add_anchor`, `remove_anchor` |
| `insert`, `clearInterface` | `NameRefused` | the conversions before their ioctls |

Two things the code decides are modelled on purpose as they are: slots that the
second DIOCGETSTATES did not write stay zero and are used like states
(`Phantom`), and a zero request matches everything.

### PfDevice

`Enable`, `Disable` and `IsEnabled` are one ioctl each; `Guarded` is `ioctl_guard`
with the error number that says "already so", which differs between DIOCSTART and
DIOCSTOP, and `Ignoring` is `ignore_error_kind`. `FetchInterfaces` is the ioctl of
`get_interfaces`; `Retry` and `Finish` are the two branches of its loop. The
buffer is the set of entries the kernel wrote and the number of zeroed slots after
them. Which entries the kernel writes when there is no room for all is left open.
An interface in `Unreadable` has a name that is no UTF-8, so no caller can select it
and a list that contains it is an error as a whole (`Described`).
`seen` and `most` are history variables.

### PfPoolList

`memory` maps each live object (array entry, local copy, list head) to what it
contains; a pointer is the name of an object. An action ends where the code's
scope ends, and what was on its stack leaves `memory`. The users of a list differ
in when they drop its owner: `add_nat_rule` before its ioctl, the others after.

### PfRuleEncoding

The pure part of the library, as operators: the chain of `compatible_af`, the
state policies, `try_copy_to` of ports (network order in a rule, host order in a
pool), users, addresses, ICMP types and C strings, and the order of the checks.
The state machine around them is the builder: `Set` writes a field, `Convert`
builds and converts. Each field has the type the code gives it (`FieldTypes`), so
that `Values`, what a caller puts into it, can be anything of that type. An address
with a prefix is the sequence of its words and how many of them count. The reference is semantic: `Means` says which packets the
caller meant, in terms of families, networks and sets of numbers, and
`KernelMatches` (external) which packets the kernel takes the `pf_rule` for;
`Verdict` and `KernelVerdict` do the same for what becomes of a packet.
`PfStateView` follows such a packet into the state table and back: `PfsyncState`
(external) is what the kernel exports, and the accessors read it.
`PfRules` uses none of this; it only knows whether and where a conversion fails.

## Runs

| run | question | result |
|---|---|---|
| `concurrent` | two clients, two changes of one anchor with two kinds, flushes, single rules, faults and crashes | atomic (`AtomicStore`), own addresses (`PoolsMatch`), `TicketsExclusive`, `StagedPrefix`; every call ends (`CallsReturn`, under fairness) |
| `solo` | one client, no fault, two calls, three anchors, three kinds, rules and a name that do not convert | no self-inflicted refusal (`NoSelfConflict`), `AtomicStore`, `PoolsMatch` |
| `states_traffic` | clearing while connections come and go and anchor rules move | complete unless they moved (`ClearCompletesUnlessMoved`), spares the others (`ClearSparesOthers`), exact below 256 (`CountExactIfItFits`) |
| `states_return` | all operations of two clients on anchors of two kinds, faults | `TypeOK`, `LookupExact`, `CallsReturn` |
| `encoding` | callers that vary families and networks, ports, targets, actions, or the other fields | `MatchesAsMeant`, `VerdictAsMeant`, `RefusedForCause`, `RefusedRulesAreVoid`, `PoolAsMeant`, `TextKept`, `StateReadsBack` |
| `device` | two clients switch the firewall and list interfaces that come and go, faults | `TypeOK`, `SwitchAnswers`, `ListIsReal`, `CompleteUnlessOvertaken`, `CallsReturn` |

Violations, each a disagreement between a doc comment and the code:

| run | what the code does | what the doc says |
|---|---|---|
| `states_phantom` | `get_states` returns a zeroed entry when a state expired between its two ioctls (`lib.rs:570`) | "Get all states created by stateful rules" (`lib.rs:471`) |
| `states_kill` | `kill_state` also kills other connections: the request has no ports, and addresses without masks (`lib.rs:641-646`); `clear_states` kills states of other anchors in the same way | "Remove the specified state." (`lib.rs:484`) |
| `states_renumber` | `clear_states` returns Ok and leaves the anchor's states when an anchor rule was removed after the snapshot (`lib.rs:439`) | "Clear states created by rules in anchor." (`lib.rs:435`) |
| `states_count` | 256 removed states are reported as 0 (`lib.rs:450`, `468`) | "Returns total number of removed states" (`lib.rs:436`, `461`) |
| `states_wipe` | when a state expires between the two ioctls, `clear_states` of the first anchor takes the zeroed slot for a state of rule number 0 and kills every state (`lib.rs:443`, `570`) | "Clear states created by rules in anchor." (`lib.rs:435`) |
| `poollist` | the list head points to locals of `create_palist` (`pooladdr.rs:118-128`) | "to make sure that pointers used in pf_palist reference the valid memory" (`pooladdr.rs:65-66`) |

The pointers of `poollist` do no harm today: the kernel takes the address that
was registered with DIOCADDADDR and does not follow the list.

### Bounds

- `MaxCalls` bounds the calls of a client. Two clients with one call each meet
  every overlap of two calls; one client with two calls meets what a call leaves
  for the next one. Crashes and failures add the half-done predecessor.
- Transactions in `concurrent` have up to two kinds and two rules, so that a
  ticket can be taken for the wrong ruleset and a loop counter for the wrong
  element; three anchors are in `solo`, where the order of anchors matters and
  another client does not.
- Three states in `states_traffic`, one of them there from the start: two that a
  kill request cannot tell apart and one it can. Each state is created at most once,
  which bounds the table. There are two anchors and a third name that is too long;
  interfaces are cleared by name and all at once.
- `states_count` has exactly 256 states, the smallest number that wraps.
- `states_return` gives two calls to one client, so that it can kill a state it
  got, and one to the other; two anchors and one state, which is enough for a walk
  that is overtaken.
- `device` has a buffer for one interface and up to three interfaces, so
  that the first buffer and the second one can both be too small; the name of one
  of them cannot be read.
- `encoding` has bytes of three values and IPv6 addresses of two words: enough
  for a port whose bytes differ, for a prefix inside an address, and for an IPv6
  address that starts like an IPv4 address; of the TCP flags it uses two. Ports are 0, 1, the first two-byte
  ports and the largest. One caller per group of fields; the conversion treats
  the groups apart except for the order of its checks.
- Clients are symmetric; `states_traffic`, which checks no liveness, uses that.
- Deadlock is checked only in `encoding`: clients that have used up `MaxCalls` stop.

### Fairness

`WF_vars(Step(c))`: a process inside a call keeps being scheduled and the kernel
answers each ioctl. Nobody is obliged to start a call, to crash, or to meet a
fault, and the kernel is not obliged to create or expire states. The loops of the
code have no waiting in them, so weak fairness of each client is all it needs.

## Assumptions about the kernel

- Tickets are never reissued (they are 32-bit counters).
- DIOCXBEGIN empties the inactive ruleset and issues a new ticket for it;
  DIOCXCOMMIT checks all tickets before it swaps anything; an accepted rule takes
  the addresses in the buffer and leaves it empty.
- DIOCXCOMMIT gives the active ruleset the ticket of the transaction.
- DIOCGETRULE is not refused because of an older ticket.
- DIOCGETSTATES writes the oldest states first when the buffer is too small, and a
  state whose anchor rule is gone has no number. The number is that of the filter
  anchor.
- A kill request with a zero family, protocol or interface name matches any, and an
  address with a zero mask matches every address. So does DIOCCLRSTATES with an empty
  interface name.
- A proxy port of zero leaves the port of a packet alone.
- DIOCSTART fails with EEXIST when the firewall is on, DIOCSTOP with ENOENT when it
  is off.
- DIOCIGETIFACES writes entries while there is room and reports how many match.
- The kernel compares only the words of a packet's family, takes a zero ICMP type
  or code for any, and reads the ports of a rule in network order and those of a
  pool in host order, as a port or an interval. It compares the flags of a TCP packet
  that are in `flagset` with `flags`. The machine is little-endian.
- A state shows the end on this machine as `lan`, whichever way the first packet went.
- EEXIST of a rule ioctl would be reported as `StateAlreadyActive`; `PfRules` keeps
  it under `Ioctl`, a failure like the others.

## Proofs

Every invariant and every action property that a passing run checks is also
proved by TLAPS, for every value of the constants that satisfies the `ASSUME`s of
its module:

- `PfRules`: any clients, any finite set of anchors, any rules, changes and number
  of calls, with or without faults. A rule has at most one pool address, and only
  the conversions its kind has can fail.
- `PfStates`: any clients, any finite set of states with any owners and classes,
  any table and any anchor rules (each name once per kind) to begin with.
- `PfDevice`: any clients, any finite set of interfaces, any first buffer and at
  least one retry (the code has one).
- `PfRuleEncoding`: any size of a byte, of an IPv6 address and of the buffers, any
  callers that give the fields values of their types, any well-formed packets.

| theorem | module | statement |
|---|---|---|
| `TypeCorrect` | `PfRulesProofs` | `Spec => []TypeOK` |
| `ControlCorrect` | `PfRulesProofs` | `Spec => [](TypeOK /\ Control)` |
| `Exclusive` | `PfRulesSafety` | `Spec => []TicketsExclusive` |
| `PoolsCorrect` | `PfRulesSafety` | `Spec => []PoolsMatch` |
| `StagedCorrect` | `PfRulesRefinement` | `Spec => []StagedPrefix` |
| `Implements` | `PfRulesRefinement` | `Spec => AtomicStore` |
| `Inductive` | `PfRulesRefinement` | `(Init => IInv) /\ (IInv /\ [Next]_vars => IInv')` |
| `SoloNeverRefused` | `PfRulesSolo` | `Spec => []NoSelfConflict` |
| `TypeCorrect` | `PfStatesProofs` | `Spec => []TypeOK` |
| `Invariant` | `PfStatesSafety` | `Spec => []IInv` |
| `ClearsAll` | `PfStatesSafety` | `Spec => ClearCompletesUnlessMoved` |
| `ClearsAllIfAnchorsStay` | `PfStatesSafety` | `Spec => ClearCompletes` if no call adds or removes anchors |
| `Spares` | `PfStatesSafety` | `Spec => []ClearSparesOthers` |
| `Counts` | `PfStatesSafety` | `Spec => CountExactIfItFits` |
| `CountsFewStates` | `PfStatesSafety` | `Spec => CountExact` if there are fewer than 256 states |
| `Lookups` | `PfStatesSafety` | `Spec => LookupExact` |
| `TypeCorrect` | `PfDeviceProofs` | `Spec => []TypeOK` |
| `Invariant` | `PfDeviceProofs` | `Spec => []IInv` |
| `ListsReal` | `PfDeviceProofs` | `Spec => []ListIsReal` |
| `ListsComplete` | `PfDeviceProofs` | `Spec => []CompleteUnlessOvertaken` |
| `AnswersRight` | `PfDeviceProofs` | `Spec => SwitchAnswers` |
| `Invariant` | `PfRuleEncodingProofs` | `Spec => []IInv` |
| `RefusalsJustified` | `PfRuleEncodingProofs` | `Spec => []RefusedForCause` |
| `RefusedAreVoid` | `PfRuleEncodingProofs` | `Spec => []RefusedRulesAreVoid` |
| `MatchesMeant` | `PfRuleEncodingProofs` | `Spec => []MatchesAsMeant` |
| `VerdictsMeant` | `PfRuleEncodingProofs` | `Spec => []VerdictAsMeant` |
| `PoolMeant` | `PfRuleEncodingProofs` | `Spec => []PoolAsMeant` |
| `TextsKept` | `PfRuleEncodingProofs` | `Spec => []TextKept` |
| `StatesReadBack` | `PfRuleEncodingProofs` | `Spec => []StateReadsBack` |

Each `IInv` was first checked by TLC as an invariant of the small instances.

### The calls on rules

No property is inductive alone. `Control` says what each
position of a call implies (which elements it has, that every ruleset of the
transaction is there once, how far the counters can be); the type of the current
rule and ruleset follows from it, so type correctness and `Control` are proved
together. `TicketsIssued` says that tickets held are at most the kernel's
counter, so a ticket issued now differs from all that are held: that gives
`TicketsExclusive`. `PoolStaged` says that as long as a client's buffer ticket
is current the buffer holds exactly what that client put there: only a step made
with the current ticket touches the buffer, nobody else holds that ticket, and so
the buffer is untouched until the rule takes it; that gives `PoolsMatch`.

`StagedPrefix` needs both: an inactive ruleset changes only in DIOCXBEGIN,
DIOCADDRULE and DIOCXCOMMIT. The first issues a ticket that nobody else holds, so
every other transaction is stale; the others are accepted only with the current
ticket, whose owner's progress they follow.

The refinement follows. When a call is about to commit, its progress in each of
its rulesets is all of the rules, so by `StagedPrefix` the swap of DIOCXCOMMIT
installs exactly what the call asked for: a step `Take` of `RulesetStore`,
whether the process lives to return or not. DIOCCHANGERULE appends the one rule of a single-rule call. Every other step leaves
the active rulesets alone and is an invocation, a refusal or a stutter. `IInv` is
the conjunction of all these parts.

`NoSelfConflict` has a strengthening of its own, `SoloInv`: the tickets of a client
that is alone are the current ones whenever it is about to use them. It holds
because no step between the taking and the use of a ticket issues another one of
the same counter; the buffer's ticket, which every rule takes anew, is taken after
the elements' and does not touch them.

### The calls on states and anchors

`IInv` says of each call under way, whatever the others and the traffic do:

- `ControlAt`: which call it is. The lookup of an anchor rule serves two.
- `LookupAt`: no rule that was passed has the name, as long as rules of the kind
  did not move. At the end of the walk that is all of them.
- `SnapshotAt`: a state that was there when the call started, and still is, is
  among the `num` oldest, then in the snapshot under the number of its anchor, then
  among the slots to kill. It needs that a state only gets nearer to the head of
  the table (`RankFalls`), that no two have the same place (`RankInjective`), and
  hence that the export of `n` slots has every state among the `n` oldest
  (`ExportComplete`).
- `SlotsAt`: a slot that was written carries the number that its anchor still has,
  and one that is to be killed is of the anchor. This is the converse of
  `SnapshotAt`; `ClearSparesOthers` follows.
- `CountAt`: the states that were removed are gone for good (a state is created
  once), so two requests remove disjoint sets and the sum is the size of the union,
  if that fits.

`moved` is in each of these because without it none is true: the run
`states_renumber` shows what happens. `ClearsAllIfAnchorsStay` says that this is
the only obstacle to what the documentation of `clear_states` promises, and
`CountsFewStates` names the only one to `CountExact`. The violation of
`KillsOnlySpecified` has no such companion: states that a request cannot tell apart
are the normal case (any two connections of one protocol over one interface), so
there is no useful condition under which `kill_state` removes just one.

### The device

`ListIsReal` and `CompleteUnlessOvertaken` speak of what `get_interfaces` returned;
`BufferAt` adds what its loop knows on the way: what was written was there at the
last ioctl, is as much as the buffer takes, and the buffer of a second round takes
what the first had to tell. So the loop returns too few only if interfaces appeared
in between. `SwitchAnswers` is an action property; it follows from `ControlAt`,
which says that the client at `switch` is in one of the four calls.

### Rules and states, encoded

The inductive invariant is short (the rule is typed; the result is that of the rule
as it is now), and the work is in the lemmas about the operators, each of which
compares what the code computes with its reference:

- `RuleAfIs`, `ClashIs`: the chain of `compatible_af`, pair by pair, gives the one
  family that the rule names, and fails if and only if it names two.
- `ConvertedIs`: the order of the eight checks does not matter for whether a rule
  is refused, only for which of its causes is reported.
- `ToBeTwice`, `OpIs`: swapping the bytes of a port twice gives the port, for any
  size of a byte, so that the kernel's comparison is the one meant.
- `AddrMatchesIs`: comparing under a mask, over all the words of the union, is
  comparing the words that count.
- `IcmpIs`, `FlagsAre`: storing types and codes one higher hides none behind zero;
  flags that are not in the mask.
- `CStringOfBuffer`: a text comes back from its buffer exactly if it is shorter.
- `AddressReadsBack`: an address that was stored in the union, with padding, is
  read back from the family's share of it.

### Only model-checked

- `CallsReturn` in three modules: liveness under fairness is out of the prover's
  reach here.
- The violations: each is a counterexample that TLC finds.
- `PfPoolList`: its one property is violated, so there is nothing to prove.

## Not modelled, and the plan

Not modelled: the C layouts in `pfvar.rs` (generated), the formatting of errors,
the tests and examples, and opening `/dev/pf`. Left out of what is modelled:

- Arithmetic on the number of states (`lib.rs:608`, `619`) in 32 bits; it would
  overflow with millions of states.
- The route of `add_rule`: the rule goes to the kernel with an empty pool, as in the
  code (`lib.rs:346`), and `PoolsMatch` exempts it. The tests say that only
  transactions support a route (`src/tests/filter_rules.rs:133-134`).
- The ICMP answer of a rule that drops (`rule_action.rs:52-57`): the library sets
  the flag and leaves `return_icmp` and `return_icmp6` zero, and what the kernel
  then sends is not in this repository.
- Operators other than a port or an interval as target ports, and an ICMP type in
  a rule for another protocol: accepted by the library, and then up to the kernel.

Every component with state is modelled. What is left to prove:

1. `SnapshotIsReal` under the condition that makes it true (no state leaves between
   the two ioctls); it needs a history of the states that left, and that the export
   of as many slots as there are states fills them all.
2. A refinement for `PfDevice`: the four switch calls implement an atomic switch that
   tells each caller whether it was the one that turned it.
3. What `PfPoolList` gets right: the entries of the array are never linked, so no
   pointer inside it dangles, and the list of the NAT call is gone before its ioctl.
