# Verification project for Qianli's SIP stack

Qianli is a telephone application for iOS. Its call signalling is done by
doubango (`src/doubango/branches/2.0/doubango`), a SIP stack in C; the
Objective-C application (`src/iPhone/idoubs/branches/2.0`) drives it through
thin wrappers. This project models the part of the stack that decides whether
a call is set up, torn down and cleaned up correctly: the four SIP transaction
state machines and the network between two of them; the dialogs over them, which
make a call, keep a registration, a subscription or a publication alive, and end
it; the layer that keeps the dialogs and shuts them down; and the machinery that
runs all of it (finite state machine, timer manager, locks).

## 1. Inventory

Paths below are relative to `src/doubango/branches/2.0/doubango` unless they
start with `src/`.

| Component | State it keeps | Operations | Talks to |
|---|---|---|---|
| Finite state machine (`tinySAK/src/tsk_fsm.c`) | current state, recursive lock | `tsk_fsm_act`, `tsk_fsm_set_callback_terminated` | runs the handlers of transactions and dialogs under its lock, calls OnTerminated after it |
| Timer manager (`tinySAK/src/tsk_timer.c`, `tsk_condwait.c`, `tsk_runnable.c`) | sorted list of timers, semaphore, condition, queue of due timers | start, stop, schedule, cancel, two threads | calls the callbacks of transactions and dialogs |
| INVITE client transaction (`tinySIP/src/transactions/tsip_transac_ict.c`) | FSM state, timers A B D M, reliability | send, responses, timers, cancel | dialog (deliver), transport (send), timer manager |
| Non-INVITE client transaction (`tsip_transac_nict.c`) | FSM state, timers E F K | send, responses, timers, cancel | the same |
| INVITE server transaction (`tsip_transac_ist.c`) | FSM state, timers G H I L X, last response, acked | requests, responses of the dialog, ACK, timers, cancel | the same |
| Non-INVITE server transaction (`tsip_transac_nist.c`) | FSM state, timer J, last response | requests, responses of the dialog, timer, cancel | the same |
| Transaction layer (`tsip_transac_layer.c`, `tsip_transac.c`) | list of transactions, recursive lock | new, find, remove, cancel_by_dialog, handle_incoming_msg | dialogs, transport layer |
| Dialog base (`tinySIP/src/dialogs/tsip_dialog.c`) | dialog state, tags, route set, lock, current action | request_send, response_send, fsm_act, hangup, shutdown, remove | transactions, dialog layer |
| Dialogs (`tsip_dialog_invite*.c`, `_register*.c`, `_subscribe*.c`, `_publish*.c`, `_message.c`, `_info.c`, `_options*.c`) | one FSM each, refresh and shutdown timers | user actions, incoming messages | transactions, application callbacks |
| Dialog layer (`tsip_dialog_layer.c`) | list of dialogs, shutdown phases | find, new, remove, shutdownAll | dialogs, stack |
| Transport layer and transports (`tinySIP/src/transports`) | transports, peers | start, send, receive callbacks | sockets, transaction and dialog layers |
| Stack (`tinySIP/src/tsip.c`), sessions, events, timers' values | mode, sessions, run queue | start, stop | everything above |
| tinyNET, tinySDP, tinyMEDIA, tinyRTP, tinyMSRP, tinyHTTP, tinyXCAP, tinySMS, tinySIGCOMP, tinyIPSec, tinyDAV | sockets, media sessions, codecs | | the stack |
| iOS application (`src/iPhone/idoubs/branches/2.0`: NgnSipService, NgnAVSession, SipCallManager, SipStackUtils, ...) | registration state, calls | user interface, callbacks of the stack | doubango's C++ bindings |

### What is hard

* **Timers against handlers.** A due timer leaves the manager's list before its
  callback takes the lock of the FSM. A handler that cancels it in between
  cancels nothing, and the callback may find a transaction in another state,
  or none at all.
* **The network.** Requests and responses are lost, repeated and reordered; the
  transactions exist to hide it.
* **Locks.** A handler runs under the lock of its FSM and calls into the dialog,
  which has a lock of its own; the dialog cancels its transactions under its
  lock and that of the layer.
* **Failure of a step.** A handler that cannot send returns an error, and an
  error ends the FSM: whatever the handler had still to do is not done.
* **The end.** OnTerminated runs after the lock of the FSM was given up, and cancels the
  transactions: what they had still to repeat is not repeated.
* **Two users.** A hangup crosses an answer, a CANCEL a 2xx, a BYE another BYE; what one
  side takes for the end the other must come to know of.
* **Leases.** A timer must run out before what the server granted, whatever it grants,
  challenges or notifies, and must not bring back to life what is being removed.
* **Walks over the list of dialogs.** What is told to a dialog may end it, and others come
  and end on other threads; the walk must still come to everyone, and must return.

`PROJECT.json` lists each of these at the line where it bites ("hazards"), with
the properties that would catch it going wrong.

### What makes each component correct

| Component | It is correct if |
|---|---|
| Client transactions | the dialog gets one verdict, and gets it, whatever arrives in whatever order; every wait is watched by a timer; nothing is repeated or acknowledged that should not be |
| Server transactions | one final response is given and kept; repeated requests are absorbed; a missing ACK is reported exactly if it is missing; they go away |
| Both, with the network | the verdict one dialog gets is the answer the other one gave, or a timeout |
| Timer manager | no timer is lost or called twice; a cancel that comes in time holds; a stop returns and frees nothing in use |
| FSM, transaction layer, dialog base, dialog layer | a dialog ends once and leaves no transaction behind; calls return; the locks do not deadlock |
| INVITE dialog | both sides are connected together and end together, a hangup at any point ends, a dead peer is noticed, each application is told one life |
| REGISTER, SUBSCRIBE and PUBLISH dialogs | what is granted is asked for again in time, what is given up is not revived, a shutdown ends it, the application is told one life |
| Dialog layer | registrations are given up last, silent dialogs are gone at the end, a disconnection reaches everyone, a stop returns |
| Transport layer, stack | start and stop in any order leave nothing behind |

## 2. Modules

| Module | Models | Composed of |
|---|---|---|
| `ClientTransac` | what a client transaction promises (abstract) | |
| `TransacICT` | INVITE client transaction | refines `ClientTransac` |
| `TransacNICT` | non-INVITE client transaction | refines `ClientTransac` |
| `TransacIST` | INVITE server transaction | |
| `TransacNIST` | non-INVITE server transaction | |
| `Exchange` | what two transactions promise together (abstract) | |
| `NonInviteTransac` | a non-INVITE request across the network | `TransacNICT`, `TransacNIST`; refines `Exchange` |
| `InviteTransac` | an INVITE across the network, with its ACK | `TransacICT`, `TransacIST`; refines `Exchange` |
| `TimerManager` | `tsk_timer.c` and the runnable under it | |
| `SignalingLocks` | locks of the transaction, its dialog and the two layers | |
| `DialogLife` | what a dialog tells its application (abstract) | |
| `RefreshDialog` | REGISTER, SUBSCRIBE or PUBLISH dialog, and its server | refines `DialogLife` |
| `InviteDialog` | a call: the INVITE dialogs of its two sides | each refines `DialogLife` |
| `DialogLayer` (`MCDialogLayer` for TLC) | the list of dialogs, the shutdown and the signal of a disconnection | |
| `TransacISTProofs`, `TimerManagerProofs`, `SignalingLocksProofs`, `RefreshDialogProofs`, `InviteDialogProofs`, `DialogLayerProofs` | theorems about the module each is named after | |
| `NonInviteProofs` | theorems about the client transaction and the exchange | `TransacNICT`, `NonInviteTransac` |
| `InviteProofs` | theorems about the client transaction and the exchange | `TransacICT`, `InviteTransac` |

The modules meet at their edges. A dialog module takes from the transactions what
`ClientTransac` and `Exchange` promise: one verdict, or a timeout, and that a request is
repeated until it is answered. `DialogLayer` takes from a dialog how it answers to a
shutdown (at once, after an answer, or not at all). `SignalingLocks` is about the locks
under which all of them run, which the others take as given.

### How the state corresponds to the code

**The four transactions.** `state` is `fsm->current`. There is one action per
entry of the FSM's table and it has the name of the handler in the code, as
`Proceeding_2_Completed_X_300_to_699` for
`tsip_transac_ict_Proceeding_2_Completed_X_300_to_699`. Two entries that run the
same code share an operator (`Accept`, `Fail`, `Finish`). What `tsk_fsm_act` does
after the handler has returned is part of the action (`Leave`, or `End`): the FSM
ends if the handler failed or the final state is reached, and then OnTerminated
removes the transaction from the layer and the destructor cancels its timers.

A timer is `armed` while it is on the manager's list and the transaction knows its
id, `late` once the manager's thread has taken it off. Cancelling takes it out of
`armed` and cannot touch `late`: that is what `tsk_timer_manager_cancel` does for
an id it does not find. `Dequeue` is the manager, the timer handlers are the
callback that finds an entry, `TimerIgnored` the one that finds none. The INVITE
client transaction has `orphan` too, the timers whose id was overwritten.

Scheduling is not one step either: `TRANSAC_TIMER_SCHEDULE` stores the id after the timer is
on the list and the manager is awake (`tsip_transac.h:65`), and the callback compares ids
without the lock of the FSM. A timer of length zero - D, K, I and J on a stream - may
therefore call back before its id is known, match nothing and be gone. `Scheduled(t)` is
what is pending afterwards: the timer, or on a stream nothing. (For the other timers the
window is 500 ms and more away from the store.)

`sent` is what was put on the wire, `told` counts what was delivered to the dialog,
`why` records what ended the FSM. They are history as far as a transaction alone
goes; in the compositions `sent` is the network itself. `last` is
`lastResponse`, `acked` is `acked`, `reliable` is `TSIP_TRANSAC(self)->reliable`.

Responses are classes (`1xx`, `2xx`, `3456`, `final`): the tables tell no more
apart. The events `transporterror` and `error` are left out because nothing in the
stack raises them.

**NonInviteTransac, InviteTransac.** Each INSTANCEs the two machines with variables of
its own and passes the network, `toServer` and `toClient`, for their `sent`. An
action of the composition takes a message from the network and runs the handler it
meets. The dialogs are modelled as far as they drive the transactions: the caller's
acknowledges a 2xx past the transactions (`tsip_dialog_invite.c`,
`send_ACK`), the callee's rings and accepts or rejects, and a dialog that ends
cancels its transactions (`ServerLeaves`). The socket is external: it loses, repeats and
reorders datagrams and keeps a stream in order.

A non-INVITE request that is repeated after its dialog has left matches no transaction.
`remakes` says whether it is of a method for which `tsip_dialog_layer_handle_incoming_msg`
makes another dialog and another transaction (MESSAGE, INFO, OPTIONS, REGISTER: `ServerAgain`),
or is answered by the dialog layer itself (`ServerRefuses`). The server's variables are then
those of the new transaction; `left` counts the dialogs that went, `earlier` keeps what they
answered.

**TimerManager.** One step is a stretch of code between two accesses to what the
threads share. The main thread's `peek`, `look`, `doze`, `asleep`, `enqueue` and
`remove` are the stretches of `__tsk_timer_manager_mainthread` between taking and
releasing the mutex; the runnable's thread is `RunBegin`, `RunNext`, `RunCheck`,
`RunCall`; `tsk_timer_manager_stop` is the sequence `StopRunnable` ... `StopEnds`. A
signal wakes the main thread only if it is `asleep`.

**SignalingLocks.** `owner` holds the four recursive locks, `pc` the place of each
thread on its way through `tsip_transac_layer_handle_incoming_msg`, `tsk_fsm_act`,
`tsip_dialog_fsm_act`, `tsip_dialog_request_send`, `tsip_dialog_response_send`,
`tsip_transac_layer_cancel_by_dialog` and `tsip_dialog_layer_shutdownAll`. What a
handler decides is a free choice, which the other modules narrow down.

**RefreshDialog.** One machine for the client parts of three dialogs: `kind` says which,
and the few rows that differ (a REGISTER dialog takes a shutdown in its initial state,
the others swallow it; only a subscription is notified) have a guard on it. The names are those of the
REGISTER dialog; `Trying` of the others is `InProgress`. `NewDelay` is
`tsip_dialog_get_newdelay`. The transaction is `wire`, the request or the answer under
way, with the expiry in it (`value`); the server is `lease`, how long it keeps what it
granted. Time passes by `Tick`, which waits for a timer that is due and for an answer
that was sent. `removing` is `unregistering`, `unsubscribing` or `unpublishing`, `life` is
`TSIP_DIALOG(self)->state`. `tsip_dialog_get_newdelay` takes what the message says and, if
it says nothing (a 2xx without Expires and without a Contact that has the stack's own user,
host and port, as after a NAT; a NOTIFY without expires), what the session asked for: each
2xx and NOTIFY may do either. `blind` marks a timer that is not one for the time left: the
server had less to give than the dialog assumed, or the timer had length zero and was lost
before its id was stored (`Scheduled`, as in the transactions). `cut` marks a NOTIFY that
ends the subscription while a request is under way.

**InviteDialog.** Both sides run the same code, so `state`, `life`, `told`, ... are functions
of the side. `exchange[p][m]` is what became of the request `m` of side `p`: `sent`
(repeated until answered), `held` (the callee rings), a final response on its way, or
`lost`. There is one action per row of the tables, with its name; where the row ends the
FSM, `End` does what OnTerminated and the destructor do. `timers` is who refreshes the
session (`stimers.is_refresher` of the two sides, which they agree on), `armed` is
`stimers.timer`, `shutdown` is `timershutdown`. `asked` and `failed` are history. `told` is
the sequence of events, with every repetition: each hangup, cancel and shutdown says
"terminating" again, which `DialogLife` allows a call (`Repeats`) and not a refreshing dialog.

**DialogLayer.** `sort` and `state` describe the dialogs as the layer meets them, numbered in
the order of the list. `pc` is the place of `tsip_dialog_layer_shutdownAll`, `at` its item,
`wait`, `inprogress` and `phase2` its flags. One step is one turn of a loop, or the
passage between two (the unlock and the wait are two steps, so a broadcast may fall
between them). `signals` is `dialogs_count` of
`tsip_dialog_layer_signal_stack_disconnected`. `busy`, `quiet`, `alarmed` remember for
whom a walk was begun, `torn` that another thread freed the item the last phase stood on.

Definitions named `Mutant_...` are not part of a model: each is a definition
changed the way a plausible bug would change it, and `PROJECT.json` says which
property catches it.

## 3. What the runs show

| Run | Question | States |
|---|---|---|
| `ict` | Does the INVITE client transaction give one verdict, acknowledge exactly the failures and come to an end, with responses in any order and sends that fail? Does it implement `ClientTransac`? Yes, but for an end on a stream that has lost its timer D. | 1 453 |
| `nict` | The same for the non-INVITE client transaction, and does it stop repeating an answered request? Yes. | 161 |
| `ist` | Does the INVITE server transaction give one final response, repeat it until it is acknowledged and no longer, report a missing ACK exactly if it is missing, and end? Yes, but for an end on a stream that has lost its timer I. | 203 |
| `non_invite` | Is a request that is repeated, reordered and lost handled once by each dialog that meets it, is its answer kept, is the verdict an answer that was given (`Exchange`), and do both sides conclude? Yes, but for the client a 1xx left without timers, and for transactions on a stream that have lost their last timer. | 215 096 |
| `invite` | Is the caller told what the callee answered (`Exchange`), does an ACK mean that the caller knows, do both sides learn what became of the call? Yes, but for a callee whose dialog withdraws its server transaction. | 195 830 |
| `call` | Is the caller told that it is connected only if the callee was, does one side that ends in order take the other along, is whoever hangs up over in the end, does the session timer find a dead peer, is each application told one life (`DialogLife`), however often it is hung up and shut down? Yes, but for a lost answer to a cancelled INVITE, and for the side that refreshes. | 169 403 |
| `refresh` | Is what the server granted asked for again in time, whatever it challenges, refuses or notifies? Does a hangup stay a hangup, does a shutdown end the dialog, is the application told one life (`DialogLife`)? Yes, but for a lease shorter than what was asked for that the message did not tell, and for a timer lost at length zero. | 12 604 |
| `shutdown` | While dialogs come and end beside it: are registrations given up last, are silent dialogs gone, does a disconnection reach everyone, does a stop return? Yes, as far as dialogs hear what they are told. | 755 829 |
| `timers` | Does the semaphore account for every timer, does a cancel in time hold, is every timer called or cancelled, does a stop return? Yes. | 214 000 |
| `locks` | Does a dialog end once, is no transaction left when all calls have returned, does every call return unless the locks deadlock, does every deadlock go through the dialog's lock? Yes. | 220 000 |

`WaitsEnd` of the INVITE client transaction deliberately says nothing of Proceeding: no
timer runs there. The watchdogs and the liveness properties of the transactions exempt
Completed and Confirmed on a stream, where a timer of length zero may be lost; without the
exemption TLC shows the transaction that stays. `TransacNIST` is checked as a part of `non_invite`. The type invariants,
and `Watchdog` of the two INVITE transactions and the non-INVITE client, are theorems and
not checked again by a run.

### Where the code differs from what is said of it

Each of these is a run that TLC ends with a counterexample.

* `ict_dangling` - `tsip_transac_ict.c:681` says that OnTerminated cancels the timers. A
  timer that is off the manager's list, or whose id was overwritten when a 2xx
  scheduled timers A and B again (`:644`, under the comment "Cancel timers A and B"),
  calls back into the destroyed transaction.
* `locks_cancel` - `tsip.c:949` relies on each dialog to cancel its transactions. A message
  that climbs from a transaction to its dialog and a dialog that ends and descends to
  its transaction hold the lock the other one waits for. `OnlyDialogLockDeadlocks` adds
  that every deadlock of these locks waits for the dialog's; the shutdown, which holds
  the lock of the dialog layer and waits for a dialog, has another
  (`tsip_dialog_layer.c:231` against `:457`).

### What the code does that no run calls wrong

* On a stream timers D, K, I and J have length zero (`tsip_transac_ict.c:394`,
  `tsip_transac_nict.c:362`, `tsip_transac_ist.c:381`, `tsip_transac_nist.c:310`). A callback
  that is faster than the store of the id (`tsip_transac.h:65`) is dropped, and the
  transaction stays on the list until its dialog cancels it. It has no more work to do.
* A MESSAGE, INFO, OPTIONS or REGISTER that is repeated after its dialog has left is handled
  again, by a new dialog that may answer differently (`tsip_dialog_layer.c:582-639`). The
  client takes whichever answer arrives first. `HandledOnce` counts one handling for each
  dialog that has left, and `Exchange` allows a second answer from then on.
* A failed ACK (`tsip_transac_ict.c:502`) ends the INVITE client transaction before the
  dialog is told: `ImplementsClientTransac` needs "send" among the reasons of `dropped`.
* A timer F that was late when the 1xx cancelled it ends the non-INVITE client transaction
  in Proceeding and reports a transport error (`tsip_transac_nict.c:528`).
* A repetition of a failure response that cannot be sent ends the INVITE server
  transaction, and nobody is told (`tsip_transac_ist.c:558`).
* Timer X re-arms itself after the ACK if it was late when the ACK came
  (`tsip_transac_ist.c:664`).
* A callee's dialog that rejects and ends cancels its server transaction with it
  (`tsip_dialog_invite.c:1619`): if the rejection is lost nobody repeats it.
  `CallerLearns` therefore excludes that end together with a loss.
* The first 1xx cancels timer F and nothing starts it again (`tsip_transac_nict.c:456`),
  where the diagram at `:36` ends Proceeding with timer F: `Concludes` exempts that wait.
* A timer that is scheduled between the timer manager's look at the list and its wait is
  raised when that wait, for a later timer, is over (`tsk_timer.c:334`). The stop frees
  the runnable's queue while the main thread may be about to use it (`tsk_timer.c:169`).
* A stop of the timer manager that comes before the new thread's RUN_BEGIN is undone by
  it (`tsk_timer.c:264`, `tsk_runnable.h:102`): `StopReturns` starts after it.

Refreshing dialogs:

* A hangup or a shutdown while a refresh is under way ends the dialog and sends no removal
  (`tsip_dialog_register.client.c:106-108`), though `tsip_api_common.c:93` and
  `tsip_api_register.c:103` announce one. The server keeps the registration until it expires.
* Every 2xx and NOTIFY schedules a refresh timer without cancelling the one before
  (`tsip_dialog_subscribe.client.c:674`); the old one fires in vain, as its id was
  overwritten.
* A 2xx without Expires and without a Contact the stack takes for its own (it compares user,
  host and port, which a NAT rewrites) starts the refresh timer with the time the session
  asked for (`tsip_dialog.c:611`, `:630-668`), and so does a NOTIFY that does not say what is
  left. If the server granted less, the timer outlasts the lease; `RefreshInTime` exempts
  exactly these (`blind`). A lease of less than 2 s makes a timer of length zero, which may be
  lost as above (`tsip_dialog.h:64`).
* A challenge of an established registration is answered for ever
  (`tsip_dialog.c:708`), and so is a 423; the shutdown timer ends even that (`ShutdownEnds`).
* A 1xx with a To tag makes a REGISTER dialog early, and the 2xx after it does not say
  "connected" any more (`tsip_dialog_register.client.c:168`, `:269`).

Calls:

* Every hangup, cancel and shutdown says "terminating" (`tsip_dialog_invite.c:805`, `:841`,
  `tsip_dialog_invite.client.c:313`), also when it was said before; a second shutdown starts
  another shutdown timer beside the first.
* A 2xx that crosses the CANCEL is acknowledged, no BYE is sent, and the callee ignores the
  CANCEL: the caller ends when its CANCEL is refused or times out, the callee stays
  connected. `EndsTogether` speaks of calls both were told of, which this is not.
* A challenge that arrives while the call is being cancelled places the call again
  (`Any_2_Any_X_i401_407_Challenge` is a row of any state).
* The answer to a cancelled INVITE is sent once, by a dialog that then cancels its own
  transaction. If it is lost the caller stays in Cancelling for ever; `HangupEnds` names
  this state, and without that disjunct TLC shows it.
* The CANCEL does not wait for a provisional response, which the comment at
  `tsip_dialog_invite.c:1252` leaves to the caller: it may overtake the INVITE, is answered
  481, and the callee rings for nobody.
* A callee that hangs up, or is shut down, while it rings sends a BYE and does not answer
  the INVITE. A shutdown while a call is only early goes to Trying, where no row takes the
  answers; the timer ends it.
* The side that refreshes a session does not notice that its peer is gone: the refusal of a
  refresh matches no row and nothing schedules the timer again. `SessionTimerEnds` is about
  the other side. A BYE sent by the session timer is not announced as "terminating".
* An answer whose media are of no use ends the caller's dialog with a BYE that its own end
  cancels, and without an ACK.

Shutdown and disconnection:

* `tsip.c:922` says that at the end of the shutdown all the sessions are destroyed. Dialogs
  in their initial state but REGISTER, OPTIONS, a MESSAGE or INFO that was received, and
  whoever does not answer in time, remain. `SilentGone` speaks of the rest.
* Each dialog that ends sends the walk back to the start of the list
  (`tsip_dialog_layer.c:239`), and dialogs that were asked are asked again: one that waits
  for the answer to its removal then ends at once.
* A broadcast between the unlock and the wait wakes nobody (`:243-246`), and the wait lasts
  its whole time. The flags of the shutdown are not reset.
* The third phase walks the list without the lock (`:282`); an item freed by another thread
  under it is `Phase3Lost`.
* A MESSAGE, an INFO or an OPTIONS that is under way absorbs the transport error by the
  catch-all row before it (`tsip_dialog_message.c:192`, `tsip_dialog_info.c:193`,
  `tsip_dialog_options.c:191`): one that times out stays on the list.

### Bounds

* `MaxTold` (`MaxHeard` in the compositions; 1 or 2) caps the counters of `told` and nothing else: the events go on
  being delivered. 1 tells "never" from "at least once"; 2 tells "once" from "more". The
  theorems hold for every value.
* `MaxAgain` in `non_invite` (1): one more dialog for a request whose first one has left, with
  an answer of its own. `MaxHeard` is 3 there, one more than the handlings that gives.
* `MaxLost` in `non_invite` (2) and `invite` (1): one loss on each leg of a request, or
  the loss of an answer. Without a bound nothing would ever have to arrive. `invite` has
  `MaxLost` below 5 because timers H and L, of 64*T1, come after five repetitions at
  least (G doubles up to T2, X doubles); `resends` counts those.
* `Timers` = two and `MaxTime` = 2 in the runs of the timer manager: the races are
  between one timer being waited for and one being scheduled, before it, with it or
  after it, and each may be due at once, later, or after the other. The two are not
  declared symmetric, because the run checks liveness.
* `Threads` = three in `locks`, each of which makes one call of any kind: two to block
  each other and one to come between. There is one dialog and one transaction, which is
  enough for a cycle: the layers are walked one item at a time.
* `Leases` = 1, 3 and 5 in `refresh`, with `Wanted` 2, `MinExpires` 3, `LongLease` 3 and
  `Margin` 2: a lease below, at and above the threshold, shorter and longer than what was
  asked for, and a wish the server finds too brief. A request is under way until it is
  answered, so there is never more than one. The proofs hold for every such values.
* `MaxDialogs` = 3 in `shutdown`, of five sorts, one for each way of taking a shutdown and a
  transport error: one the walk is at, one before and one behind it. `MaxStops` = 1; in a
  second stop the flags the first one left behind matter and phase 1 may be woken early,
  but nothing waits for longer. `RegistrationsComeLast` is proved for every number of
  dialogs and of stops.
* `call` has one call: a request that is repeated is one state, and so is a second CANCEL or
  BYE beside one under way. Each side's first challenge is answered, as in the code.
  `MaxEvents` (6) bounds how often the applications hang up, cancel or are shut down: they may
  as long as both together were told fewer events. A call that is set up has told four,
  which leaves two requests to end it; one that is being set up leaves up to five.
* Deadlock checking is off where a run ends in a final state (a terminated transaction,
  threads that have made their call) that has no successor.

### Fairness

* The timer manager's two threads run for the life of the stack, so `Dequeue` and the
  callbacks are weakly fair. `timers` is where the manager is shown to deserve it
  (`TimerEnds`), as long as it is not stopped.
* The creator of a client transaction starts it at once (`tsip_dialog_request_send`), so
  the first action is weakly fair.
* No fairness is given to the peer, the user, a cancel or a stop. The compositions assume
  that what stays on the wire is delivered, and that the callee answers in the end:
  without an answer there is nothing to learn.
* In `refresh` the timer manager's callbacks, answers that were sent, and time (`Tick`,
  strongly: timers that are due hold it up) are fair. The server need not answer.
* In `call` the callbacks of the timers and the timeouts of the transactions are weakly
  fair. `Response` is strongly fair: a request is sent again and again, and as long as the
  peer's dialog lives its responses are repeated, so one gets through or the transaction
  gives up. The responses of a dialog that has ended may be lost (`Lose`). No fairness
  is given to the applications, the shutdown, a challenge or the arrival of a request.
* In `shutdown` the two threads that walk the list run. The shutdown is strongly fair, because
  it waits for a mutex that the other walk takes and gives back again and again, and a
  mutex that is wanted is got in the end. Nothing obliges a dialog to end.
* In `locks` every thread is weakly fair. Each makes one call, so a lock that is wanted and
  released stays free, and strong fairness would add nothing.

## 4. What is proved

TLAPS proves these for every value of the constants: any bound on the counters, sends
that may or may not fail, any set of threads. The assumptions are those on the constants:
`MaxTold` and `MaxHeard` are positive natural numbers, `MaxLost` is a natural number, below 5
for INVITE, `SendMayFail` is a Boolean, no thread is called `Nobody`, there are finitely many
`Timers`, leases and wishes are positive, the margin of the delay is not greater than its
threshold, `MaxAgain`, `MaxEvents` and `MaxDialogs` are natural numbers and `Sorts` are sorts.

| Module | Theorems |
|---|---|
| `InviteProofs`, client transaction | `TypeCorrect`, `OneVerdict`, `AckExactlyForFailure`, `AlwaysWatched`, `NoLateProvisional` (an action property), `Implements` (of `ClientTransac`) |
| `InviteProofs`, exchange | `AckIsMeant`, `ImplementsTheExchange` (of `Exchange`) |
| `NonInviteProofs`, client transaction | `TypeCorrect`, `OneVerdict`, `AlwaysWatched`, `NotRepeated`, `Implements` (of `ClientTransac`) |
| `NonInviteProofs`, exchange | `RequestHandledOnce`, `TheAnswerIsKept`, `ImplementsTheExchange` (of `Exchange`) |
| `TransacISTProofs` | `TypeCorrect`, `OneFinalResponse`, `AlwaysWatched`, `ResponsesDoCease`, `AckOrAlarm` |
| `TimerManagerProofs` | `NoTimerIsLeft`, `CanceledInTimeIsNotCalled`, `NoTimerIsCalledTwice` (an action property) |
| `SignalingLocksProofs` | `TypeCorrect`, `EndsOnce`, `NobodyIsLeft`, `DeadlocksNeedTheDialog` |
| `RefreshDialogProofs` | `TypeCorrect`, `AskedAgainInTime`, `NothingRevived` (an action property), `TellsOneLife` (implements `DialogLife`) |
| `InviteDialogProofs` | `TypeCorrect`, `ConnectedAfterCallee`, `TellsOneLife` (both sides implement `DialogLife`) |
| `DialogLayerProofs` | `RegistrationsComeLast`, `SilentOnesAreGone`, `TheSignalReachesEveryone` (an action property) |

Every invariant, action property and refinement that a passing run checks is stated by one
of these theorems.

The arguments:

* **One verdict** is not inductive: that a timeout follows no answer depends on the state
  the FSM is in. `ToldByState` says what the dialog has been told in each state
  (nothing final before Accepted and Completed, exactly one failure in Completed), and is
  preserved because every handler that delivers also moves on. In the non-INVITE
  transaction the same invariant carries the timer F that is still late in Proceeding.
* **Watchdog** is inductive with the types: the handler that enters a waiting state arms
  its timer, `Dequeue` moves it from `armed` to `late`, and only its own callback takes
  it from there. For INVITE this needs that the second schedule of A and B drops ids of A
  and B only. A timer of length zero may be lost at once, so that Completed and Confirmed are
  watched over datagrams only; Trying, Calling and Accepted are on both.
* **NotRepeated** needs `StreamNeverRepeats`, because cancelling E is skipped on a stream.
* **Implements** maps `state`, `told` and `why` to `phase`, `verdict` and `dropped`.
  `Undropped` (an open transaction has no reason to have ended) makes every end either a
  `Close`, a `Conclude` or a `Drop`.
* **One final response** follows from `LastByState` (which response is kept in which
  state, and that no other final one was sent); **ResponsesCease** and **Watchdog** from
  `TimersByState`; **AckOrAlarm** from `HeardByState`, which relates `acked` and what the
  dialog heard.
* **DeadlocksNeedTheDialog.** `Held` gives, for each lock, the places its holder can be
  at. From it follows that a thread that holds another lock than the dialog's, and waits
  for another one than the dialog's, is inside the dialog and holds its lock
  (`HoldersAreInside`). In a cycle that avoids waiting for the dialog every thread is
  blocked by such a holder; there is one holder of the dialog, so it would have to wait
  for itself (`NoOtherCycle`).
* **NobodyIsLeft**: whatever is to be undone has somebody who will undo it (`Attended`). A
  transaction that has ended and is still listed has a thread on its way to remove it; an
  open one whose dialog has ended has a thread that will cancel it, or the one that created
  it and will find no dialog. When all calls have returned there is no such thread. The hard
  step is the end of the dialog itself, which must not miss a transaction that another
  thread is about to start: it starts it inside the dialog, before the end
  (`StartsBeforeEnd`).
* **RequestHandledOnce**, **TheAnswerIsKept**: each dialog that left has handled the request
  once, and so has the one that is there (`ToldByDialogs`); what the server answered follows
  from the state of its FSM (`AnswerByState`), and what is on the wire from what its dialogs,
  this one and earlier ones, answered (`Given`, `WireIsTrue`).
* **ImplementsTheExchange**, non-INVITE: a client that waits was told nothing that ends its wait
  (`ClientInv`), so every verdict is the first; a final response in the network is one that
  was given, and a refusal, or an answer of an earlier dialog, means that a dialog has left
  (`LeftByState`). A server's step is thus `Answer`, `Withdraw` or a stutter - a new
  dialog takes back no answer - and a client's `Conclude` or a stutter.
* **AckIsMeant** is carried by `AckTravels`: an ACK that is owed, or under way, is that of a
  caller who was told the answer. It needs `AnswerTravels`, because an ACK for a failure and
  one for a success are the same datagram: what the caller was told is what the callee
  answered. **ImplementsTheExchange** follows from the same invariant. `MaxLost` is
  below 5 by assumption, because of timers H and L; the proofs do not depend on that.
* **NoTimerIsLeft** is inductive with the shape of the state and one fact more: the timer
  the main thread has picked stays on the list until it removes it (`ListedWhy`), because
  a cancel marks a timer and leaves the list alone. Every step then adds to or takes
  from both sides of the sum as much.
* **CanceledInTimeIsNotCalled** needs that the runnable's thread, where it is about to call,
  has no timer in hand that was cancelled in time (`HeldBack`). **NoTimerIsCalledTwice**
  needs `OnePlace`: a timer is on the list, in the runnable's queue, in its hand or called,
  and in two of these only between its hand-over and its removal, in the same round of the
  main thread. No run has this property; TLC has checked `OnePlace` with three timers.

* **AskedAgainInTime** rests on `DelayShorter`: whatever the length, the delay computed from it
  is less, so that a timer started for a length the server does keep is in time (`Starts`).
  `LeaseInv` carries that through the wire: what an answer grants is what the server keeps,
  and a dialog that is not removed never asks for nothing.
* **NothingRevived** needs `ToldInv`: after "terminating" the dialog is removing itself, and a
  request under way asks for 0. The server then grants nothing that outlasts what it had.
* **ConnectedAfterCallee**: a 2xx under way, an ACK and a connected caller each presuppose
  that the callee picked up (`PickedUp`), and what was told stays told (`ToldGrows`).
  `Unanswered` is shared by all steps but two: they bring no 2xx about.
* **TellsOneLife**: each step stays, opens, connects, leaves or ends a side (`Moves`), and the
  state says what was told before (`Order`), so that what is appended is the next event of a
  life, or "terminating" once more. For `RefreshDialog` the same follows from `ToldInv`.
* **RegistrationsComeLast**: in the first phase the walk stands before everyone it still has
  to come to (`WalkIsBefore`). A visit moves it on by one, or back to the start when an item
  was freed; dialogs that come, go on or end beside it do not take anyone from behind it to
  before it (`OthersDisturbNothing`), because the list grows at its back.
* **SilentOnesAreGone**: as long as the walk of the last phase lost no item it stands before
  all of those it is about that are still listed, and these are of a sort that its visit ends
  at once (`LastWalk`); when it is over they are gone (`LastWalkIsOver`).
* **TheSignalReachesEveryone**: the signal visits the first of the list as often as there were
  dialogs when it began, and one that reacts leaves the list at once. `OldestFirst`
  says that the alarmed are older than all others, hence come first, and `TurnsSuffice` that the
  turns left are at least as many as the alarmed that are left, a cardinality that each
  visit and each end of a dialog lowers. That dialogs are born in the order of the list is
  `BornInOrder`.

### Only model-checked

* Liveness (`WaitsEnd`, `FinalStatesEnd`, `Concludes`, `CallerLearns`, `CalleeLearns`,
  `TimerEnds`, `StopReturns`, `CallsReturn`, `ShutdownEnds`, `EndsTogether`, `HangupEnds`,
  `SessionTimerEnds`): fairness and ENABLED are out of the
  prover's reach.
* The bounds that stand for real time (`resends` against timers H and L, `MaxTime`): they limit
  the runs, and no theorem depends on them.

## 5. Not modelled

* The text of messages, authentication and the parsers: sequential code, most of it
  generated by Ragel.
* Sockets, DNS, TLS, media, and the protocols that are not on the path of a call.
* Within what is modelled: tags, routes and the choice of the transport; the match of a
  message with its transaction (the models start where it is found); allocation failure.
* In a call: early media (100rel, preconditions, ICE), hold, transfer, INFO, PRACK and OPTIONS
  within it, an INVITE refused with 422 (the callee's dialog then stays in Started and the
  next INVITE makes another one), a media session that does not start. Each adds rows that
  send one more request inside a call that is already modelled, or data of the media layer.
* The server part of REGISTER, which answers somebody else's registration.
* The exchange of one MESSAGE, INFO or OPTIONS: a request and its answer, which is
  `NonInviteTransac`; `DialogLayer` has how these dialogs take a shutdown.
* The stack's start, its run queue of events, and the transports: what can go wrong there is
  input and output, allocation and configuration.
* The iOS application. Most of it is user interface over callbacks that arrive one after the
  other; what it does about an interrupted call (messages to the peer, a second session, a
  timer of 20 s) is a protocol of its own, and a candidate of the plan.
* The generated language bindings (`bindings/*/tinyWRAP_wrap.cxx`), which make up a good part of
  the repository's lines, as do parsers generated by Ragel and codecs.

## 6. Plan

What is left, by how much depends on it:

1. Early media in `InviteDialog`: reliable provisional responses and PRACK, whose timer
   (`timer100rel`) ends a call that rings.
2. Hold and transfer: re-INVITEs of both sides that cross, and the call that a transfer
   makes and reports on.
3. `Stack`: `tsip_stack_start` and `tsip_stack_stop` over the timer manager, the transport
   layer and the dialog layer.
4. `CallManager`: the application's session table over the dialog events, and how an
   interrupted call is taken up again (`SipCallManager.mm`, `SipStackUtils.mm`).

Theorems to add: what the abstract specifications give to the dialogs (a verdict of
`Exchange` is an answer, a life of `DialogLife` ends once), carried over to the modules that
implement them; the safety half of `Concludes` (a waiting client without a timer has had a
1xx); the invariants of whatever module comes next.
