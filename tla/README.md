# Verification of SneezyMUD

TLA+ models of the SneezyMUD server (`src/code/code`), the TLC runs that check
them on small worlds, and proofs, checked by the TLA+ proof system, of the
properties that matter most for worlds of any size. File names below are
relative to `src/code/code`; "being" is a player or monster.

## The system

SneezyMUD is one process. Its game loop (`sys/socket.cc`, `gameLoop()`) calls
`TScheduler::run()` once per pulse of 0.1 seconds: sockets and input, a round
of combat, a share of the objects, a share of the beings. Nearly everything is
a plain C++ object with raw pointers to others, and nearly every operation may
delete objects that a caller, a list iterator or a cached pointer still refers
to. Operations report that with return bits (`DELETE_THIS`, `DELETE_VICT`),
which every caller has to act upon. A single thread does not help much here:
the interleavings that matter are those of commands, timers, deaths, lost links
and deferred deletions over many pulses. One component has a second thread.

| component | state | operations | hard because |
|---|---|---|---|
| Sessions and login (`sys/connect.cc`, `sys/create_character.cc`) | `descriptor_list`; `Descriptor::connected`, `character`, `original`, `snoop`; `TBeing::desc`; `character_list`; player files | connect, nanny() and its states, reconnect, create, delete a character or an account, lose a link, `~Descriptor` | two ends of every pointer, either of which may be deleted first; several connections of one character; answers to a question asked a long time ago |
| Other bodies (`misc/immortal.cc`, `disc/`, `misc/magicutils.cc`, `misc/person.cc`) | the same, `polyed`, `ACT_POLYSELF` | switch, return, disguise, polymorph, lycanthropy, snoop, wipe, purge of linkdead players | a body left behind looks like one without a link; each command has its own checks |
| Object scheduler (`sys/process.cc` `runObj`) | `object_list` with a placeholder, `objIter`, `objCount` | process a share, wrap around, create, destroy | the list changes at every turn on both sides of the iterator |
| Character scheduler (`sys/process.cc` `runChar`) | `character_list`, `procIdx`, `deleteMe` | run a share, second pass, deferred deletions | an index into a list that changes; beings killed by others in the same pass |
| Discord notifier (`misc/discord.cc`) | `message_queue`, `stop_thread`, a mutex, a condition variable | configure, post, send, stop | two threads; shutdown |
| Combat (`misc/combat.cc`, `misc/offense.cc`, `misc/damage.cc`) | `gCombatList`, `gCombatNext`, `specials.fighting`, `attackers`, `AFF_ENGAGER` | a round of blows, set and stop fighting, engage, flee, go berserk, death | fighters vanish in the middle of a round; to stop a fight may begin another |
| Input loop and shutdown (`sys/socket.cc`) | `descriptor_list`, `next_to_process`, `timeTill` | read, process, announce | a command may delete any connections |
| Mail (`misc/mail.cc`, `sys/connect.cc`, `sys/client.cc`) | `mail` and `rent` tables, `desc->obj`, `desc->amount`, `PLR_MAILING` | order, write, send, receive | an editor between check and use; several tables without a transaction |
| System tasks (`sys/systemtask.cc`) | a queue, one child process, one output file | add, start, check, remove | owners that leave; children |
| Migrations (`sys/migrations.cc`) | the version in the database | run | failure between two steps |
| Rent, player files, accounts (`misc/rent.cc`, `misc/player_data.cc`, `misc/account.cc`) | files and tables | save, load, wipe | partial writes |
| Shops, banks, corporations | tables, money | buy, sell, pay, deposit | money in two places |
| Games (`game/`) | a table, a pot, players | bet, fold, pay | players who leave |
| Groups, riding, tasks, rooms, weather | pointers and numbers per being or room | commands and ticks | sequential |
| Spells, skills, special procedures, commands, materials | formulas and content | | sequential, large |
| CGI programs, vendored code, data, tests | | | outside the server |

How they interact: sockets and `nanny()` create sessions and bodies; the input
loop runs commands on them; the schedulers, combat and timers act on bodies and
delete them, which ends or returns sessions; `vlogf()` writes to all sessions
from anywhere, also from the Discord thread; combat and level gains post to
Discord.

What makes each correct:

* Sessions: both ends of every pointer agree; `character_list` holds exactly
  the bodies in the world; a character is in the world at most once and has a
  player file; a played body changes hands only with consent; snooper and
  snooped agree.
* Schedulers: nothing is lost, doubled, starved or deleted twice.
* Notifier: in order, at most once, everything sent before an orderly end.
* Combat: everybody fighting is in the list once and vice versa; the next
  fighter of a round is still alive.
* Mail, shops, games: money and things are neither created nor destroyed.

## Modules

| module | models | proofs |
|---|---|---|
| `Sessions` | sessions, bodies, the list of beings, player files; implements `Roll`, which says who plays whom | `SessionsProofs` |
| `ObjectLoop` | `runObj()`; implements `Rota`, turns in the order of a queue | `ObjectLoopProofs` |
| `CharLoop` | `runChar()` | `CharLoopProofs` |
| `Combat` | who fights whom, the round of violence | `CombatProofs` |
| `Mail` | letters, talens and parcels; implements `Letterbox`, where nothing arrives twice or at the wrong door | `MailProofs` |
| `Discord` | the notifier's two threads; implements `Outbox`, a box that hands over in order | `DiscordProofs` |
| `InputLoop` | the four walks over `descriptor_list` in a pulse, `processAllInput()` | `InputLoopProofs` |
| `Walks` | a walk over a linked list that may change: who is behind whom, who is still to come | |
| `Lists` | lemmas on inserting into and removing from sequences, and on walks | themselves |
| `MCSessions`, `MCObjectLoop`, `MCCharLoop`, `MCCombat`, `MCMail`, `MCInputLoop` | the small worlds TLC checks | |

`CharLoop`, `Combat` and `InputLoop` walk over linked lists in the same way, and use `Walks`:
the list is a sequence, `After(s, e, null)` is `e->next`, and `From(s, e)` is the set
of those from `e` to the end.

`PROJECT.json` gives the source lines of every definition.

### Sessions

State: `conn[d]` is `Descriptor::connected`, reduced to the states that differ
in what they do to bodies. "menu" is every state of a connection without a
character (account login, menu, deletion dialogue), "name" is `CON_CONN`,
"discon" `CON_DISCON` (the question "Reconnect?"), "motd" the message of the
day up to `CON_RMOTD`, "create" the creation states, "playing" no state or an
editor. `char`, `orig`, `desc`, `snooping`, `snoopBy` are the pointers; `list`
is `character_list`; `saved` the names with a player file; `form` the beasts
that exist only as somebody's form (`ACT_POLYSELF`). A body neither listed nor
with a session is free memory.

Actions are whole handlers. `~Descriptor()` is the family `...After(D)`: what is
left once the sessions in `D` are deleted, used by every action that deletes
sessions, in one step even when it deletes several (reconnect, purge). `~TBeing`
with a session is `BackToMenu`. `TakeOver` is the branch of `nanny()` in which a
linkdead body is found, `ReconnectTakesOver` the answer "Y", in which all other
sessions of the name are deleted first and one body is then taken over.
`ReconnectFindsNobody` is that answer when nobody is left: the code does nothing
more, and the session stays at the question. `Wear` is the block that six
commands share when a player's session moves to another body; `Switch`,
`Disguise` and `Lycanthrope` (which also stands for vampires and for the end of
a polymorph or shapeshift cast) differ in what they check first. `Quit` is every
way a player's own body is deleted while connected (quit, rent, camp, death),
`IdleBoot` the idle timer, `LdeadTimeout` the linkdead timer together with what
`~TPerson()` does for a player whose body was left behind. `Return` is `doReturn()`
with all its callers: a beast made by a transformation is deleted at once, or put away,
still listed, for somebody else to delete, and one that was switched into stays or, if
it was killed, goes. `DieAsBeast` is the death of a player in another form, which
`die()` turns into the death of the own body, and the input loop's deletion of that body
when the player's own command killed the beast; `BeastDies` is the end of any beast that
nobody plays. Levels are ranks: of two immortals either may be above the other at some
time, so that `Snoop` asks only for an immortal, and `Switch`, which a neck object lets
mortals do too, for nobody in particular.

`Optional` names inputs that can be switched off: creation, disguise,
lycanthropy, account deletion, wiping. Each of them breaks a property that
holds without it (below, Runs).

`Roll` is what the players see of it: whom each session plays (`Plays`, also through a
beast), whom it was asked about (`Asks`), and who is in the game without a link
(`Linkdead`: a listed body that no session has or has left behind). A character is
loaded only if it is not in the game, is resumed if it is there without a link, and
passes from one session to another only by the answer to "Reconnect?", upon which all
others of the name are thrown out. A session at the question whose character has left
the game stays there (`FindNobody`).

Abstracted: accounts and passwords (any connection at the menu may try any
name), money and equipment, rooms. Account-wide limits on the number of
characters appear as `Disconnect`. `doRename()` is left out.

### ObjectLoop

`before` and `after` are `object_list` in front of and behind the placeholder;
`objIter` always points at the placeholder when the loop is entered. `Take` is
the loop's head, up to the processes of the object; `KeepCurrent` and
`DeleteCurrent` end its turn. Other code creates and destroys objects between
pulses and while an object is processed (`OthersRun`). `TakePastEnd` is the turn
in which nothing is left behind the placeholder; reading through `end()` is
undefined and the model stops there. `owed` is a history variable: at an
object's turn, everybody else present is owed a turn before it has another.

`Rota` is the promise: a queue; a turn moves its head to the end; newcomers
enter anywhere; leaving does not change the order of the others. The queue is
`after \o before`: moving the placeholder is exactly one turn, and moving it
from the end of the list to its front is none.

### CharLoop

`list` and `procIdx` as in the code; `current` is the being the range-for loop
stands at. `Run` and `Leave` are the two ways through the loop's head: `Leave`
is `if (!count--) break`, after `procIdx` was advanced: the being it stops at has no
turn, and the next pulse begins behind it. `Delete` is a turn of the loop
over `deleteMe`, `EndPass` what follows it, the decision for a second pass included.
Beings die at once when another being kills them (`Destroy`); one that reports its own
death waits in `deleteMe`, where nothing keeps others from killing it again: a player is healed
by `rawKill()` and stays in the room, and of the monsters the code has no test either. A
second deletion is undefined behaviour (`DeleteTwice`).

### Combat

`combat` is everything that `setFighting()` and `stopFighting()` change: the
linked list `gCombatList` from its head, `gCombatNext`, and of every being whom
it fights, how many are counted as attackers, whether it is engaged
(`AFF_ENGAGER`: fights without striking) and whether it is berserk. Most of the
code's functions are called from many others and may go several ways, so the
module has an operator for each that gives the *set* of its outcomes, and
the actions compose them as the code does: `StopFighting` is `Unlink` followed by
`GoBerserk`, which may call `SetFighting` again.

`SetFighting` is split where the code calls out: `Link` puts the being into the list,
`Answers` is what runs before `specials.fighting` is set, that is a quest monster that
begins to fight or a monster's response to startfight. `StrikesBack` are the monsters
whose response is `hit %n`: such a monster strikes at the being that is being set
fighting and fights nobody yet, which `setFighting()` then accepts a second time
(`StrikeBack`). The being's `next_fighting` leads back to itself, and the walks over the
list go round for ever. A response that stops a fight may also take out of the list the
one `~TBeing()` is to look at next, so that this walk ends early. Both are recorded in
`combat.astray`, and the model stops there (`Astray`).

`perform_violence()` is split at every point where another function runs:
`phase` is "tick" between two ticks, "loop" at the head of the inner loop, "blow"
inside `hit()`. During a blow any of `Damage`, `Stop`, `Berserk` and `Kill` may
happen, of any beings, any number of times: riders, guards, spells and weapons
do that. `BlowEnds`, `BlowKills` and `BlowBackfires` are the three ways in which
`hit()` returns; the last ends the tick for everybody else (`break`). `~TBeing()`
is a walk of its own (`Free`, `StopOpponent`, `Freed`), since every
`stopFighting()` in it may change the list it walks over. `due` is a history
variable: who was fighting when the tick began and had no turn since.

Outside a round the commands run: `Hit` (with `FirstHit`, `EngagedHit` and
`SwitchHit`, the three branches of `doHit()`), `Engage`, `Disengage`, `Flee`,
`Berserk`; `CalmDown` is the tick of `updateTickStuff()`, `Purge` a destruction
without a death. Rooms, positions, dice and skills go either way.

### Mail

`body` is a player's place ("linked", "linkdead", "out"), money and player
actions; `desc` the fields of its `Descriptor` that a letter passes through;
`letters` and `rows` the two tables, which outlive a crash. `Order` and
`OrderWindow` are `postmasterSendMail()` of a telnet player and of a client,
`Submit`, `SubmitWindow` and `Cancel` the ends of the text in `sstring_add()` and
`read_client()`. The parcel is stored before the letter, and the reader's letter
is deleted before anything is handed over; `step` is the command that is between
two such queries, where a `Crash` may come. `Steal`, `StealTalens`, `Get`, `Rot`,
`LoseLink`, `Discard` (the web page) and `DeleteMail` are what may befall the things
of writers and readers in the meantime. `Die` and `Leave` (renting, the linkdead timer)
are `~TBeing()` of a player, which leaves a telnet player's `Descriptor` at the menu with
`obj` and `amount` as they are; `Login` comes back on it, `HangUp` closes it. `asked`,
`cut` and `handed` are history: what each player asked for on its connection since it
sent or cancelled a letter, whose link was lost while writing, and what each reader got.

`Letterbox` is the promise: a letter that was accepted waits, and is then handed
to its addressee once or lost. A letter that `read_delete()` took out and that is not
yet in the reader's hands still waits (`Waiting`), and is lost if the game crashes.

### InputLoop

`list` is `descriptor_list` from its head, `next` the global `next_to_process`,
`point` the local variable of the walk at hand. `phase` says which of the walks of
`handleTimeAndSockets()` is running: over connections with an exceptional condition,
over those to read from, `processAllInput()`, and the output with its prompts;
"rest" is everything else a pulse does. Within `processAllInput()`, "command" is the
time in which a line is dealt with, by `parseCommand()` for those in `playing` and by
menus and `nanny()` for the others, and "forget" is the point after
`delete d->character`. `lines` and `wait` are the length of `d->input` and `d->wait`.

`~Descriptor()` is `Delete`. The walks over exceptions and input use `next_to_process`
too (`GoOn`, `DeleteAndGoOn`); the walk over output has a pointer of its own, during
which nobody but the connection at hand is deleted. While a command runs, `Cut` and
`Dies` may happen to any others any number of times. `CommandReturns`,
`CommandCloses` and `CommandKills` are the three ways back into the loop; the last has
the search for `d` in the list that precedes `delete d->character`, and `LosesBody`
the difference between a telnet player, who is sent to the menu, and a client, whose
connection is deleted from within `~TBeing()`. `due` is a history variable: to whom the
walk has still to come.

What `select()` found is not kept: a connection may be ready in one walk and not in
the next. A line may fail to be read only in the walk that reads.

### Discord

The game thread's control point is `phase` (`config`, `boot`, `loop`, `bye`,
`stop`, `notify`, `join`), the worker's is `worker`. The game thread's lock
sections contain no blocking call and are single actions; the mutex is held
exactly at the worker's points `test` and `drain`. `cv.wait()` is split into
taking the lock, testing the predicate, and sleeping, which releases the lock in
the same step; wake-ups may be spurious. `HupSig` is `exit(0)` at any point;
`WorkerFault` is the data race of `vlogf()` in the worker. `Outbox` is the
promise: accepted in some order, handed over in that order, closed only when
nothing is left. A box whose process died promises nothing more.

## Runs

| run | bounds | shows |
|---|---|---|
| `sessions` | 3 connections, 4 persons, 2 beasts, 3 names of levels 0, 1, 2, nothing optional | `OneBodyPerName`, `InWorldSaved`, `SnoopPaired`, `ImplementsRoll` |
| `sessions_forms` | 3 connections, 3 persons, 2 beasts, everything optional | `TypeOK`, `Linked`, `InWorld`, `FormsHavePlayers`, `HandOver` |
| `object_loop` | 4 objects, 3 at the start, a pulse for half of them | `TypeOK`, `Listed`, `RoundRobin`, `Served`, `ImplementsRota` |
| `char_loop` | a player and 3 monsters, a pulse for two thirds of the monsters | `TypeOK`, `SomebodyRuns`, `EverybodyRuns` |
| `combat` | a player (berserker, always engaging), two monsters, one of a quest, one that strikes back; a tick per round; at most 2 counted attackers | `TypeOK`, `ListedFight`, `NobodyFightsTheFreed`, `TurnsInOrder`, `NeverTooFew`, `RoundEnds`, `EverybodyHasATurn` |
| `mail` | a player who also reports bugs, steals and loses its link, and a client; an object, a talen; a postage of 1 for parcels only; at most 2 letters and 1 parcel | `TypeOK`, `ParcelsKept`, `PostsWhatWasOrdered`, `ReportsAreNotMailed`, `ImplementsLetterbox`, `CommandEnds` |
| `input_loop` | 3 connections, one of them a client; at most 2 lines waiting, at most 3 pulses to wait | `TypeOK`, `InputInOrder`, `EveryLineRuns` |
| `discord` | 3 channels, 3 messages of the game plus those of boot and shutdown | `TypeOK`, `Conserved`, `NoLostWakeup`, `CleanExitSendsAll`, `ShutdownCompletes`, `QueueDrains`, `ImplementsOutbox` |

The bounds suffice for the cases that can go wrong. Three connections are a
snooper, the snooped and a third who reconnects, snoops or deletes; four persons
allow a body that is left behind or linkdead besides one for each connection
that logs in; of a mortal and two immortals one can be both snooper and snooped. Symmetry is
over connections, persons and beasts, which no constant distinguishes. Four
objects put the placeholder at the front, in the middle and at the end of lists
that shrink to nothing and grow again; the divisors 4 and 3 replace the 23 of
the code (2/23 of the list per pulse) so that a pulse has several turns in
so small a world. Four beings make a pass end in the middle and at the end of
the list, with a second pass, and give lists that are resonant (2 or 3 beings) and lists
that are not (1 or 4). `MaxPosts` bounds the messages of the game; the
queue's order needs no more than three, and two of them may be alike. Three
beings are the one whose turn it is, its victim and a third behind or before them
in the list, who may be killed, stopped or set fighting by the blow; the walk
over the list never looks further than one ahead. The round has one tick instead
of `Pulse::COMBAT`: ticks differ only in their number. Two letters are one that is
being written while another is read or lost, and a client and a telnet player are
the two ways of writing. `Riches` bounds what a thief takes; `MaxMail`, `MaxRent` and `MaxCount` bound the numbers
given out; the proofs are for all values of them. Three connections are the one whose
command runs, the one behind it, whose deletion moves `next_to_process`, and one behind
that or before them; a new one comes in at the head. Two lines are one that is
processed and one that has to wait its turn, and a wait of 3 is one that outlasts two
pulses.

Counterexamples, each to a sentence in the code or its comments (quoted in
`PROJECT.json`):

| run | property | what happens |
|---|---|---|
| `sessions_ldead` | `LdeadTimerHitsLdead` | the body of a player in another form is deleted as linkdead |
| `char_loop_twice` | `DeletedOnce` | a dead player is killed again in the same pass and deleted twice |
| `combat_freed` | `NobodyFightsTheFreed` | a berserking player who is purged goes berserk on somebody from within its destructor and stays in the list |
| `input_loop_client` | `ForgetsListed` | a client's character dies by the client's own command; `~TBeing()` deletes the connection, and the loop then writes `d->character` into freed memory |

Other conditions of the passing runs and of the proofs are needed too, and have no run
of their own. With `Optional = {"create"}`, two connections create one name, since only
saved names are taken, and `OneBodyPerName` and `ImplementsRoll` fail; a change of form that does not look
at snooping breaks `SnoopPaired`; deleting an account and wiping break `InWorldSaved`
(`sessions_forms` includes all of these, `sessions` none). If a link is lost by somebody who
writes a report, `PLR_MAILING` stays set and the next report is stored as a letter, which
`ReportsAreNotMailed` therefore says of nobody else (`cut`). A player killed while
writing leaves its order in the `Descriptor`, and the next letter takes the old parcel
along and is charged the old sum; `PostsWhatWasOrdered` says that this is the worst of
it: nothing but what was asked for on the same connection since the last letter, and
just that if there was one order. A client that closes its window leaves its order in
the same way and is outside the property. A writer who is robbed sends all the same:
`setMoney()` takes a negative sum for zero. `EverybodyRuns` fails for lists that are
`Resonant`: the being at which `runChar()` stops is counted as run
(`sys/process.cc:156`), and if a list of constant length is a multiple of the share plus
one, or one less, these are the same beings at every round, and they are never run. In a
game whose population changes all the time that lasts only as long as the length does.
`ListedFight`, `TurnsInOrder`, `RoundEnds` and `EverybodyHasATurn` hold until a response
to startfight leads a walk astray, as described under Combat. The only such response in
the game's data is harmless; one with `hit %n` would hang the server.
`deleteAccount()` does not
look whether another connection plays one of the account's characters
(`sys/connect.cc:3524`), and `doWipe()` takes an invisible immortal of a higher level
for one that is offline (`misc/immortal.cc:3765`). A character that is still at the
message of the day can also be deleted (`sys/connect.cc:3451` searches
`character_list` only); it is saved again when it enters, so that `InWorldSaved` holds
nevertheless.

## Fairness

* Schedulers: the game loop runs until shutdown, and each of its steps ends, so
  the steps of `runObj()` and `runChar()` are weakly fair. Nothing makes other
  code create or destroy anything. `Served` assumes nothing about the number of
  objects but that pulses are not empty; `EverybodyRuns` is about a
  world in which nobody comes or goes any more and whose list is not resonant.
* Combat: the game loop calls `perform_violence()` again and again, and its steps,
  the end of a blow and the steps of a destructor are weakly fair. Nothing makes a
  blow hurt, kill or spare anybody. `EverybodyHasATurn` is about whoever goes on
  fighting the same opponent, in a list that is not led astray.
* Mail: a command that was begun goes on (`Steps`), unless the game crashes. Players
  owe the post nothing.
* Input loop: `gameLoop()` is not left, and every command returns, so that the loop's
  own steps are weakly fair. Nothing makes anybody type, die or be cut.
  `EveryLineRuns` assumes that the others make a player wait only finitely often:
  who is bashed again and again may wait for ever, which is the game's intention.
* Notifier: both threads are scheduled, and a mutex that is free again and again
  is obtained in the end (strong fairness for the game thread's two blocking
  sections: a worker that wakes up spuriously for ever could keep it away). No
  fairness for leaving the game loop, for spurious wake-ups, or for the return of
  a web request, for which curl is given no timeout; the two liveness properties
  therefore allow a request that hangs for ever.
* Sessions: no liveness is claimed. Players owe the game nothing.

## Proofs

All constants are arbitrary, up to the assumptions named in the modules: that
`None` is none of the others, that persons and beasts differ, that levels are
numbers, that the world at the start lists nobody twice.

`SessionsProofs`. The inductive invariant is

    IInv == TypeOK /\ Linked /\ InWorld /\ Shape /\ OrigOnce

`Linked` (`LinksAgree`) and `InWorld` (`WorldAgrees`) need each other: `~TBeing()`
finds the session through `desc` and decides by `connected` whether the body is
listed. `Shape` adds that a body is left behind only while playing, and that
whoever is past the login has a name; `OrigOnce` that no body is left behind by
two sessions, without which `~TPerson()`, which calls back one player, could
strand another. One lemma per action proves that `IInv` is kept, and one
(`DeleteInv`) covers every deletion of sessions. These hold with every optional
input. `HandsOver` follows from `IInv` step by step: every action but the
confirmed reconnect leaves a played body alone or lets it go. `WorldSaved` needs
that no account is deleted and nobody wiped. `NamesUnique` needs that no
character is created, and the strengthening `Entering`: whoever is about to enter
the world is the only one of the name and has no body there. `SnoopSafe` needs
that nobody changes form without looking at snooping, and `SnoopOwn`: only a
player in the own body snoops or is snooped. `SnoopDropped` is its core: sessions
leave, taking their snooping with them, and the other pairs stay. That each of these
conditions is needed is said under Runs.

`RollImplemented` is the refinement of `Roll`, with one lemma per action that says which
step of the roll it is, or that it is none (`UnmovedRoll`: switching, disguises and
snooping change bodies but not who plays whom). It needs `IInv`, and that no character is
created, as `NamesUnique` does. Two more theorems say what outlasts a change of body:
a session that plays stays the same player (`PlayersKeepTheirCharacter`), and a beast made
by a transformation is played by somebody who left a body behind for it (`FormsPlayed`),
which `die()` and `rawKill()` rely on. The latter rests on `FormsWorn`, that such a beast
is listed and played, which every action keeps: none gives the beast's session away but by
putting the beast out of `form`.

`ObjectLoopProofs`. The inductive invariant says that the list has no duplicates,
that the object being processed is in it, and that debts are owed to objects
earlier in the queue and only to objects that exist. `TurnGood`, `JoinGood` and
`QuitGood` prove that of the three things that can happen to a queue, for
sequences of any length; `CreateQueue`, `UnlinkQueue` and `TakeQueue` prove that
the code's operations on the two halves of the list are those three. From them
follow `ListKept`, `TurnsRotate` and the refinement `Rotation`. `WindowCovers` is
the arithmetic of the comment in `runObj()` ("1/12th of the object list every
pulse"): with truncation it is true from 276 objects on. `WaitsShrink` is why
newcomers starve nobody, which `Rota` leaves open: they are put in front of the
placeholder, where an object waits only for the placeholder to reach the end of the list;
behind it nothing is ever inserted.

`CharLoopProofs`. `procIdx` is kept from pulse to pulse while the list changes under it.
That it never counts more beings than there are rests on `Ahead`, the beings the walk has
still to come to: newcomers are put at the front, so that a deletion may only make
`Ahead` smaller, and each turn makes `procIdx` larger by one and `Ahead` smaller by one.
`IInv` has their sum bounded while the walk goes on. The number of beings is finite
(`BeingAssumption`). `TurnsOnce` is an action property of the same `Ahead`: it only
shrinks during a pass, a turn takes exactly one being out of it, and the walk ends when it
is empty, or when the share is used up, and then one being leaves it without a turn. So
nobody is run twice in a pass, and at most one is passed over in a pulse; that it is not
always the same one is what `EverybodyRuns` adds, where it is true.

`CombatProofs`. `Good(w)` says of the fights what holds between any two calls: whoever
fights is in the list (`Fighters`), and, unless a walk was led astray, the list has no
duplicates and nobody else in it (`Once`), nobody is counted to have fewer attackers than
strike at it (`Counted`), and those whom the walk has to come to are the rest of the list
from some place on (`Walk`). `SetFightingCases` says what an answer may do before the
being fights: it leaves the list as it was, enters the opponent, or enters the being once
more, and then the walk is astray. One lemma
per operator shows that every outcome of it is good again, bottom up: `LinkGood`,
`SetFightingGood`, `UnlinkGood`, `BerserkGood`, `StopFightingGood`, and so on up to the
commands; the list is at each step a cons or a removal, about which `Lists` has the
lemmas. `AtHead`, `InBlow` and `Leaving` say the same for the three points within a
round and for the destructor's walk: everybody before `next_char` has been looked at,
and whoever is added meanwhile is added at the head and fights another. `ListCorrect`,
`WalkCorrect` and `CountCorrect` need no other condition; `NobodyFreedFights` assumes that
no berserker is destroyed but by death (`Berserker \cap Purged = {}`), and the run
`combat_freed` shows why. `RoundsDescend` and `DestructorsDescend` need no such
condition, and end where a walk is astray. The first gives a round two steps for everybody due at the tick and one for a
blow that is dealt (`TickLeft`); a step of the round lowers that or raises `pulse`, and
whatever happens within a blow or a destructor leaves it or lowers it, since starting a
fight makes nobody due (`SetFightingDue`, `GoBerserkDue`). The second counts those whom
`~TBeing()` has still to look at: whoever stops fighting and at once begins again is
linked at the head, behind the walk (`StopFightingAhead`).

`MailProofs`. `IInv` adds to `TypeOK` who runs a command (`Running`), that the ids given
out are those up to the serial and that no letter in existence shares one
(`Numbered`), and the same of parcels (`Rents`). `ParcelCorrect` and the refinement
`Refinement` follow for any players, sums and crashes. `Writers` relates what is in a
descriptor to what was asked for on it (`Fits`), and the player actions to the text that
is being written (`Marks`): one that is set belongs to the text at hand, whose addressee
tells letters and reports apart, or its owner was cut off. Nobody is excluded: writers may
die, be robbed, lose their links and come back. `PostCorrect` and `ReportCorrect` rest on
it. `CommandsDescend` counts
what a command has still to do (`Toil`: two steps for each letter that waits for the
reader): every step of the command lowers it, and no other step raises it, since letters
are only added by the command at hand. The letters are finite in number (`Few`).

`InputLoopProofs`. `IInv` has, besides the types (`Types`), that the list has no duplicates
and that the walk stands at somebody in it, or at its end, with exactly those from there
on still due (`At`); during a command the same of `next_to_process`. `Delete` keeps
this for a deletion before, at or behind that place: the lemmas are those of `Combat`,
stated once in `Lists` (`ConsWalk`, `RemoveWalk`, `NextWalk`). `InputLoopOrder` follows for any number of
connections, clients and lines. `PulsesDescend` bounds the steps of a pulse by its
connections at the start (`PulseWork`: the walks that are left and those due in this
one); `ClientsVanish` narrows the finding of `input_loop_client`.

`DiscordProofs`. `IInv` relates the worker's control point to what it holds: it
has a message in flight exactly while sending, it exits with an empty queue after
the flag was set, and a sleeping worker has an empty queue and, once the flag is
set, a notification to come. `Refinement` maps each posting to `Accept`, the end of
each request to `HandOver`, the join to `Close`, and everything else to nothing.
`ShutdownDescends`: with the flag set, the worker cannot go back to sleep, be woken in
vain more than once or be given more to send; `WorkLeft` falls with every change of the
worker or the queue.

Only model-checked: liveness (`Served`, `SomebodyRuns`, `EverybodyRuns`,
`ShutdownCompletes`, `QueueDrains`, `RoundEnds`, `EverybodyHasATurn`, `CommandEnds`,
`EveryLineRuns`), which is out of the prover's reach together
with ENABLED. What can be proved of it is that the code descends: `ShutdownDescends`,
`RoundsDescend`, `DestructorsDescend`, `CommandsDescend`, `PulsesDescend`, `WaitsShrink`
and `TurnsOnce` show that the steps fairness makes happen lead downward in a natural number,
or a bounded pair of them, and that no other step leads up again. That the steps are enabled and taken
in the end is left to TLC: `ShutdownCompletes`, `RoundEnds`, `CommandEnds` and `Served` add only
that, `EverybodyRuns` also what happens between two passes. The descents are not properties of the runs; TLC found
no error in them on the same worlds. Induction over data and RECURSIVE operators
are also out of its reach; the models use neither.

## Not modelled, and why

* Formulas (damage, skills, experience), content and formatting: no protocol.
* `vlogf()` except for its race, sockets, telnet and GMCP: input and output.
* In `CharLoop`, the branch for bogus entries: it needs a being without a room or
  a name, or with the pointer mismatch that `Linked` excludes.
* A purge of room 0 that destroys the placeholder, and signals between two
  instructions: listed as hazards.
* Combat's rooms, positions, dice, skills and limbs: a test of them goes either way.
  `attackers` may exceed the number of those who strike (`doEngage()` of another opponent
  sets `AFF_ENGAGER` only after `stopFighting()`); only `NeverTooFew` holds. Of the
  responses to startfight, only a blow that both survive; that response commands are run
  again from within their own blow, `soloquest` and deaths by the response are left out,
  and what follows once a walk is astray.
* In `Sessions`: loads that find no room after the character was linked
  (`sys/connect.cc:1389`); `rawKill()` and `delete` of a played beast without `die()`
  (`misc/combat.cc:452`, `misc/structs.cc:258`), for which `die()` prepares; monsters
  and players under an editor.
* In `Mail`: another character of the same account on a `Descriptor` that was left with
  an order, and things dropped by whoever quits.
* Automatic and faction mail, envelopes as containers, and what a crash does to files
  that were not saved: the objects a player comes back with are any.
* Paths that end the process and that no property speaks of: `TakePastEnd` (all objects
  behind the placeholder are destroyed between two turns), `CleanupThrow` (the notifier
  is stopped though it was never started). One oddity is left unstated:
  `disguise()` refuses the snooper but not the snooped (`disc/disc_stealth.cc:302`),
  which is why `SnoopPaired` needs its condition.
* `doRename()`: it would give bodies a level of their own.

## Plan

In the order of what it would add:

1. System tasks and migrations: a queue of child processes with owners that leave;
   restart after a failed migration.
2. The composition of the two schedulers, combat and the input loop in
   `TScheduler::run()`: beings that die in one of them and are seen by the next.
3. Hold'em: rounds, pot and players who leave; shops and corporations: money in
   two places.
4. Renaming in `Sessions`, with levels per body.
5. Proofs: the descent of `QueueDrains` while the game posts, and that of `EverybodyHasATurn`
   over several ticks; that `procIdx` comes to everybody of a world at rest (`EverybodyRuns`).
