# A verification project for scim-array

scim-array is an input method engine for the SCIM platform: it turns codes of
one to five keys into Chinese characters (the Array 30 method) or into
phrases.  It ships with a setup dialog and with GNU gettext's library `intl`.
This directory holds TLA+ models of all three, the TLC configurations that
check them on small instances, and theorems about them checked by TLAPS.
Paths below are relative to the repository; `cpp` is
`src/scim_array_imengine.cpp`.

## The system: an inventory

SCIM runs an engine in one thread.  Clients, the panel (another process), the
configuration and the setup dialog (another process again) reach the engine as
calls of virtual methods and signals, one at a time but in any order.  What is
hard there is the order of calls: every call finds the state an arbitrary
sequence of earlier calls left, and what the panel shows was sent by an
earlier one.  The library `intl`, on the other hand, is called by any thread
of a program: there it is interleavings.

| Component | State | Operations | Talks to |
|---|---|---|---|
| `ArrayInstance` (`cpp` 351-1181): one input context | the code typed (`m_preedit_string`), the candidate list (`m_lookup_table`) with its page, `commit_press_count`, English/Chinese and full/half modes | `process_key_event` and its helpers, `select_candidate`, paging, `update_lookup_table_page_size`, `focus_in`/`focus_out`, `trigger_property`, `reset` | the factory (options by reference, tables by pointer), the panel (`update_*`, `show_*`, `hide_*`), the client (`commit_string`) |
| `ArrayFactory` (`cpp` 74-349) | five tables, the options, two properties shared by all instances | construction, `reload_config`, `load_user_phrases`, destruction by the last pointer | the configuration (reload signal), `ArrayCIN` |
| `ArrayCIN` (`src/ArrayCIN.cpp`) | a map from codes to word lists and, for some tables, its reverse | parse and sort a `.cin` file, exact search, search with wildcards, reverse search | `OVWildcard` |
| `OVWildcard` (`src/OVWildcard.h`) | a compiled pattern | `match` | |
| `ArraySetup` (`src/scim_array_imengine_setup.cpp`) | the widgets, `__have_changed` | load, save, `query_changed`, widget signals | the configuration |
| locks and once (`intl/lock.c`, `lock.h`) | the lock's fields, its wait queues | lock, unlock, init, destroy, once, in the style of each thread library | the thread library |
| message lookup (`intl/dcigettext.c`, `finddomain.c`, `loadmsgcat.c`, `bindtextdom.c`, `textdomain.c`) | default domain, bindings, known translations, list of files and what is loaded | `dcigettext`, `textdomain`, `bindtextdomain`, `bind_textdomain_codeset` | the locks, the file system, `iconv` |
| locale names (`intl/localealias.c`, `explodename.c`, `l10nflist.c`) | the aliases read, the list of files | from a name to the files to try | message lookup |
| plural forms (`intl/plural.y`, `plural.c`, `plural-exp.c`, `eval-plural.h`) | none | parse, evaluate, pick a form | message lookup |
| printf with positions (`intl/printf-parse.c`, `printf-args.c`, `vasnprintf.c`, `printf.c`, `xsize.h`) | none | parse a format, fetch arguments, print | the system's `snprintf` or `sprintf` |
| locale detection, data tables, `po`, build files | | | |

What makes each correct:

- **ArrayInstance**: what the user sees is what the next key acts on; what is
  committed is a translation of the code typed, under the options in force;
  nothing of a composition leaks into the next one, into English mode or ahead
  of itself to the client; the page stays inside the list.
- **ArrayFactory**: every pointer the instances follow was set; one instance's
  modes do not show in another's properties.
- **ArrayCIN**: a search finds an entry exactly when the file has it, whatever
  the order of its lines.
- **OVWildcard**: a word matches exactly when the pattern read as a glob accepts it.
- **ArraySetup**: what it calls saved is in force; no edit is lost silently.
- **Locks and once**: any number of readers or one writer, whatever the style;
  no wakeup is lost; an initialisation runs once.
- **Message lookup**: a lookup answers what is in force, also from its caches;
  a file is read once; nobody waits for ever.
- **Locale names**: the same name leads to the same files, whatever came before.
- **Plural forms**: a formula means what it means in C.
- **printf**: the text arrives whole, and no buffer is too small.

Behaviours that are hard to test, with the lines where they bite, are the
`hazards` of `PROJECT.json`.

## Modules

| Module | What it is |
|---|---|
| `CommonLookupTable` | SCIM's paged candidate list (external), as operators on a record |
| `ArrayInstance` | the core: one input context, the options it reads and the panel that draws what it is sent |
| `MCArrayInstance` | a small instance of it |
| `OVWildcard` | the pattern matcher: the constructor's loop and the loops of `match`, with what a pattern means |
| `ArrayCIN` | a table: reading, parsing, sorting and grouping a file, and the three searches |
| `MCTables` | small instances of both of these, one per behaviour |
| `ScimConfig` | SCIM's configuration (external): a store and a reload signal |
| `ArrayFactory` | the factory from module entry to destruction, with the modes of its input contexts |
| `ArraySetup` | the dialog's widgets and flag, load and save key by key |
| `ArrayConfiguration` | the composition of the last three |
| `MCArrayConfiguration` | a small instance of it |
| `MCFactory` | what the factory holds: `MCTables` or `MCArrayConfiguration`, one per behaviour |
| `RWLock` | the abstract specification of a lock |
| `Locks` | the locks of `lock.c` in seven styles, and that they implement `RWLock` |
| `Once` | `gl_once` in three styles |
| `Gettext` | lookups of several threads beside calls that change what they look at |
| `LocaleNames` | aliases, the pieces of a name, the list of files |
| `Catalog` | what is taken in of a `.mo` file and how a message is found in it |
| `Plural` | the plural formulas: scanner, parser, evaluation, against C's grammar |
| `Printf` | the printf functions, against what C says of them |
| `MCIntl`, `MCLocaleNames` | the library, part by part; locale names alone |
| `ArrayInstanceProofs` | theorems about `ArrayInstance`: types and pages; the screen; what is offered and committed |
| `ArrayConfigurationProofs` | theorems about dialog, configuration and factory |
| `OVWildcardProofs`, `ArrayCINProofs` | theorems about the matcher and about tables and their searches |
| `LocksProofs` | theorems about the locks and about `gl_once` |
| `GettextProofs` | theorems about lookups and what runs beside them |
| `CatalogProofs` | that a catalog's messages are found, whatever is in it |
| `PrintfProofs` | that texts are printed whole, whatever the format |

`ArrayInstance` takes what `ArrayCIN` answers as constants: `arrayCins` for the
exact search, `wildcardWords` for the search with wildcards.  `ArrayCIN` in
turn takes what `OVWildcard` matches as a set of texts.  The three are separate
because their calls do not interleave: a search runs to its end inside one key
event, on tables that no longer change.  `Gettext` likewise takes from
`LocaleNames` the files a name leads to, and from `Catalog` whether a message
is in one; and it takes the locks at their word, which `Locks` proves: a read
lock that readers share, a recursive lock one thread holds.

### ArrayInstance

Each virtual method is one action, and `process_key_event` is the disjunction
of its cases, each guarded by what makes the earlier cases pass the key on
(`Reaches` and the `Is...` predicates).  Inside a method the code calls a
dozen others in a fixed order, several of which overwrite what an earlier one
did.  The model keeps that order: the helpers are operators that take the
composition in progress (`Now`: code, list, press count, what the panel was
sent, text committed) and return what it becomes, and an action applies one
composition of them.  For example typing a root while a press is pending is

    RootTyped(CommitAhead(Now), k.code)

where `CommitAhead` is lines 457-466 and `RootTyped` lines 468-477.

| Code | Model |
|---|---|
| `m_preedit_string` | sequence of key characters |
| `m_lookup_table` | record of `CommonLookupTable`: candidates, page size, page start, history of page starts, labels, whether the size is fixed |
| `commit_press_count`, `m_forward`, `m_full_width_letter` | the same |
| `m_show_special`, `m_special_code_only`, the hot keys | `config`, replaced at any time by `reload_config`, because the instance holds references |
| `m_use_phrases`, `arrayCins[4]` | `m_use_phrases` and `user_phrases`, fixed when the factory is built |
| `update_preedit_string`, `show_lookup_table`, ... | `panel`: what was last sent and what is shown |
| return value, `commit_string` | `reply` |
| a page size the panel has asked for and the engine has not handled | `resize` |

The tables are constants: a finite function from codes to non-empty lists of
words.  Words, keys and labels are model values; lower-casing, caps lock and
the key names' spelling are left out, but which keys have a name is kept.
`send_commit_string` takes its code by reference and is once given
`m_preedit_string` itself; the model passes what the reference reads as after
`reset()` separately (`keysLeft`).

### OVWildcard and ArrayCIN

Here one step is one turn of a loop, because the indices are what can go
wrong.  The phase (`phase`, `pc`) says which loop is running.

| Code | Model |
|---|---|
| `m_states`, the pattern as (directive, parameter) pairs | `m_states`, the parameter being a character, "end" or "one" |
| the indices of `match` and of the constructor | `i`, `j` |
| `State`s of `match` | `MatchExact`, `MatchOne`, `MatchUntil`, and `StatesEnd` when they run out |
| a line of a file | a record: whether it starts with `#`, whether it has a tab and a value behind it, key and value |
| `stringVec`, `block_buf`, `maps`, `reverse_map` | the same, as sequences |
| the bounds and the middle of `searchCinMap` | `low`, `high`, `mid` |

Texts are numbers, their places in the byte order `std::string` compares by,
which is all a sort or a search looks at; `lowerStr` maps one to another.  A
file that could not be opened is read for ever, as in the code, up to
`ReadBound` lines.

### ScimConfig, ArrayFactory, ArraySetup and ArrayConfiguration

The dialog and the engine share nothing but the configuration, so the two are
modules over its variables, and `ArrayConfiguration` interleaves them.  A save
is five writes in the order of the code, each a step of its own and each
possibly refused; the engine may construct its factory or reload in between.
Memory the constructor does not write is "garbage", and a `stat` that fails
leaves a structure that may say anything (`KindsRead`).  What the panel shows
is kept apart from the labels, which are objects all input contexts write: SCIM
passes on only what the focused one sends.  A click on the panel may arrive
when the focus has moved on.

### Locks and Once

The macros of `lock.h` give each kind of lock one of seven styles per thread
library; `use` picks a lock and its users, and the actions are those of its
style.  What the code does under a mutex is one step.  What it reads without
one, and every wait, splits a step: the test of `initialized` before the guard,
the owner's name of a recursive lock, the spin locks of Win32.

| Code | Model |
|---|---|
| the fields of the `gl_..._t` | `lock`; the library's primitive is a number, -1 for a writer and n for readers |
| `gl_waitqueue_t` | a record of an array on 0 .. alloc-1, count, alloc, offset |
| where a thread is, sleeping and woken included | `pc` |
| what it holds | `level`, `mode` |
| `abort ()` and the failures nothing tests | `aborted` |

Conditions may wake a thread for no reason, `CreateEvent` and the memory for a
longer wait queue may fail (`use.failures`), and a lock may be destroyed and
defined anew between uses.  `Once` does the same for `gl_once`.

### Gettext, LocaleNames and Catalog

A lookup holds `_nl_state_lock` for reading from start to end and the calls
that change settings hold it for writing, so the latter are one step and a
lookup is split only where readers meet: the tree of known translations
(`tsearch` or not), the list of files, the loading of a file under its own
recursive lock.  `env` is everything around the program: `LANGUAGE` and the
locale, the files there are with their charset and messages, whether `iconv` is
there and what it can do, whether memory may fail.  `Setups` are the
environments to start from, and `SetupAssumption` says what the names in one
are taken to be: an alias stands for a name that is no alias itself, the less
specific forms of a name are not aliases either, and a form of a form is a form.

`LocaleNames` keeps the list of files and the alias map from one call to the
next: the list is in descending order, and what one name left in it is
what another one finds.  `Catalog` is one file: it is loaded (`LoadCatalog`) and
then asked for messages (`FindMessage`), by hash table with its increments or by
binary search; the strings with system dependent segments are expanded and
entered while loading, and a file in which the name of a segment does not end
is not taken in.  What it takes for granted of a file is
`WrittenByMsgfmt`: the strings sorted, each once, and a hash table whose size is
a prime above the number of strings.  `CatalogAssumption` says so of the files,
and TLC evaluates it on those of the run.

### Plural and Printf

`Plural` is operators, with a question as the only state (`Ask`): bison's
automaton as a stack machine with the precedences of the grammar, and beside it
the trees C's grammar gives the same tokens.  Memory for the tree of a formula
may be short (`memory`), which leaves the rule of English.  `Printf` does one thing in a
behaviour: it parses a format, prints a text or makes room for a directive.  It
keeps of a text only its length: what is at stake is which argument a directive
gets and whether the buffers, which grow as they go with sizes that saturate,
are large enough.  Of an argument (`args`) it keeps what a star or a string says
(`value`) and how long the text is that is made of it (`length`, or `Fails`),
which C bounds (`MakesAsC`).  Its loops are functions on an interval of numbers, each value
made from the one before.  A directive is given to `snprintf` again and again
(`Attempt`) until it fits or memory is short; `Execute` takes what an attempt that
ended so leaves, and that there is one among `Memory` + 2 is proved.

| Code | Model |
|---|---|
| `cp`, `arg_posn`, `d->dir`, `d_allocated`, `a->arg`, `a_allocated` of `PRINTF_PARSE` | the record `parse`, one directive after another |
| `malloc` and `realloc` of `d->dir`, `a->arg`, `buf`, `tmp` and the result | `Allocates`: what is at most `Memory` |
| `tmp_length`, `tmp` and `tmpbuf` under `sprintf` | `TmpLength`, `HasTmp` |
| `result`, `length`, `allocated` of `VASNPRINTF` | the record `r`, with `where` for whose memory it is and `errno` |
| the jumps to `error` and `out_of_memory`, the returns of `NULL` | `ParseError`, `Failure`; a parse without memory is EINVAL like a bad format |
| the `abort ()`s over the type of an argument, and a directive longer than `buf` | `FitsAndAgrees` |
| the `abort ()` over `tmp_length` | `Failure("abort")`; for which conversions, `HasRoom` and `Misjudged` |

## What the runs check

| Run | Shows |
|---|---|
| `typing` | with the phrase library and without it.  The screen follows the code (`PanelShowsCode`, `HiddenOnlyBehindWildcard`), English mode holds nothing back (`ForwardIdle`), what a code can be (`CodeShape`), the special codes, unseen or shown and enforced, switched at any time by a reload, or shown only (`SpecialCodeConfines`, `SpecialCodeNotified`), the end of a composition (`CommitEndsComposition`), no key overtakes one (`PlainKeysWaitForComposition`); types (`TypeOK`), the list on screen is the list acted on (`PanelShowsTable`, `DigitSelectsShown`), it belongs to the code (`TableOfCode`, `CommitsCandidateOfCode`), its pages under a panel that may shrink them (`PageInside`, `SpaceTurnsPages`), pending presses (`PressHasCandidates`), fillers are never committed (`NeverCommitsHole`) |
| `factory` | of tables and the matcher: the matcher lets no word through that the pattern read as a glob refuses, and misses none of a pattern whose stars come last (`Matches`); every word of a key is found, as often as the file has it and in its order (`FindsDeclared`), nothing else is, sorted or not (`FoundWasDeclared`), the reverse and the wildcard search miss nothing (`FindsUnordered`); indices stay inside vectors, patterns and words (`InRange`); searches, loads and matches end, but the load of a file that is not there (`Ends`).  Of the configuration: types (`ConfigurationTypeOK`); the flag stands exactly when the user changed something (`ChangedTellsEdits`); at rest, an unchanged dialog, the store and the engine agree on every option whose write was taken (`ShownIsInForce`); the panel keeps to the focused context's modes (`PanelShowsModes`) |
| `intl` | types and orders (`IntlTypeOK`); of locks: each style implements `RWLock` (`Exclusion`), no `abort ()` is reached and sleepers are known (`Consistent`), every waiting thread is served (`Served`); initialisations run once (`CalledOnce`); of lookups: the answer is the one in force (`AnswersCurrent`), a file is loaded once and stays (`LoadedOnce`), every call returns (`CallsReturn`); a name tries its forms (`TriesForms`); a message of a catalog is found, and nothing else (`FindsItsMessages`); formulas parse as in C and some languages' forms are right for every number (`PluralFormsAsC`); formats are printed whole (`PrintsAsC`) |
| `composed_keys`, `second_space`, `ahead`, `stale_press`, `wildcard_glob`, `valueless`, `slots`, `again`, `order` | disagreements between the code and its comments, ChangeLog, dialog or its own tests: see below |

Every property has a mutant in `PROJECT.json`: a definition of the model
changed the way a plausible slip in the code would change it, which TLC finds
to violate the property.  The changed forms stand before the definitions they
replace and are marked "Deliberately wrong".

`MCFactory` and `MCIntl` each check several modules in one run: `part` says
which one a behaviour is about, and the others rest.  Nothing is lost by it,
since the parts do not share state, and `part` never changes.

### Bounds

**ArrayInstance.**  Two roots, one wildcard, two label keys and so pages of two
where the code has ten; codes of three where the code has five.  The word lists
have one word, a full page, more than a page, a padding hole in front or
behind, or are missing.  This keeps every comparison of the code on both sides:
code length 1, 2 (short table) and more, at the limit and (with wildcards) past
it; lists smaller than, as large as and larger than a page; index inside and
outside the list.  `PreeditBound` stops a code growing by wildcards, which the
code does not limit, one past `MaxPreedit` (at it with phrases: `PhrasesBound`);
`PressBound` stops the press count at the first value no test compares with.
`BothSpec` divides options and keys between the behaviours with the phrase
library (special codes shown and not enforced, the keys that tell phrases from
words, the panel's page sizes where the user has phrases) and those without it
(special codes unseen, or shown and enforced, and every key; full-width letters
only while they are unseen, since the width of a letter has no say in a
composition), because phrases and special codes meet only in
`send_commit_string`, whose phrase case comes first.

**Tables.**  Every pattern and every word of at most four symbols over two
characters: enough for a star in front of, between and behind characters, for
runs of stars, and for a word that holds the character behind a star never,
once and several times.  Every file of at most two lines of every kind,
finished or not; all 120 orders of five entries, so that the binary search
takes every path through vectors of five and of two, one and no entries, sorted
and not; files that repeat a key, apart and together; one that is not there,
read for `ReadBound` lines.  The three `Modes` are the ones the factory builds
its tables with.

**Configuration.**  Two input contexts, two texts for the hot keys, one edit by
the user (`EditBound`), one switch of a mode (`ModeBound`), the last write of a
save refusable (`Refusable`), and the user's phrases there; in `slots` there or
not. Saves, loads and reloads are not bounded. One edit is enough to make
dialog, store and engine differ in any option; the theorems do without these
bounds.

**Locks.**  Every style of every library, with two threads of two turns each
that destroy and redefine the lock, and with three threads of one turn each and
failing events.  `MaxDepth` 2 lets a recursive lock be held twice.  Three
threads are the fewest for a reader, a writer and somebody who wakes them.
**Once**: three threads.

**Gettext.**  Two threads of two turns (or three and one) that look up, bind
and choose the domain; one thread through every environment, through four
changing calls in any order, and through three with failing memory.
**LocaleNames**: two names after one another from fifteen, which have every
combination of pieces, with no aliases and with two files of them. **Catalog**:
up to five strings, and two with segments beside at most two or all five of
them, with the hash tables `msgfmt` makes for them and without. **Plural**:
every text of at most four characters of eleven, and longer ones that put any
two of twelve operators next to each other, and some four; `ULONG_MAX` is 255,
and every number up to it is asked for. **Printf**: every directive of at most
five characters over positions, stars and points, and longer formats with texts
that just fit, just do not, are much longer, or fail; `SIZE_MAX` 2000,
`INT_MAX` 120, `Memory` 800 and directives of `DirSize` 100 put the limits in
reach of a few arguments: there is no memory for the array of eight directives,
`%Lf` and `%.200f` under `sprintf` ask for a temporary buffer there is no
memory for, and `%.3s` of 699 to 800 characters for one on the stack, one that
`malloc` serves and one it does not.

### Fairness

The properties of `ArrayInstance` and of the configuration are safety
properties and need none.  An engine only reacts: nothing obliges a user to
press a key or to save.  The one thing that must eventually happen there, that
a page size the panel asked for is handled, is the platform's.

The loops of `match`, of the constructor and of the searches are one thread
that keeps running, so `FactoryPartsSpec` assumes weak fairness of the step
under way (not of the next call being made); `Ends` rests on it. For the
library, `IntlSpec` assumes that a thread inside a call is scheduled: weak
fairness per thread of going on with a lock operation or a lookup, and of
giving back a lock it holds. It assumes no fairness between threads that
compete for a lock: `Served` and `CallsReturn` hold since each thread has only
so many turns.

## Where the code departs from what it says

Each of these is shown by a run that TLC finds to violate the property.

- `ComposedKeysPass`: ChangeLog 2007-08-16, "prevent to catch the composed key,
  like Ctrl + C".  With Shift down as well, `cpp` 559 commits the letter.
- `SecondSpaceCommits`: the comment at `cpp` 591-592.  Space and the phrase key
  both count up a number that is tested with `== 1`; once it is 2, space lists
  the same page for ever.
- `AheadIsNotified`: the dialog's tooltip "To notify if the character has the
  special code".  Typing ahead shows the note and hides it in the same call.
- `PressDroppedWithCode`: `cpp` 443 resets the press count on BackSpace "to
  avoid output error"; when the special code option refuses the character typed
  ahead of, the code is edited and the count stays.
- `Complete`: the first line of `OVWildcard.h` announces `?` and `*`.
  `match` takes the first occurrence of the character behind a star and gives
  it back to nobody, so `*a` does not match `aa`.
- `ValuelessIsSkipped`: lines 54-55 of `ArrayCIN.cpp` skip a line without a
  value.  The position they test is an `unsigned int`, which never equals
  `string::npos` where `size_t` has 64 bits; `substr` then throws.
- `TriesAllForms`: the comment at `finddomain.c` 76-86 lists the forms of a
  name that are tried.  When the name's own file is in the list already, as a
  less specific form of another name, line 93 finds it with that name's
  successors, and the form with the normalized codeset is not tried.
- `ModifierDroppedFirst`: the comment at `l10nflist.c` 310-313 says that the loop
  below it drops first the modifier, then the territory, then the codeset.  The
  loop counts down, and what goes first is the bit of least value: the codeset,
  and the modifier last.  That is the order of `finddomain.c` 76-86, and
  `TriesForms` states it.
- `OnlySetSlotsUsed`: the test `arrayCins[4] != NULL` (`cpp` 1040) takes a slot
  without a table for a null pointer, which only slot 3 is made (184).  Slot 4
  is assigned at line 221 only.  With phrases on and no file of the user's,
  `create_phrase_lookup_table` follows what happened to be in memory, and the
  destructor deletes it (205).

Some more are met by the models and named where the properties make room for
them, without a run of their own:

- On Solaris `gl_once` sets its flag before the call it announces (`lock.c` 492,
  with the test without the mutex at 486-487), so a second thread may return
  before the initialisation is done: `CalledOnce` excepts that style.
- `gl_recursive_lock_init` for POSIX (`lock.h` 270) makes a plain mutex; a
  thread that takes it twice waits for itself: `SelfBlocked` in `Served`.
- A lookup may take a known translation of which another thread has written the
  new counter and not yet the text: `Torn` in `AnswersCurrent`.
- Under `sprintf`, the room for `%a` without a precision, for `%e`, `%g` and `%a`
  with a star whose argument is negative (C takes it for no precision,
  `vasnprintf.c` 310 for 0), and for `%'g` with many digits, is too small.  Where
  such a text comes, line 814 aborts: `HasRoom` and `Misjudged`.  `Rightly` lets a
  call end so for no other directive.
- Under `sprintf` a `%Lf` or a long precision needs a temporary buffer for the
  longest text the conversion could make, so the call may give ENOMEM for a
  short one (lines 484-497); a conversion that fails is EINVAL.  Under `snprintf`
  it is taken for a buffer that is too small, until memory is short (780-791):
  `Fault`.
- When there is no memory for the directives or the arguments of a format
  (`printf-parse.c` 72-75, 509-524), the answer is the EINVAL of a bad format:
  `Rightly`.
- After a failure `vsnprintf` copies from NULL: `PrunedAsC`.
- The destructor of a Win32 lock resets `guard.done` and not `guard.started`
  (`lock.c` 560); a use without a new definition is not among `Uses`, and
  `Served` says nothing of it.
- A formula may divide by zero, for which `eval-plural.h` 63-66 raises SIGFPE:
  an answer like another to `PluralFormsAsC`.
- The text of a code committed ahead is passed by reference and emptied before
  it is compared (`cpp` 461).  `AheadIsNotified` fails with or without it, since
  the note is hidden in the same call anyway.
- A write the store refuses is not noticed by `save_config`, which clears the
  flag: `ChangedTellsEdits` counts only the user's edits, and
  `ShownIsInForce` leaves out an option whose last write was refused.
- A file that is not there is read for ever (`ArrayCIN.cpp` 23): `Ends` is about
  the files that are.

## What is proved

TLAPS proves, for every value of the constants under the named assumptions on
them (which TLC evaluates on the instances):

| Theorem | States | Module |
|---|---|---|
| `TypeCorrect`, `PagesStayInside` | `TypeOK`, `PageInside` | `ArrayInstanceProofs` |
| `ListIsShown`, `CodeIsShown`, `OpenedIsShown`, `CodesAreShaped`, `EnglishIsIdle` | `PanelShowsTable`, `PanelShowsCode`, `HiddenOnlyBehindWildcard`, `CodeShape`, `ForwardIdle` | `ArrayInstanceProofs` |
| `ListOfCode`, `PressesHaveCandidates`, `HolesAreNotCommitted`, `CommitsMean`, `CommitsEnd`, `SpecialCodesConfine` | `TableOfCode`, `PressHasCandidates`, `NeverCommitsHole`, `CommitsCandidateOfCode`, `CommitEndsComposition`, `SpecialCodeConfines` | `ArrayInstanceProofs` |
| `SpaceGoesRound`, `DigitsSelectShown`, `PlainKeysWait`, `SpecialCodesAreNotified` | `SpaceTurnsPages`, `DigitSelectsShown`, `PlainKeysWaitForComposition`, `SpecialCodeNotified` | `ArrayInstanceProofs` |
| `MatchesRight` | `Matches` | `OVWildcardProofs` |
| `SearchesStayInside`, `AnswersAreDeclared`, `FindsWithoutOrder`, `FindsInOrder` | `InRange`, `FoundWasDeclared`, `FindsUnordered`, `FindsDeclared` | `ArrayCINProofs` |
| `ConfigurationTypeCorrect`, `ChangesAreTold`, `PanelFollowsFocus`, `ShownTakesEffect` | `ConfigurationTypeOK`, `ChangedTellsEdits`, `PanelShowsModes`, `ShownIsInForce` | `ArrayConfigurationProofs` |
| `LocksExclude`, `BookkeepingHolds` | `Exclusion` (the refinement to `RWLock`), `Consistent` | `LocksProofs` |
| `InitialisedOnce` | `CalledOnce`, for finitely many threads | `LocksProofs` |
| `LookupsCurrent`, `FilesLoadOnce` | `AnswersCurrent`, `LoadedOnce` | `GettextProofs` |
| `CatalogFindsItsMessages` | `FindsItsMessages`, for every file `msgfmt` writes and every message | `CatalogProofs` |
| `TheWholeText` | `PrintsAsC`, for every format, system, function, buffer and length of what directives make | `PrintfProofs` |
| `EveryDirectiveFits`, `SprintfRoom` | two parts of it: the buffer for a directive of any format (`DirectivesFit`), the room under `sprintf` for any conversion (`HasRoom`) | `PrintfProofs` |

**Types and pages.**  `TypeOK` is not inductive.  The labels of a list are made
from the size of its current page, and that size is a number only while the
page starts inside the list; a page reached by paging up starts where the
history says.  The strengthening (`GoodTables`) adds that the page size is
positive, that the start is inside the list (`Inside`), and that the history
climbs from 0 to below the start (`WayBack`), which is what makes the way back
lead to the first page even when the panel has changed the page size in
between.  The lemmas go operator by operator (a well-formed context stays one),
then `KeyEventTyped` goes through the cases of `process_key_event` and
`TypeInvStep` through the other calls.

**The screen.**  The five are proved together (`ScreenInv`), next to `TypeInv`.
They are inductive as a conjunction: that a code opened by a root stays visible
while keys are appended and erased needs that it was visible before; that
paging and `focus_in` put nothing on the screen in English mode needs that
nothing is composed there.  Inside a method the screen is behind for a while,
since a key is appended first and sent afterwards.  So the lemmas are about
contexts: `CodeSent` is what holds between `pre_update_preedit_string` and
`process_preedit_string`, `Closed` what `reset()` leaves, and `Screened` what
every method ends with.

**The choice.**  The same contexts, followed for the list instead of the
screen: `FromTables` (a list is one the tables have for the code), `Pending` (a
press has something to commit).  The action properties `CommitsMean`,
`CommitsEnd` and `SpecialCodesConfine` then go through the sites that commit,
each of which hands `send_commit_string` a candidate of the list in force.
What goes to the client and to the auxiliary area besides (`Tells`) is followed
along the same sites.  Here the screen matters again: a key that composes
nothing is handed on beside an empty screen because a list is shown only while
there is a code (`ListNeedsCode`, an invariant of its own), and a digit commits
what is drawn beside it because the list drawn is the list in force.  That
space goes round is `WayBack` again: the first page left is page 0.

**Matcher.**  `MatcherInv` says what a state of the compiled pattern stands for:
there are places in the pattern, one per state, between which its symbols lie
(`StatesStand`), and while `match` runs there is a cut of the word read so far
into the symbols passed (`CutSoFar`).  So a word let through has a cut into the
whole pattern.  That none is missed holds for the patterns whose stars come
last: there, before a star, every cut gives each symbol the one character the
matcher gives it (`OneEach`).  Behind a star it is false, see above.

**Tables.**  From the file to the maps the invariant (`Loaded`) names, at each
stage, the lines that what is in the buffer or a map came from: `place` is a
bijection from positions to declaring lines, sorted and, unless the reverse map
was built first, stable; `from` says where an entry of a map begins.  Sorting is
characterised, not computed: `Moves` says that what comes out is what went in,
and that is enough.  A search adds that the key sought is between `low` and
`high` when the map is in the order of its keys (`Seeks`), and a scan that it
has collected exactly the lines behind it (`Scans`).  The map of a table whose
mode says it need not be sorted, and whose file is not, is out of order; there
only `FoundWasDeclared` and `FindsUnordered` are claimed.

**Configuration.**  `DialogInv` and `FactoryInv` are inductive together.  The
first has the flag next to `Stored`: in the middle of a save the keys written
and not refused are stored as shown, and at rest with the flag down all are.
The second has `InForce`: without a reload due, what the engine has read is
what is stored.  `ShownTakesEffect` is `Stored` and `InForce` in
a row.

**Locks.**  The refinement maps what a thread holds to the abstract `holds`; a
nested call, a wait and every step of making a lock are stutters.  A take is
legal because the lock's counter `Agrees` with its holders: -1 for one writer,
n for n readers.  Which counter, and who counts as a holder, depends on the
style, so `LocksInv` has a part for each family: the primitive (`PrimitiveInv`),
`runcount` and the waiting writers (`CondsInv`), the owner's name and depth
(`OwnerInv`, where the hard fact is that the name read without the mutex is a
thread's own exactly when it holds the lock), and `runcount` with two wait
queues (`QueuesInv`, where an unlock counts the threads it wakes before they
run: `Granted`).  That a wait queue loses nobody when it is full, wraps and
grows is `Keeps`: the ring lists a set of threads, each once.  Common to all is
`MadeInv`: behind an unset flag nobody holds anything, and one thread at most
makes the lock.  The assumption `LocksAssumption` says that locks are of the
styles `lock.h` defines, and that without threads there is one user.

**Once.**  One invariant for each style.  On Win32, `started` counts the
threads that are about to take back their increment and one more as soon as one
is chosen, so no second one is.

**Lookups.**  `LookupInv` is what a lookup relies on while others run.  Of a
thread: no language before the one it is at has the message, nor has any file
before its place in the chain of forms (`Past`, `InLanguage`, `Returning`), so
that the first one found is the one in force.  Of the list of files: one that
is being decided is its loader's (`Loads`, `FilesOK`), so nobody reads it
twice, and a form in the list has its less specific forms there too.  Of
conversions: what is stored is what `iconv` would give now, or a failure, and
only if failures are allowed (`ConversionsOK`).  Of the tree: an entry whose
counter is the present one holds the present answer or is `Torn` (`CacheOK`).
The calls that change settings hold the lock alone (`Locked`), and raise the
counter, after which no entry counts as present.  The assumption on names,
`SetupAssumption`, is needed: `_nl_find_domain` expands an alias only where the
list has no file of that name yet, so with an alias of an alias, or one among
the forms of another name, the answer depends on what was looked up before.

**Catalogs.**  The loops of `Catalog` are functions on an interval of numbers,
each value made from the one before.  The library's induction theorems cannot
be used here, but for a set of numbers the argument is elementary: a set without
a least element is empty (`Least`, `Induction`), so there is one such function
(`Recursion`).  The hash table rests on its size being prime: then no multiple
of the increment below that size is a multiple of it (`NoMultiple`), so the way of
a string meets no index twice (`WayPassesEverySlot`), hence every slot.  A
table `Keeps` what was entered when another string is (`InsertKeeps`): the way
of each string in it leads to that string before it leads to a free slot.
Strings differ in number from slots (`FreeSlot`), so a search for anything else
ends at one.  The binary search keeps what it looks for between its bounds and
halves what is between them (`Narrows`), because `strcmp` is an order
(`SmallerTrichotomy`, `SmallerTransitive`).  The strings with segments are
entered behind the others, with numbers that go on from theirs
(`WithSysdepFinds`).

**printf.**  Parsing keeps `InPlace`: the directives stand behind each other in
the format, each with fields no longer than the longest, and the arguments they
use are registered with their types.  From it the buffer for a directive is
large enough (`EveryDirectiveFits`).  Of the result, one thing is kept from
directive to directive (`Reached`): while nothing failed it is `Sound`, that is,
it has as many characters as the text up to there and memory for them, which is
the caller's unless the text did not fit there; after a failure it is what there
is against a directive so far (`Fault`), or memory is `Short` for the text up to
there.  That what is against a directive is an abort only where the room is
misjudged is `AbortsAre`: the text C may make is compared with the room asked for
(`RoomIsAsked`, `RoomCompares`).  Under `snprintf`
that rests on the attempts: the result grows with every attempt but the one that
learns that there is no `%n` (`Grown`), so they end.  What the callers make of
such a result is a case for each (`PrunedIs`, `WrittenIs`, `UnboundedIs`,
`AllocatedIs`).  `PrintfAssumption` supposes of the constants what `Limits` says,
that sizes are numbers and `malloc` serves none as large as `SIZE_MAX`; of a
call, that its buffer is smaller than `SIZE_MAX` and that what a conversion makes
is no shorter than its width and no longer than C may make of it, or fails.
`SprintfRoom` compares, conversion by conversion, the
estimates of `vasnprintf.c` with the longest text C may make.

Only model-checked:

- `Ends`, `Served` and `CallsReturn`: liveness, which rests on fairness and is out
  of the prover's reach.
- `TriesForms` and `PluralFormsAsC`: what the RECURSIVE operators of `LocaleNames`
  and `Plural` compute for every input needs induction over trees and lists of
  any shape, and the prover does not accept such operators.  They are checked
  for every input within the bounds.
- `IntlTypeOK`: one invariant over all parts of the library.  Places, holders and
  files of a lookup are in `LookupInv`; that the bindings are in order rests on
  `SelectSeq`, a recursion again, and so does the order of the list of files.

## Not modelled

- Of the engine: the preedit caret (`move_preedit_caret` does nothing), help and
  authorship texts, logging, redrawing of property menus; the text of widgets.
- Of message lookup: byte order and offsets of a `.mo` file, the storage of
  converted strings (which lookups under a shared read lock reallocate,
  `dcigettext.c` 1031: listed as a hazard), branches for building inside libc.
- Of the locks: `gl_tls`, which `intl` does not use.
- Of printf: the functions on `wchar_t`, which are the same sources compiled
  again.
- `localename.c`, `localcharset.c`, `langprefs.c`, `relocatable.c` and the small
  wrappers: tables of identifiers, one per platform; what they answer is an
  input of `Gettext`.
- SCIM itself, the data files, translations, the build.
