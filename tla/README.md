# Buildroot, modelled and checked

This directory is a verification project for the Buildroot tree in this
repository (`src/buildroot-2023.02`) and the two board-specific trees beside it
(`src/buildroot-external-s5000c`, `src/buildroot-output`). It contains TLA+
modules translated from the scripts, makefiles and C programs, TLC
configurations that model-check them on small instances, and proofs, checked by
TLAPS, of theorems about them for every value of their constants.

Paths below are relative to `src/buildroot-2023.02` unless they start with
`src/`. `PROJECT.json` names the lines every definition was translated from
(`map`), the hazards of the code and the properties that cover them
(`hazards`), and for every property a change of the code it would catch
(`mutants`; the changed definitions are in the modules, commented "Mutant").

## 1. The system and its components

Buildroot is a set of makefiles run by GNU make, some 2,700 package recipes, a
set of shell and Python scripts, and a few C programs: the configurator in
`support/kconfig`, which every build begins with, and `makedevs`, which ends it.
Nearly all the state is in files. Its hard behaviour comes from five sources:
several makes, or jobs of one make, work on the same files; any of them may be
killed or fail in between; users start make again and again, with commands that
act on a single package; rules of one package act on files another one left;
and the configurator keeps what it calculated until it believes it has changed.

| Component | State | Operations | What is hard | What makes it correct | Modules |
|---|---|---|---|---|---|
| **Download wrapper** `support/download/dl-wrapper`, `check-hash`, the `DOWNLOAD` macro of `package/pkg-download.mk:100` | the file in `<pkg>_DL_DIR`, the legacy file in `BR2_DL_DIR`, a lock, a temporary directory and a temporary file per run | one script per download: take over the legacy file, check, loop over locations, verify, publish | parallel packages and several build trees share `BR2_DL_DIR`, with different `.hash` files; a run may be killed at any point; extraction reads the file *outside* of the lock | the file is whole or absent, is what the `.hash` file lists when success is reported, and stays what it is for whoever relies on it; every run ends | `DlWrapper`, abstractly `DlStore` |
| **Steps and stamps of a package** `package/pkg-generic.mk`, `support/scripts/apply-patches.sh` | a stamp file per step, the sources, the list of applied patches | download, extract, patch, rsync, configure, build, install to staging, images, target and host; `-reinstall`, `-rebuild`, `-reconfigure`, `-dirclean` | resumption after a failure or kill, order-only and normal prerequisites, parallel makes, patches that are not idempotent | a trusted stamp stands for a completed step; dependencies are whole when a package needs them; a patch is applied once; commands redo what they say and nothing else; builds resume and end | `PkgSteps` |
| **Per-package directories** `package/pkg-utils.mk:211-235`, `PPD_FIXUP_PATHS` in `pkg-generic.mk:99-107`, `Makefile:713-737` | a `host`/`target` tree per package, made of hard links, and the merged tree | fill from the dependencies, fix up paths, install, merge in alphabetical order | hard links share contents between trees; trees become stale when one package is built again | a package sees its dependencies and nothing else, with its own paths; the image holds the latest builds | `PkgDirs` |
| **Users and groups** `support/scripts/mkusers`, run by `fs/common.mk` on a fresh copy of `target/` | the files passwd, group, gshadow; the `chown` lines of the fakeroot script | five loops over the users table | ids given in one line collide with ids chosen for another; the files are changed while they are checked; entries are removed and added again | ids are unique, given ids win, home directories belong to the ids users have at last | `MkUsers` |
| **Device table** `package/makedevs/makedevs.c`, run after mkusers | the tree of the image under fakeroot; the last file named, the arrays a line is read into, the exit code | one line at a time: directories, files, recursion, device nodes in batches, capabilities | lines undo one another; fields a line leaves out; links in a recursion; off-by-ones of batches | after success every line holds unless a later one is about the same path, and nothing else has changed | `MakeDevs` |
| **Kconfig library** `support/kconfig/{expr,menu,symbol,confdata}.c`, `zconf.y` | the tree of menus, properties and symbols; the value of each symbol, where it comes from, and whether it is up to date; `.config`, `auto.conf`, stamps | parse, finalize, evaluate, set, read, write, save a defconfig, compare with the build's | expressions are rewritten; values are cached; choices, selects and ranges restrict each other; files are read by a program whose options have changed | a rewritten tree means what the files say; what is written is legal, reads back and restores; each changed option has its stamp touched | `KRules`, `KExpr`, `KMenu`, `KSymbol`, `KConfData`, `KTree` |
| **conf** `support/kconfig/conf.c` | input mode, the place in the recursion, whether something changed | `oldconfig`, `syncconfig`, `defconfig`, `savedefconfig`, `allnoconfig` and the other modes | answers open other questions, before and after | an accepted answer holds, all that is new is asked for, the questions end | `KConf` |
| **menuconfig** `support/kconfig/mconf.c` | a stack of screens, the marks of `build_conf`, the name of the file, whether to save | the keys of each screen, search, jump, save, load, exit, SIGINT | a screen is drawn before the key that acts on it; searches jump into the middle of the tree; sessions end in many ways | every visible entry is offered and can be changed; jumps land; nothing is lost without a word | `KMenuconf`, abstractly `KSession` |
| **lxdialog** `support/kconfig/lxdialog/*.c` | window over a list or text, highlighted row, button, saved position | arrows, pages, hotkeys, buttons, ESC, resize | scrolling in five ways, rows drawn one by one, places found again by counting lines | the highlight is on an item, moves as the instructions say, and is what is taken | `LxLists`, `LxTexts`, `LxDialog`, abstractly `LxCursor` |
| Git backend `support/download/git` | a git cache per package under the wrapper's lock | init, fetch, checkout, archive; one retry from scratch | killed half-way, stale cache, repeated retries | one retry at most, a reused cache yields the same archive as a fresh one | planned |
| Other backends, post-processing | none of its own | one external command each | – | – | steps of `DlWrapper` that fail or leave any content |
| Lists of installed files `pkg-generic.mk:129-152` | `packages-file-list*.txt`, snapshots in the build directory | before and after each install step | interleaved installs, reinstalls that do not change a file | a file is listed for the package that installed it last | planned |
| Filesystem images `fs/common.mk` | copies of `target/`, the fakeroot script | one copy, one script, one image each | parallel images | images start from the same tree | its calls of mkusers and makedevs |
| `target-finalize` after the merge | `target/` | removals, stripping, overlays, hooks | idempotence over a tree that is changed in place | – | its in-place writes are `Edits` of `PkgDirs` |
| `legal-info` | `legal-info/` | collected again at each run | – | – | not modelled |
| br2-external, RPATH fix-up, infrastructure variants, other front ends of Kconfig, reports, pkg-stats, toolchain wrapper, tests, packages and boards | – | – | text generation, other widgets over the same library, read-only or data | – | not modelled; reasons in `PROJECT.json` |
| s5000c trees `src/buildroot-external-s5000c`, `src/buildroot-output` | `target_rj`, a startup script | recipes calling makefiles that are not in the repository; directory creation | – | – | not modelled |

How they interact. A front end of the Kconfig library writes `.config`; the
Makefile runs `conf --syncconfig` before the build, which updates `auto.conf`
and the stamps of changed options. Then `make` runs the steps of packages
(`PkgSteps`). The source step calls the wrapper for each file (`DlWrapper`),
which holds the lock; the extract step reads the file later without it. Before
a package is configured its directory is filled from those of its dependencies
(`PkgDirs`), which the prerequisites of the configure step made sure are
installed. When all packages are, their directories are merged, and each
filesystem image makes its own copy of the result, runs `mkusers` on it
(`MkUsers`), then `makedevs` with the names mkusers wrote (`MakeDevs`). These
components meet through files only, and each module takes what it needs of its
neighbours as a guard: `PkgDirs!DepsInstalled` is what
`PkgSteps!DepsInstalledFirst` establishes, and what extraction needs of the
download is `DlWrapper!ReadyToExtract`. The parts of the configurator call one
another instead, and so do their modules: `KConf` and `KMenuconf` extend
`KConfData`, which extends `KSymbol`, `KMenu` and `KExpr`. `KMenuconf` and
`LxDialog` meet where a dialog returns: what the one takes for the entry under
the cursor is what `LxCursor` promises of the other.

## 2. Modules and the code

### DlStore and DlWrapper

`DlStore` is the promise of the download cache: one `file`, absent or whole, and
clients that `Ask` and are told ok (`Grant`) or not (`Refuse`). In between the
legacy file may be taken over (`Migrate`), a file the asking client's hashes
reject be dropped (`Discard`), and a file appear in one step (`Publish`).

`DlWrapper` has an action for each command of the script that changes or tests
shared state; `pc[c]` is the place in the script.

| Action | Code |
|---|---|
| `Start`, `Acquire` | the `DOWNLOAD` macro: `flock $($(2)_DL_DIR)/.lock` around the wrapper |
| `Legacy`, `Copy` | `ln \|\| cp \|\| true`; `cp` creates the file first, fills it next, may fail in either |
| `CheckExisting` | an existing file is kept (0), kept with an error (no hash for it, bad algorithm), or removed (mismatch) |
| `NextUri`, `Fetch`, `PostProcess`, `Verify` | the loop over locations; every tested failure goes on with the next |
| `MkOutput`, `SetMode`, `Cat`, `RemoveTmpd`, `Rename` | publication: `mktemp`, `chmod`, `cat`, `rm`, `mv`; a failing `cat` or `mv` removes both temporaries |
| `Stop` | `set -e` (line 18): a command that nothing tests fails and the script ends where it is: `mktemp`, `cd`, the mode and `chmod`, each `rm` |
| `Exit`, `Kill` | the end of the script, and a signal; whatever ends it, the kernel releases the flock, and what was not removed goes to `clutter`, with where it lies and how the run ended |

`check-hash` is `Verdict`: its exit code, for a `.hash` file that lists one
content, lists nothing for the file, names an unknown algorithm, or does not
exist. What is downloaded is *any* content in `Data`: a corrupt or truncated
download that the backend did not notice is a content no `.hash` file lists.
`Partial` is what a file holds while something writes it.

### PkgSteps

A node `<<p, s>>` is a stamp target. `Follows`, `DependsOn` and `OrderOnly` are
the prerequisites `inner-generic-package` writes, `Removed` what the
`-clean-for-*` rules remove. GNU make itself is not in `src/`; it is modelled
from what the makefiles rely on, and was compared with GNU make on a small
makefile of the same shape: a target is looked at once per invocation (`Look`),
*before* its prerequisites are updated; it is remade (`Start`) if its stamp was
missing, older than a normal prerequisite, or if one was remade; otherwise
`Keep`. `stale` stands for comparing times. `Finish` touches the stamp, the last
command of a recipe; `Fail` is any earlier command failing, `Kill` an interrupt.
`Parallel` is the set of commands that are run with `-jN`. Without it make goes
down one path at a time; with it (`Jobs`), whatever is ready starts, and goals
of one command line are pursued at once.

The patch step has its inner steps (`ListPatch`, `ApplyPatch`, `Duplicate`)
because `apply-patches.sh` is not idempotent: it writes the name of a patch to
the list *before* it applies it and refuses a name it finds there. `Unlink` and
`Dirclean` take the build directory apart file by file.

`produced` and `outdated` are ghosts: what the steps really left, whatever the
stamps say. Properties compare the stamps with them.

### PkgDirs

A directory maps names to inodes, `data` maps inodes to who installed the file,
in which build, whose paths it names and who ever wrote into it. `Link` is
`rsync -a --link-dest`. `Prepare` fills a directory from one dependency at a
time, in alphabetical order, `Fixup` is the `sed -i` of `PPD_FIXUP_PATHS` (a new
inode), `Install` puts a new inode, `Append` writes in place. `Rebuild`,
`Reconfigure`, `Dirclean` are the commands, `Interrupt` a kill anywhere, and
`BeginFinalize`, `Merge`, `Finalize` the end of the build. `Finalize` is the rest of
`target-finalize`: stripping, `os-release`, `fix-rpath` and hooks write in place to
`Edits`, or to some of them before a command fails. `host/` and `target/`
work alike and are one tree here.

### MkUsers

`phase` is the loop, `line` and `nth` the place in it. `Valid` is
`check_user_validity`, `Ids` the id `generate_uid` and `generate_gid` choose,
`AddOneGroup` and `AddOneUser` the functions of those names. A failing script
stops where it is (`Fail`), or after it has removed the user whose home it then
refuses (`FailHome`).

### MakeDevs

One action reads one line, by its type: `Directory`, `File` and `NoFile`,
`Recursively`, `Devices`, `Unsupported`, `SetXattr` and `NoXattr`, and `Skip`,
`Invalid` and `UnknownOwner` for the lines that do nothing or fail. A failing
line sets `ret` and the program goes on, a few faults end it (`Die`). `given` is
what the arrays of user and group hold: `sscanf` leaves them as they are when a
line stops short, so a first line without an owner has *any* owner (an
uninitialized array, a nondeterministic choice). `fullName` is the file a
following `|xattr` line is for. The tree is a function from paths to nodes, as
fakeroot records them. `bb_recursive` is a walk in some order (`Walks`), which
may stop at the first error; it does not follow links down, but `chmod` and
`access` of a link go to its target. `mknod` numbers wrap (`Width`).

### The Kconfig library: KRules, KExpr, KMenu, KTree, KSymbol, KConfData

These modules are mainly operators, one per function of the C code with its
name. A structure that the code changes in place is an argument and a result: `k`
is the tree, `st` what the symbols hold. Pointers are numbers of nodes and names
of symbols; `valid`, `user`, `write` and `need` are the flags of a symbol.

- `KRules` builds expressions and has one step of each function that rewrites,
  compares or evaluates them: `TransformRule(e, Rec, ty)` is what `expr_transform`
  returns for `e`, given what it returns (`Rec`) for whatever it calls itself with.
  Nothing in it is recursive, so that it can be proved about.
- `KExpr` ties the recursions, `ExprTransform` and so on, and has the functions that
  need the whole tree: `ExprEliminateDups`, which joins operands pairwise over a tree
  it changes on the way, and `ExprPrint`.
- `KMenu` has `Parse`, the action of the grammar for each statement, and
  `MenuFinalize`: conditions handed down (`Propagate`), selects and implies
  noted at what they force (`NoteCondition`), submenus made of the entries that
  follow and depend (`Submenu`), choices and their values, and the flattening of
  what is empty (`Flatten`).
- `KTree` is the state machine around them: parse, finalize, and the properties
  that compare the tree with the files.
- `KSymbol` has `SymCalc` (`sym_calc_value`) with everything below it, the
  setters, and `SymCheckDeps`, the search for circular dependencies with the
  marks it sets and takes back. The constants y, m, n and quoted words have the type
  `unknown` (`symbol.c:14-27`), and with it the comparison of strings or of numbers
  that `expr_calc_value` chooses by type. `Fold` and recursive operators follow the
  recursion of the code, so these modules are checked, not proved about.
- `KConfData` reads a file (`ConfRead`), with the code's comparison, reset and
  taking back of values, and writes: `ConfWriteLines`, `ConfWriteDefconfig`,
  `ConfSplitConfig` (the stamps) and `AutoconfLines`. A file is a sequence of
  lines that say a symbol and a value.

### KConf

A run of `conf` after another, with edits of `.config` in between. `Begin` picks
the mode; `Read`, `ReadSeed`, `MakeAll` are what it starts from. The recursion
of `conf()` and `check_conf()` is a stack of steps (`todo`), so that a question
(`Answer`, `Pick`, `Unasked`) is an action of its own with the user's answer as
its input. `Pass` is the loop `do ... while (conf_cnt)`; `Write`,
`SaveDefconfig` and `Exit` are the ends. After `Write`, `syncconfig` touches the
stamps one by one (`Split`) and then renames `autoconf.h` (`RenameHeader`) and
`auto.conf` (`RenameAuto`) into place; it may be stopped, by a signal or by an
error that returns 1, after some of the stamps or between the renames, and what
it did stays on the `disk`: `stamped` are the stamps younger than `auto.conf`.

### KMenuconf and KSession

Each call of `conf`, `conf_choice` or `search_conf` is a frame; the top one
draws (`DrawMenu`, `DrawChoice`, `DrawResults`), then waits for a key: `Enter`,
`Space`, `Set` (y, m, n), `Pick`, `Text`, `Help`, `ShowAll`, `Search`, `Jump`,
`Ask` for a name to save or load, `Leave`. Drawing evaluates symbols and sets the
marks `build_conf` sets, so it is a step and not a view. `Write` and `Load` are
`conf_write` and `conf_load` with their failures (`MayFail`), `Exit`, `GoOn` and
`Interrupt` the end. `KSession` is what any such program promises about its
files, for any set of configurations; `KMenuconf` is shown to implement it.

### LxLists, LxTexts, LxDialog and LxCursor

`LxLists` has the window of `menubox.c` and `checklist.c` as a record: items,
first item, row, and beside them what is on the screen (`rows`, `lit`, the
arrows), because the code draws single rows and scrolls the others. `LxTexts`
has the text box, which knows where a page begins only by counting newlines
backwards, and the input field. `LxDialog` is the loop of each dialog: keys,
buttons, a resize at any moment, and the caller opening the dialog again with
what it kept. The menu that runs off its list when it is drawn for another size ends in
the phase `"crashed"`. `LxCursor` is a list without any window, translated from the
instructions menuconfig shows (`mconf.c:43-130`); the menu and the radiolist are
shown to implement it.

## 3. The runs

TLC explores the following instances. All are bounded by constants that appear
in guards, or by the finite sets of inputs. Deadlock is not checked where the
system stops for good once the bounds are used up; `kconf` and the two runs of
`menuconf` check it, with a step of the shell at the end of a program, so that
only a program that runs can be stuck. `RunsEnd`, `ResumesToTheEnd` and
`Terminates` say that the code waits for nothing.

| Run | Instance | Shows |
|---|---|---|
| `dl_two_trees` | two trees, two contents, any pair of `.hash` files, any file and legacy file at first, links work, one location, post-processing; each client runs twice, is killed once and may be stopped by `set -e` wherever a command is not tested | the file is whole or absent (`NeverPartial`), a run that ends by an exit of its own leaves nothing in the shared directory (`DlDirClean`: only kills and `set -e` do), success means verified (`OkOnlyIfVerified`), and `DlStore` is implemented |
| `dl_copy_live` | the same without hard links, two locations, fairness | every run ends (`RunsEnd`) |
| `steps` | a library with `OVERRIDE_SRCDIR` and a program with two patches that needs it for both its patch and configure steps; two invocations with any of the five commands, `make` with `-jN`; one fault; fairness | stamps are honest, dependencies complete, patches applied once, commands do what the manual says, and nothing else; a make ends, and one after a fault completes the build |
| `steps_parallel_rebuild` | `foo-rebuild` under `-jN` | *violated*: finding 1 |
| `dirs_chain` | skeleton, library, program, of which the program writes in place to a file it took over and fixed up, the library to one it only shares, and the finalization to that one too; two commands; interruptions anywhere | what a package sees was written by its dependencies, and by those who write in place to that file and nobody else (`WrittenByDepsOnly`); the image is the latest if nobody is behind |
| `users_table` | all tables of up to two lines over a skeleton with `root` and `sync`; ranges of two ids | ids are unique, given ids win, users are in their groups, homes are owned by the right ids, the skeleton is kept |
| `makedevs` | all tables of two lines, and of three that act on the same paths, over trees with and without a dangling link | after success each line holds unless a later one is about the same path, capabilities are on the files they follow, nodes are those the program's usage text promises (the manual says otherwise, section 4), and nothing else has changed |
| `ktree` | some 5300 configuration files of up to five options: conditions of up to four tests, submenus in menus and ifs, choices, selects and implies, circular dependencies | the tree `menu_finalize` makes means what the file says for every value of the options, can be walked to every entry in the order of the file, prints and reads back, and a circular dependency is found exactly if there is one |
| `kconf` | five configuration trees; runs of `conf` in each of its modes after one another, edits in between, any answers, two throws of randconfig; `syncconfig` stopped between its stamps and renames, on one of the trees; fairness | what is written is legal, agrees with itself when read, and a saved defconfig restores it; answers hold and everything new is asked for; no option changes in `auto.conf` or `autoconf.h` without its stamp, whatever was stopped before; questions end |
| `menuconf` | sessions on four trees with two answers, saves or loads and any keys, up to three screens deep; the file of a save may fail to open; SIGINT at any time | every visible entry is offered, jumps land, keys do what is drawn, and `KSession` is implemented |
| `menuconf_load` | the same with a file to load that is not there | *violated*: finding 2 |
| `lxdialog` | any keys in the six dialogs on a terminal of 8, 9, 17 or 21 lines that changes at any key; empty, short and scrolling lists, texts of 1 to 18 lines, a field narrower than its text | every row has an item, except where a redrawn menu crashes (section 4), and the highlighted one is what is taken; it moves as instructed (`LxCursor` is implemented), and the place in a text is known |

Why the bounds are enough. Two download clients are all a lock can tell apart
(it is held or waited for), two runs allow a retry after each way to end, two
contents allow trees that disagree. In `steps` the first invocation leaves any
half-done state, by a fault or a command, and the second starts from it; two packages
with both kinds of sources, patches on one and dependencies between two kinds of
steps have every prerequisite the rules write. Three packages are the least with
a transitive dependency in `dirs_chain`. Two lines of a users table or a device
table are the least that disagree, and three the least where one undoes what the
other two agree on; ranges of two ids run out with three names. An option's
conditions are rewritten pairwise in `KExpr`, so four tests on two symbols reach
every rule of the simplification; submenus, choices and selects are decided
between neighbours, of which there are three. Runs of `conf` that only read back
cost nothing of their bound, so that every file an edit or a run made is read
back in every mode. A third screen is the first below a menu opened from a
search. The lists are shorter than, as long as and longer than the window at
each size of the terminal.
`dirs_chain` ignores what an unused inode held last (`VIEW`), and `dl_two_trees`
identifies clients and contents (`SYMMETRY`), which no definition
distinguishes; these runs check no liveness.

A property holds for the instance only, unless it is proved below.

### Fairness

`DlWrapper!FairSpec` has weak fairness of each client's `Step`: a command that
was started ends (backends have timeouts and retries of their own), and the kernel
hands a free lock to a waiter. With two clients of bounded runs no strong
fairness is needed. `PkgSteps!FairSpec` has weak fairness of make's `Work`:
recipes end. `KConf!FairSpec` says that a program that runs goes on, and that
its user answers, with whatever: its steps are always enabled while it runs, so
weak fairness is written as `[]<><<...>>` without ENABLED. Nobody has to start
anything, and no fault has to happen (`Kill`, `Fail`). The liveness properties
start from a run in progress for that reason.

## 4. Where the code does not do what it says

Two disagreements have a run that shows them.

1. *`make -jN foo-rebuild` may do nothing* (`steps_parallel_rebuild`).
   `foo-clean-for-rebuild` and `foo` are unordered prerequisites
   (`pkg-generic.mk:1065`); with per-package directories make is parallel at top
   level, finds the stamps in place and removes them too late. The run `steps`
   has `-jN` for `make` only.
2. *A failed load loses the changes of a session* (`menuconf_load`). `conf_read`
   sets the change count to 0 before it opens the file (`confdata.c:411`), and
   leaves it so when there is none; `handle_exit` then finds nothing to ask about.
   The run `menuconf` has no failing loads.

The others are stated where the modules or their properties take account of
them; each is a condition under which a property is checked, and is listed as a
hazard with that note unless it is too small.

- *A partial legacy file is accepted.* When `ln` and then `cp` of the legacy file
  fail (`dl-wrapper:63-64`), the partial file `cp` left is taken for the
  download, and without a `.hash` file the wrapper succeeds, against its comments
  on atomicity (line 4) and fallback (line 58). `NeverPartial` has the condition
  `AtomicLegacy`.
- *A run that is not killed can leave a temporary in `BR2_DL_DIR`*, against
  `dl-wrapper:14-15` ("If anything goes wrong, we just remove all the
  temporaries created so far"): after `mktemp` has made
  `tmp_output` (line 182), a failing `chmod` or `rm` (196-197, 213) ends the script
  by `set -e`. A failing `mktemp` there leaves the whole download in `BUILD_DIR`.
  `DlDirClean` names these ends, beside kills.
- *Packages are not isolated from in-place writes*: `--link-dest`
  (`pkg-utils.mk:220`) shares contents, against `Config.in:724`.
  `package/libselinux/libselinux.mk:76` is such a write, and so are those of the
  finalization itself, to files that the image shares with the packages'
  directories (`Makefile:750-751`, 764, 768): a package that is built after it
  sees what it wrote. `WrittenByDepsOnly` names the writers of each file
  (`InPlaceWriters`) and says that there are no others.
- *A rebuilt package does not reach the image*: the merge in alphabetical order
  (`Makefile:723`) puts the stale copy in a dependent's directory over the new
  file, against `docs/manual/rebuilding-packages.txt:121`. `ImageUpToDate` is
  about images none of whose packages is older than a dependency.
- *A group can be renumbered unnoticed*: `mkusers` writes groups before
  `check_user_validity` compares their gid, so the check of `mkusers:157`
  compares a gid with itself. A line that only describes a group is never checked
  (`mkusers:415`), and a group written again loses its members in gshadow
  (`mkusers:250`). Such a line with a uid of 0 or below -2 even gives that number to its
  additional groups, as their gid (`mkusers:433`).
- *Configurations can be lost.* The old `.config` is renamed away before the new one
  takes its place (`confdata.c:831`): a crash in between leaves none. After a
  second rename that fails, the next attempt writes an empty file and succeeds,
  because the marks of what to write are used up and are only set again when
  nothing has changed. With `"rename"` in `MayFail`, TLC finds it.
- *Values can be stale after reading*: a number out of range is taken back
  (`confdata.c:466`) without recomputing what was calculated from it, and
  `olddefconfig` writes the result. `KConf` marks such a file (`"unlike"`).
- *A menu can crash when the terminal gets another size*, against "crash-safe"
  (`lxdialog/menubox.c:45`): `first_item` is not reset on a redraw
  (`menubox.c:251-266`), and when the menu now begins at its first item, but is printed from the old
  `first_item`, the last rows have no item and `item_set` runs off the list (in a
  terminal that grew, for instance). `LxLists!Broken` is that test; `CursorOnItem` names the case, and
  shows that there is no other. What the screen shows after a resize is not covered by
  `HighlightedIsTaken`. Also after a resize: the first button is drawn as active
  while another is, a menu moves its highlight, and a text box
  jumps. A text box accepts a terminal of 8 lines (`TEXTBOX_HEIGTH_MIN`) and then
  has none to print in (`textbox.c:81-112`), so that the place in the text is not
  known until it grows. In a text without a newline at its end the counts
  are one off, in a radiolist the hotkeys S and H shadow select and help, and a
  terminal too small for the question at the end loses the changes.
- *Expressions*: `FOO="y" && FOO!="2"` of a tristate is made `FOO="y"`
  (`expr.c:531-546`), because two different constants are taken for different values; but "2"
  is compared as a number, and is what y is, so that it never held (`NoDigits`). The
  comment at `expr.c:561` says that `(a!='m') && (a!='n')` becomes `a='m'`; the code,
  rightly, makes it `a='y'`. And `expr_trans_compare` takes "not n" of a negation for
  "n" of what is negated, so that of a `!FOO` that is m it says n
  (`TransCompareMeans`).
- *ESC at the question a signal asks* leaves without saving although the dialog
  says that ESC continues (`mconf.c:967`, 1004).
- *Endless questions*: `conf` asks again for ever when its input ends at a value
  that is not accepted (`conf.c:135`) or at a choice.
- *The manual's loop over device nodes is another one*:
  `docs/manual/makedev-syntax.txt:37-39` says that it begins at `start` and
  increments by `inc` until it reaches `count`. The code
  (`makedevs.c:625-641`) makes `count` nodes numbered `start`, `start+1`, ...,
  and only their minor numbers grow by `inc`, as the program's usage text
  has it (`makedevs.c:415-436`), which `NodesMade` follows.
- *makedevs* gives a directory whose line sets no permissions all bits
  (`makedevs.c:180`, a -1 that is a `long` here), applies type d to a regular
  file (line 565), and fails on dangling links it says it skips (line 449).
- `restart` of the board's startup script names no program
  (`src/buildroot-output/base_dir_create.sh:150`).

## 5. The proofs

TLAPS proves the theorems for any sets of clients, expressions, packages, files, users, lines,
items and terminals, and any bounds, under the named assumptions on constants,
which TLC evaluates on every run.

**DlWrapper_proofs** (assumptions `DataAssumption`, `BoundAssumption`).
`NeverPartial` and `ReadyToExtract` are not inductive: what is published must be
known to be checked and whole, and what is relied upon must not be in the hands
of another run. `IndInv` adds `LockInv` (the lock is held exactly inside the
script), `PublishInv` (there is no file while a run downloads; the temporaries
hold what was verified) and `CopyInv` (a copy in progress is nobody's). From
`Invariance` follow `Atomicity`, `Extractable`, `FetchAlone`, and the action
properties `Verified` and `Kept`. `NoLitter` has a small invariant of its own: a
temporary in `BR2_DL_DIR` exists only between `mktemp` and `mv`, which a run leaves
by a signal, by `set -e`, or by removing it.
`Implementation`: when links work, every step of the wrapper is a step of
`DlStore` or leaves its variables unchanged (`StoreStep`, one case per action). Without
hard links the store is *not* implemented: a partial file can be seen.

**PkgSteps_proofs** (`PkgAssumption`: there is a package, and the tables of
dependencies, installations and patches are what their names say). Everything
the run `steps` checks but liveness is proved, for any packages, dependencies
(cycles included: no step of a cycle ever starts) and numbers of faults and invocations.
`HonestStamps` and `ActsOnNothingElse` hold however make is called. Their invariants
say that what make knows is not older than what it acts on: `Knows` (a step that
it will run or runs has no stamp to trust; nor has one above a step that was made in
this invocation), `Removes` (what a command still has to remove it will run
again), `Contained` (in a build that was complete, only what the command is
documented to run again is missing, which `AllowedUp` carries from a step to
those that continue it). The other three are proved for `Parallel \subseteq {"all"}`
(`Serial`): the violated run `steps_parallel_rebuild` (finding 1) is why it is there.
`Waits` says that what make is through with is trusted and waited for all it
needs; `WholeThrough` follows it down the chain of a package, which gives
`DependenciesFirst`. `Patches` ties the list of applied patches to the sources and to the
position of the running script, and says that sources with listed patches are not
extracted again (`PatchingWaits`). `Again` follows each stamp of a command from the list
of removals to the step that makes it anew, which gives `CommandsKeepTheirWord`.

**PkgDirs_proofs** (`PkgAssumption`, `RdepsAssumption`: recursive dependencies
are closed). `Isolated` and `PathsOwned` hold with any commands, interruptions
and in-place writes. `OwnPaths` is inductive together with `TypeOK`, because a
write in place changes who wrote but not whose paths a file names, and every new
path is put in a new inode (`FreshRoots`, `SameRoots`). `SharedUnspoilt` proves
`WrittenByDepsOnly` for any packages and a finalization that write in place to any files, without a
condition: an inode is only ever linked under one name (`OneName`), so that a
write in place spoils files of that name and no others, and what a package
fixed up for itself is its own (`WritersInv`). `Image` proves `ImageUpToDate` for any commands
and interruptions, if each file has one package that installs it and who appends to
it depends on that package (`OneOwner`), and if dependencies have no cycle
(`RecursionAssumption`; make refuses one). "Up to date" is not inductive: its
invariant `ImageInv` follows a build of a file on its way. The package itself has
it (`OwnFiles`), a directory that is being filled has it for each dependency
already copied (`Filled`; nothing it is filled from changes meanwhile, `Ready`),
a configured package that is not behind has it (`Current`), and the
image has it for each package merged (`ImageFilled`). That the alphabetical
order of the merge does no harm is the step for `Merge`: a package that was
not behind overwrites a file only with the same build of it, because whoever depends
on a package that is behind is behind as well (`UpClosed`).

**MkUsers_proofs** (`TableAssumption`, `RangeAssumption`, `SkeletonAssumption`:
the skeleton has unique ids). `UniqueUids` holds in every state, not only at the
end, and needs `TypeOK` only. `MainGroups` and `Homes` are about the end of the
script, where every line is served; `IndInv` says for each point of the five
loops which lines were grouped (`HasGid`) and served (`InGroup`, `OwnersRight`,
`HomesMade`). The crucial step is that a later line for a user served before
cannot change its ids: `Valid` ties the line to the uid and group the user has
(`UserStep`, `StillServed`). The other four properties need two more invariants.
`GroupInv` is about the group file and holds while groups are still being
written: a given gid stays unless another line asks for another
(`GivenKept`), and if two groups share a gid, a line asked for it
(`SharedGiven`). `UserInv` says that what `check_user_validity` found of a line
is still true after every later line (`Checked`), and who is in each group
(`MembersRight`, `ShadowHas`). Together they give `UniqueGids`: two groups with one
gid would have been refused when the line that gave it was checked. The first
proof attempt of `GivenIds` failed for a good reason: a line that only describes
groups and has a uid of 0 or below -2 hands it to its additional groups as a gid,
so `Undisputed` has to speak of these lines too.

**MakeDevs_proofs** (`NumberAssumption`, `NameAssumption`, `TextAssumption`,
`TableAssumption`, `SkeletonAssumption`, `IdAssumption`: numbers, names, lines and
trees are what C makes of them; `NumberedAssumption`: different numbers make
different names). All four properties are proved, for any tree with any links and
any table. Each entry is shown to have the same kind of effect (`Entry`): it gives
what its line says to the paths its line is about, and adds nothing else but
directories. `TreeInv` is then kept line by line. It says that nothing was
replaced (`Grown`: links, and with them what the names of later lines stand for,
are those of the skeleton), what the last named file is (`LastNamed`, for the
capabilities), that a line that did not fail left what it is about in the tree
(`AboutThere`), that the lines read so far hold (`LinesHold`) and that the nodes
are those of the lines read so far (`NodesSoFar`, with the count that `main`
decrements and compares with `<=`). `ChangedByLine`, and with it `Untouched`,
holds after failures too. The proof corrected what the properties take a line to be about
(`About`): a d line for a link to a directory that an earlier line had made
implicitly, and an `|xattr` line after an entry of another type than f whose name
is that of a file.

**Kconfig_proofs** (`TextAssumption`: strcmp tells strings apart) is about two
things. The first is what `KTree!MeaningKept` rests on: expressions of any size, over any
symbols, mean the same after each function that rewrites them. What cannot be stated
is a recursion (section 2), so each theorem is about *any* operator that obeys the
rule KExpr defines it by (`TransformObeys`: `Transform(e) = TransformRule(e,
Transform, ty)` for every expression `e`), and the recursive operators of
`KExpr` do, by their definitions. Their other hypotheses are about one calculation of the symbols.
`Calculated` says that values are those of a tristate, that the text of an option is
that of its value, that no boolean is m and that constants stand for
themselves; the run `kconf` checks it of everything that is calculated, in every state
(`KConf!Calculated`, a part of `Legal`). `Tested` says that only booleans,
tristates and the constants y, m, n stand in a condition without a comparison, and
`NoDigits` that no quoted word is the number of a tristate, without which
`JoinAndKeepsValue` is false (section 4).

An expression is defined without recursion: it is a member of some set whose members are built of
each other (`Built`), with a size. A negation weighs twice what it negates, and a comparison
2, because `expr_transform` turns a negated `&&` into an `||` of
negations and calls itself with it: only so is that smaller (`NegatedOperands`,
`TransformKeepsValue`). The size also makes strong induction available, as a statement
about the set of sizes for which a theorem holds (`EveryNumber`). Then:

- `YnKeepsValue` and `TransformKeepsValue` are about the value, case by case;
  `TestOfKeepsValue` is where booleans are never m.
- `TransBoolKeepsMeaning` and `TransCompareMeans` are about `Sharp`, the value when
  m is read as y: `FOO!=n` is y where FOO is m.
- `EqMeansSameValue` is the hard one. `expr_eq` strikes operands out of both
  expressions while it compares them, recursively and through both sides, and
  compares what is left. `Struck` says that what was struck has one value `K` for
  both, and that the rest has at most the size it had; `SoundAt` combines it with the claim
  itself, by induction on the sizes of both together (`SplitFirst`,
  `SplitSecond`, `StrikeOut`, `EqSound`).
- `JoinOrKeepsValue` and `JoinAndKeepsValue` go through the joined pairs and use it for
  the operands that are equal.

What is not proved of expressions is that `expr_eliminate_dups` puts what it joined
back at the right places of the tree it is walking (`PutAt`), and that it stops: `ktree` checks it.

The second thing: `NothingIsLost` is
about the abstract session: what the file holds equals what is shown whenever
nothing has to be saved (`IndInv`). Since `menuconf` checks that `KMenuconf`
implements `KSession`, it holds of its sessions wherever that refinement does:
not for a failed load (finding 2).

**LxWidgets_proofs** and **LxDialog_proofs** (`DialogAssumption`: lists, texts and
sizes are what their names say, and a radiolist has a value to choose). `LxWidgets_proofs` is about one window: each key moves
the highlight by what it should (`Moved`) and keeps the window on the list
(`ListOK`), however it scrolls; `MenuDrawOK` and `CheckDrawOK` are about the
first drawing for any saved position and any size, which need the arithmetic of
`PlaceArith`. `LxDialog_proofs` combines them: `HighlightIsOnAnItem`
(`CursorOnItem`: an item for the highlight in `DialogInv` and for every row on the screen in
`RowsInv`, with resizes at any moment, of which the one that crashes is named in
the statement: a menu drawn again, at its first items, with a `first_item` of before), and
`KeysMoveTheHighlight`: a menu or radiolist of any length in a terminal of any
sizes implements `LxCursor`, whose definition knows of no window at all.
`WhatIsSeen` is about the screen: the code never draws a list again but prints
single rows and scrolls the rest, so `ScreenInv` says what each row
shows, which one is lit and whether the arrows are right (`OnScreen`). A key takes
the highlight away (`UnlitBare`), scrolls or moves (`ScrollBare`), and puts it
back (`LitShown`); in between no row is lit, which is what makes the sequence
right. The only exception is a menu after a resize, as the code draws it.
`EntryCursor` is the part of `Placed` about the input field (`EntryPlaced`): however a
line is edited, the cursor is in the field and is where the next character goes;
its hypothesis `FitsBuffer` is that the text the field begins with fits in the buffer.

`TextPlace` is the part of `Placed` about texts, for texts of any number of lines and
boxes of any height; `PlacesAreKnown` joins the two into `Placed`. The code keeps no
record of where a page began, so the proof counts. `Starts` are the places where
a line begins, `LineAt` the number of newlines before a place; `NextRow`, `RowLess`
and `RowOnce` say that the two number the same lines, by the cardinality of the
set of newlines before them. `GetLine` and `BackOne` are one round of each loop: the
row goes one up until the last, and the *spot* one down until the first, where the
spot of a text whose end was read is one more than its row; the first round of
`back_lines` only takes that back. The loops themselves (`Times`, a recursive
function of the number of rounds) are shown to exist (`Iterates`) and then to move by
`n` rows or to an end (`GetLines`, `BackLines`, `PrintLines`), by induction written as
a statement about sets of numbers (`UpTo`: a set that has 0 and with each number
below `n` the next one has all up to `n`). `PrintPage` follows: after a page,
`page_length` lines back is its first line, and each flag says whether that end
is shown (`PageKnown`). `TextInv` keeps this over keys, answers, reopening at the line
the caller kept, and resizes at any moment; texts without a newline at their
end only keep their place within the text (`AnyBox`). The proof attempt found
what no run had: in a terminal of exactly `TEXTBOX_HEIGTH_MIN` lines the box has
no line at all (section 4), and nothing is known of a page that was printed
there, so `TextPlaced` now asks for a box of at least one, and the run has a
terminal of 8 lines.

Proved without a run of their own: `TypeOK`, `ReadyToExtract`,
`FetchOnlyIfAbsent`, `KeptUnlessRejected` of `DlWrapper`; `Isolation`, `OwnPaths`,
`ImageInv` of `PkgDirs`; `UidsUnique`, `InMainGroup`, `GroupInv`, `UserInv` of
`MkUsers`; `TreeInv` of `MakeDevs`; `NothingLost` of `KSession`;
`EntryPlaced` of `LxDialog`, which the run checks as a part of `Placed`. TLC was
used on the same instances to find them before they were proved.

Model-checked only:

- liveness (`RunsEnd`, `ResumesToTheEnd`, `Terminates`): fairness and ENABLED are out of
  the prover's reach;
- what the Kconfig library, `conf` and `menuconfig` do with whole trees, tables of symbols and
  files (`MeaningKept`, `StructureKept`, `PrintedReadsBack`, `RecursionFound`, `Legal`,
  `QuestionsServe`, `Settled`, `DefconfigRestores`, `StampsCoverChanges`,
  `EverythingOffered`, `JumpLands`, `KeysWork`, `Session`): their operators are `RECURSIVE`, over
  trees and sequences, with which the SMT backend is lost. (A single step of a recursion is in reach,
  as the expressions show, and loops and folds over numbers are, as the text box does:
  as recursive functions, with induction over a set of numbers.)

## 6. What the models leave out

- *DlWrapper*: which location is tried is a count; options and names; what a
  backend does inside (git's cache above all); several files of one package,
  which share the lock but no file. A `.hash` file with lines that contradict one another.
- *PkgSteps*: hooks, `-legal-info`, `-source-check`, `-show-*`, `-kconfig`
  stamps; the order in which make considers prerequisites is any order. A package
  whose dirclean was interrupted (`torn`) has stamps over missing files, and one
  interrupted while it is patched cannot be resumed: both are what the code does,
  and the properties name them as exceptions instead of hiding them.
- *PkgDirs*: the directories are filled once, before configuration, and not again for
  download and extract dependencies; files that disappear (hooks, finalization);
  symbolic links; `host` and `target` apart.
- *MkUsers*: passwords, shells, comments, the order of lines in the files, the
  limits on names; a skeleton whose files do not agree.
- *MakeDevs*: the length of lines and memory; links that lead to other links or out
  of the tree; a walk that fails for lack of descriptors. Permissions are compared
  only.
- *Kconfig library*: the lexer and what the grammar rejects; `source`, the
  environment and string expansion; help texts and comments on dependencies;
  warnings; `conf_write` ignores errors of the writes themselves
  (`confdata.c:826`), which are not modelled; the hash table of symbols; in
  `ktree`, numbers and strings (they are in `kconf` and `menuconf`).
- *KConf*: the end of the input, and answers that ask for help. Bounds on the stops
  (`StopsOf`): they happen in one of the five trees, after one or three stamps or
  after the rename of the header; the next run after one is another `syncconfig`, which
  the Makefile starts again, with any edit of `.config` before it.
- *KMenuconf*: where on the screen an entry is (that is `LxDialog`), the texts of
  help and search results but for the entries and keys they show; a search is a
  set of symbols that match; more than `JUMP_NB` places; the second session that
  a failing terminal starts.
- *Lx*: colours and columns; texts wider than the window; a radiolist without any
  value, which its caller does not open; the item list of `util.c` is a sequence.

Components that are not modelled, with reasons, are in `PROJECT.json`.

## 7. Plan

Done: the five components of the build with the most intricate state, then the
configurator, each with its runs; eight modules with theorems, which state every
safety property of the components of the build, all of lxdialog, and what the
simplification of expressions must not change.
What would come next, in this order:

1. A proof of what `KMenuconf` and `LxDialog` promise each other, and a session of
   menuconfig with the crashes and renames of `conf_write` as steps of their own.
2. `GitBackend`: the cache and its single retry, as a refinement of `Fetch`; a
   reused cache, a killed run, a moved branch.
3. `FilesList`: the lists of installed files, against the package that installed
   a file last.
4. `PkgDirs`: filling again for download and extract dependencies, removal of
   files.
