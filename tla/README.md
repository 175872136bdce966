# Magic Set Editor: verification development

Magic Set Editor is a desktop program (C++, wxWidgets) for designing trading
cards. A user edits the *values* of the fields of cards; *scripts* of the game
keep the values and the styles that depend on each other current; every edit is
an *action* on an undo stack; pictures and data live in a *package*, a zip file
or a directory; thumbnails are drawn by a *worker thread*.

This directory models the parts of it that hold state with a protocol: TLA+
modules, configurations with which TLC checks them on small instances, and
proofs checked by TLAPS. Paths in this file are relative to the repository's
`src/src/` (its C++ sources; `PROJECT.json` writes them from the root of the
checkout).

    tlc -config ActionStack_history.cfg MCActionStack.tla
    tlapm ActionStackProofs.tla

`PROJECT.json` says, for every definition that models code, which lines it
models; which run checks which property; and which hazards of the code these
properties are about.

## 1. Inventory

### The main thread

Nearly everything runs on the main thread, as handlers of wx events. An
exception ends a handler half way: `MSE::HandleEvent` (main.cpp:311) reports it
and the program goes on with whatever state that left. That, callbacks between
components, and crashes are what makes the code on this thread hard.

| Component | State | Operations | Works with | Hard about it | Correct if |
|---|---|---|---|---|---|
| **ActionStack** (util/action_stack) | undo and redo stack of owned raw pointers, `save_point`, `last_was_add` | addAction, undo, redo, setSavePoint, atSavePoint, merging | calls every listener (script manager, panels) before it moves an action; asked by the set window whether to save | exceptions from listeners, ownership, a pointer kept after delete | undo and redo lead through the documents shown before; "saved" is never said of an unsaved document |
| **Actions** (data/action) | each holds what it exchanges with the document | perform(to_undo), merge | ActionStack, the objects of the set | an action is its own inverse only if called in turn | perform is an inverse of itself; merge keeps the oldest value |
| **Script manager** (script/script_manager) | ages of values, a queue of values to update, delayed updates, order caches | onAction, updateAll, updateDelayed, updateToUpdate | listener of the stack; runs scripts; combined editors write other values | order of updates, circular scripts, two-way editors | between actions every value is what its script gives, and what the user typed stays |
| **Script parser, contexts, dependency analysis** (script/parser, script/context, script/dependency) | code with jumps; variables, shadowing by scope, the level, the stack | parse, openScope, closeScope, eval, dependencies | called for every value | a parser that looks back at what it emitted; scopes after an error; branches joined by abstract values | a script computes what the manual says, leaves nothing behind, and all it reads is found |
| **Package** (util/io/package) | filename, records of the files inside, zip stream, temporary files | open, openIn, nameOut, newFileName, referenceFile, save, saveAs, saveCopy | the file system; values keep file names in it | steps of a save, failing calls, crashes | nothing the document refers to is lost, on disk or in the window |
| **Set window** (gui/set/window) | the set, its title, the close dialog | onFileSave, onFileSaveAs, onFileExport, onClose, askSaveAndContinue, onFileRecent | Package, ActionStack | saving that fails while closing; two windows on a set | a window never drops changes it was not told to drop |
| **Set, cards, fields** (data/) | the document: cards, styles, styling data, pack types | validate, positionOfCard, stylesheetFor | script manager, actions | order caches; who owns styling data | undo leads back to the same set; styling fits the stylesheet |
| **Set window panels, card list** (gui/set, gui/control) | a sorted, filtered copy of the cards, the selected card and its row | onAction, select, sort, filter, drag, paste, delete | told of every action of the set | copies that go stale; positions of the list and of the set | what is selected is shown and is a card of the set |
| **Value editors** (gui/value) | thumbnails of choices; image files | create actions | ActionStack, ThumbnailThread, Package | status flags set before the result is there | what is shown is current |
| **Text editing** (util/tagged_string, gui/value/text) | a string with tags; the selection, as cursors and as indices | type, delete, format, move, undo | ActionStack, combined editors | two views of one position; halves of tags; separators | it behaves as rich text |
| **Keywords** (data/keyword) | the keywords, a trie built from them, tags in texts | prepare, add, expand; the keyword actions | script manager, text editor | a cached trie; three views of one text | the text typed survives, regions are keywords |
| **Symbol editor** (gui/symbol, data/action/symbol) | a tree of parts, the selection | group, drag, turn, copy, remove, undo | ActionStack | positions kept by actions; selections that outlive parts | undo leads back to the same symbol |
| **Package manager, installer** (util/io/package_manager, data/installer, gui/packages_window) | loaded packages, versions, what to install | open, checkDependency, install, remove | packages; a thread that downloads a list | choosing a consistent set; a list read by another thread | dependencies of what is installed are installed |
| **Reader, writer** (util/io) | position, indentation, current key | enterBlock, exitBlock, handle | all data classes | unknown keys, included files | what is written is read back |
| **Packs, statistics** (data/) | numbers of copies | generate | panels | random choice | equal to their definition |
| **Rendering, images** (render, gfx) | | drawing | viewers | geometry | not a protocol |
| **Settings, locale, export, dialogs, command line** | preferences | reading, writing | | one-way conversions | not a protocol |

### Other threads

| Component | State | Operations | Works with | Hard about it | Correct if |
|---|---|---|---|---|---|
| **ThumbnailThread** (gui/thumbnail_thread) | open and closed requests, names in progress, the worker, its current request | request, done, abort, abortAll; the worker's Entry | owners on the main thread; the image cache on disk | one mutex, one condition, unlocked reads, owners that die | a request gets an answer; the worker never uses a dead owner |
| **Update checker, installer list** (gui/update_checker, gui/packages_window) | a status and a result | start, Entry | polled by idle events | status read without the lock | publishes once |
| **Error queue** (util/error) | a list behind a mutex | queue_message, get_queued_message | every thread | newest first | nothing is lost |

`PROJECT.json` lists all 30 components, with the ones that are not modelled and
why, and 40 hazards at their lines. Section 7 sums up what is left out.

## 2. Plan

In the order of importance to a user: losing edits, losing files, showing
wrong values, and only then everything else.

| # | Module | Composes / extends | State |
|---|---|---|---|
| 1 | `UndoHistory`: abstract specification of an undo stack | | done |
| 2 | `ActionStack`, `MCActionStack` | refines 1 | done |
| 3 | `ActionStackProofs` | theorems about 2 | done |
| 4 | `ThumbnailThread` | | done |
| 5 | `ChoiceThumbnails` | extends 4 with its most demanding client | done |
| 6 | `Package` | | done |
| 7 | `SetDocument`, `MCSetDocument` | 6 with the set window and a history like 1 | done |
| 8 | `ScriptManager`, `MCScriptManager` | listener of 2 | done |
| 9 | `ScriptContext`, `ScriptParser`, `ScriptDependencies`, `ScriptMachine` | what 8 takes as given | done |
| 10 | `ScriptMeaning`: reference for scripts; `Scripts`, `MCScripts` | 9 against the reference | done |
| 11 | `SetEditing`: the actions on sets; `CardList`, `MCCardList` | every action with a stack like 2; the list listens | done |
| 12 | `Keywords`, `MCKeywords` | | done |
| 13 | `RichText`: abstract specification of a text editor | | done |
| 14 | `TaggedString`, `TextEditing`, `MCTextEditing` | refines 13, with merging as in 2 | done |
| 15 | `SymbolParts`: the actions on symbols; `SymbolEditing` | with a stack like 2 | done |
| 16 | `ThumbnailThreadProofs` | theorems about 4 and 5 | done |
| 17 | `SetDocumentProofs` | theorems about 7 | done |
| 18 | `Positions`, `PositionsProofs` | positions in a list, what is left of one, and induction over them, used by 4, 9, 11, 12 and 14 | done |
| 19 | `CardListProofs` | theorems about 11: the actions as inverses of themselves | done |
| 20 | `ScriptMachineProofs` | theorems about the evaluation in 9 | done |
| 21 | `KeywordsProofs` | theorems about 12, whose recursive operators became recursive functions | done |
| 22 | `TextEditingProofs` | theorems about 14, rewritten in the same way | done |

Theorems worth proving next: that `TextEditing` implements `RichText`. The installer, several windows on one set and random packs were considered and are not modelled;
section 7 gives the reasons and what was seen in them.

## 3. The modules

In every module a definition that is placed right before another whose name it
extends, such as `PopBackForgotten` before `PopBack`, is a mistake the code does
*not* make. No action uses it. `PROJECT.json` ("mutants") pairs each property
with one of them: with the mistake in place of the definition TLC finds the
property violated, so the property does depend on the code being as it is.

### UndoHistory, ActionStack

`UndoHistory` is what a user expects: a sequence of documents, a cursor, a mark
where the document was saved. `ActionStack` is util/action_stack.cpp.

| TLA+ | code |
|---|---|
| `heap`, `Addr`, `Deleted` | actions behind raw owning pointers, new and delete |
| `undo_actions`, `redo_actions`, `save_point`, `last_was_add` | the members of ActionStack |
| `doc`, `Performed`, `Swapped` | SimpleValueAction::perform: `swap_value` with what the action holds |
| `addAction(p, f, v, joins)` | addAction: perform, tell the listeners, delete the redo list, then merge or push. `joins` stands for allow_merge and for whether two edits of one field continue each other |
| `undo`, `redo`, `setSavePoint`, `atSavePoint` | the functions of that name |
| `addActionThrows`, `undoThrows`, `redoThrows` | the same calls when a listener throws out of tellListeners: the action is performed, nothing after that happens |
| `hist`, `savedAt`, `disk` | history variables: what the program showed and saved, to compare with |

The two constants `AddressReuse` and `ListenersThrow` switch what the
surroundings may do. Both really happen: allocators reuse addresses at once, and
`SetScriptManager::updateValue` (script_manager.cpp:265) runs a script outside
of any `try`. An empty `undo_actions` makes `atSavePoint` evaluate
`undo_actions.back()`; the comparison is taken to be false then, as no action's
address is in that word.

### ThumbnailThread, ChoiceThumbnails

Two threads. Each critical section of gui/thumbnail_thread.cpp is one step, and
so is each place where the code reads without the lock.

| TLA+ | code |
|---|---|
| `leaveStopLoop`, `takeRequest`, `generate`, `saveFile`, `closeRequest` | the loop of ThumbnailThreadWorker::Entry; `wpc` is where it is |
| `request`, `startWorker` | ThumbnailThread::request under the lock, and its look at `worker` after the lock is released |
| `done`, `abort`, `wake`, `relock`, `abortAll` | the functions; `mpc` is where the main thread is |
| `Only`, `Rank`, `Place` (`Positions`) | the loops of abort that erase the requests of one owner |
| `cache` | files of the image cache, with the time they are given |
| `EarlierImages` | the images in files that are there when the program starts: the cache is a directory in the user's folder (thumbnail_thread.cpp:21), so they are from earlier sessions |
| `alive`, `create` | owners: editors and lists, which abort their requests when they are destroyed |
| `content`, `clock` | the source an image is made from, wxDateTime::Now |
| `scriptChanges`, `showRequest`, `showUpToDate`, `storeDone`, `closeEditor` | DropDownChoiceList and ChoiceStyle (gui/value/choice.cpp, data/field/choice.cpp): the script's result changes, the list is shown, images arrive, an editor goes |
| `status` | ChoiceStyle::thumbnails_status |
| `FromDisk`, `LocalVersions` | `status == THUMB_NOT_MADE && !img.local()` (choice.cpp:208): the first request, for an image that is not one of the set's own |
| `accepted` | history variable: the script's result when the first request of a name was given a file at once |

`abort` calls `mutex.Lock()` again after `completed.Wait()`, which returns with
the mutex held. wxMutex is not recursive; Lock by its holder is modelled as the
error code wx documents, so that one Unlock frees it. `abortAll` that had to
wait returns with the mutex held for good; a worker that gets to its next lock
then waits until the process ends (`NoWorkAfterExit` says that this is all that
happens, as the comment at thumbnail_thread.cpp:243 does).

`ChoiceThumbnails` asks whether a thumbnail marked "ok" shows what the script
gives. In one situation, which is always there, it need not: the first request
for an image that is not local asks for a file newer than the style package, not
for a new one (choice.cpp:38-43, 208). A file that an earlier session made from
another result of the script is then taken and marked ok, and stays until the
script gives something else. `OkMeansUpToDate` states this exception as narrowly
as the code makes it: only an image of an earlier session, only where the present
result is not local, only while the script gives what it gave when the file was
taken. Three constants switch three more situations:

- `ChangeWhilePending`: `request` drops a request whose name is in progress
  without comparing times, so the older image arrives and is marked ok.
- `CloseWhilePending`: the source is marked updated when the request is made;
  if the editor is closed before the image arrives, the next one takes the file
  in the cache or finds nothing to update.
- `FastChanges`: times have a resolution of one second and are compared with
  `>=`; of two changes in a second the second one finds the file of the first.

With all three off the invariant holds (run `choice_calm`); with any one of them
set to TRUE in ChoiceThumbnails_calm.cfg TLC finds it violated.

A choice image has a script here. The images that a style without choice images
makes from its one image script (choice.cpp:183) have none, so that nothing
invalidates them; they are not modelled.

### Package, SetDocument

`Package` is util/io/package.cpp: the records of the files inside, temporary
files, and the save as the steps between which the program can crash.
`SetDocument` puts a set window over it.

| TLA+ | code |
|---|---|
| `files`, `temps`, `stream`, `filename` | Package::files (FileInfo: keep, created or changed, the zip entry), tempName files, zipStream, filename |
| `disk`, `tmp`, `bak` | the file at a path, and beside it with .tmp and .bak |
| `WriteOut`, `UnusedName`, `ReadIn` | nameOut, newFileName, openIn |
| `startSave` | save, saveAs, saveCopy up to the container: the data file is written, and `referenceFile` is called for each image |
| `writeZip`, `writeZipCut`, `writeZipFails`, `removeBackup`, `makeBackup`, `commit` | saveToZipfile: all is written; a write fails and nothing looks; a call throws |
| `Broken` | what a write that failed leaves of a file |
| `job.cut` | history, read by no action: a write of this save has failed |
| `dirSkip`, `dirRemove`, `dirRename`, `dirCopy` | saveToDirectory, one file after another |
| `finishSave`, `finishSaveFails`, `finishCopy` | clearKeepFlag, removeTempFiles, reopen |
| `assign`, `clear`, `move` | the image editor stores a new image and adds an action; undo and redo |
| `save`, `saveStep`, `saveDone`, `close` | onFileSave, onFileSaveAs, write_set_file, onClose and askSaveAndContinue |
| `crash`, `reopenSet` | the process ends between two steps; a set is opened |
| `saved`, `torn` | history variables: the document that last reached each path whole; the paths where since then an archive arrived of which a write had failed |

The undo history is the sequence with a cursor that `ActionStack` is proved to
implement. With `UndoAcrossSave` off it starts anew at each save, since a save
breaks undo (section 5); with it on, everything is possible.

`UnpackToDirectory` lets the user save a zip file that is open as a directory,
which the code cannot do (section 5).

Things the code does that shaped the model: an entry of the old zip file can be
copied only once, so a save that fails half way leaves images unreadable in
memory, though the disk is safe; the results of `CopyEntry` (package.cpp:472),
`Write` (478), of closing the zip file and of writing the data file and the
images (package.hpp:190) are ignored, so on a full disk an archive with files
missing or cut short is committed without an `Error` (`writeZipCut`), and the next
save removes the good `.bak` (494); results of renames are ignored, so a failing
commit still ends with the save point set (`finishSaveFails` is the case in
which reopening notices); `VCS::removeFile` is given a name without directory,
so files dropped from a directory package stay there; a directory is written in
place, so it has no guarantee against crashes and `SavedSurvives` is about zip
files. It promises the saved document until a save with a failing write
replaces it, and again from the next whole save on. A copy exported over the file that is open is not modelled, nor are
version control commands.

### ScriptManager

After each action the manager runs scripts until nothing changes. One step of
`updateToUpdate` is one value at the front of the queue; the actions that begin
a round are the handlers of onAction.

| TLA+ | code |
|---|---|
| `set.value`, `set.isDefault`, `set.age` | the values of cards and set, Defaultable, Value::last_modified |
| `set.order`, `positionOfCard`, `OrderCache` | Set::positionOfCard and util/order_cache.hpp |
| `Update`, `PlainUpdate`, `TakePart` | Value::update and its scripts; script/functions/editor.cpp |
| `Dependents`, `alsoUpdate`, `ToUpdate` | initDependencies as seen from a field; alsoUpdate |
| `updateAll` | updateAll, from Set::validate |
| `EditValue`, `ResetValue`, `updateValue` | a ValueAction, performed or undone |
| `AddCard`, `RemoveCard`, `ReorderCards` | AddCardAction, ReorderCardsAction |
| `EditKeyword`, `KeywordList`, `updateDelayed` | ChangeKeyword..., AddKeywordAction, the delayed update when the keywords panel is left |
| `updateToUpdate` | one turn of updateToUpdate |
| `edited` | history variable: the value this round's edit gave |

A script is abstracted to what it reads, and returns a sum of that modulo
`Base`, so that each input can change its result. Ages are only compared with
the age of the round and between a combined editor and its parts; they are
renumbered when a round ends, in that order, which keeps the state space
finite. `ReorderCardsAction::perform` returns for any two cards that are in the
set (data/action/set.cpp:62), although data/action/set.hpp:56 says it swaps
them; it is modelled as it is. The order of equal keys in `OrderCache` is that of
the cards: `std::sort` on so few elements is an insertion sort.

Not in the model: styles and stylesheets of cards, extra card fields, the
filter cache, script errors (what an error does to the stack is in
`ActionStack`).

### ScriptContext, ScriptParser, ScriptMachine, ScriptDependencies, ScriptMeaning, Scripts

What `ScriptManager` takes as given: that a script computes what it says, leaves
the context as it was, and that all it reads is known beforehand. A program goes
through the same stages as in the code: its tokens are parsed into instructions,
the instructions are analysed, and they are run.

| TLA+ | code |
|---|---|
| `Context`, `SetVariable`, `OpenScope`, `CloseScope` | Context: `variables`, `shadowed`, `level`, `stack`; setVariable, openScope, closeScope (script/context.cpp) |
| `MakeObject`, `MakeClosure`, `ApplyBindings` | makeObject, makeClosure, ScriptClosure::applyBindings |
| `ToBool`, `Add`, `Equal`, `Binary` | conversions and instrBinary, for the kinds of value in the model |
| `ParseExpr`, `ParseOper`, `Operators`, `CallArguments`, `ShortCircuit`, `SmartString`, `Assertion` | parseExpr, parseOper, parseCallArguments (script/parser.cpp) |
| `NoStatement`, `Error` | add_error of an expression of type EXPR_STATEMENT where a value is expected: the right-hand side of an assignment (parser.cpp:698) and the body of a function (461) |
| `Emit`, `ComeFrom`, `Unemit` | Script::addInstruction, comeFrom, removing the last instruction |
| `frames` | the C++ call stack: running evaluations, scopes that wait for one, compositions half done |
| `Push` ... `Call`, `Finish` | one instruction of Context::eval |
| `EnterScript`, `EnterClosure`, `EnterCompose`, `EnterOther`, `EnterWarning` | ScriptValue::eval of each kind of value |
| `Unwind` | an exception on its way out: destructors of LocalScope, and the catch block of eval, which cuts the stack back |
| `Takes`, `Leaves`, `LeavesThere` | what an instruction does to the stack: the net effects in Script::backtraceSkip (script/script.cpp:259) |
| `Heights`, `Balanced` | not code: how many values a script has on the stack before each instruction, if that does not depend on the way there, and that it is enough for each; what the parser must see to, and Context::eval takes for granted |
| `Postpone`, `TakeFirst`, `Unify` | jumps of Context::dependencies |
| `MarkMember`, `ValueDependencies` | dependencyMember, ScriptValue::dependencies |
| `Meaning`, `Apply` | not code: the manual (doc/script), on syntax trees, without instructions, stack or jumps |
| `IsStatement`, `Mistaken` | not code: which syntax trees are statements (an `if` without `else`, an assertion, and what ends in one), and which use one as a value |

A script with a reported error still has code. The three-argument `parse` throws
then (parser.cpp:429); `OptionalScript::parse`, which reads the scripts of fields
and styles, keeps the script, shows what was reported as a warning and runs it
(script/scriptable.cpp:73). So the programs of `Misuses`, and any others with such
an error, are run like the rest; `ResultCorrect` says that the parser reports them
and no others.

A world is what the members of an object can be. The analysis is made in every
world and the script is run in every world, so a member that is read only after
a change of another is covered too. Tokens have no text: reading them from
characters, numbers and arithmetic, colours, ranges, computed members and the
built-in functions are left out. `MeaningOf` of a function is only compared as
being one. In `stack.back() = stack.back()->eval(...)` the call is taken to come
before the place it is assigned to, which C++17 prescribes.

### SetEditing, CardList

`SetEditing` has every action of data/action/set.cpp and generic.hpp as a
function from a set and an action to a set and an action, since most actions
exchange what they hold with the set; undo, redo and the stack are those of
`ActionStack` without merging. `CardList` is the list of the cards panel, which
keeps a sorted and filtered copy and is told of every action, with the commands
of the panels around it.

| TLA+ | code |
|---|---|
| `set`, `card` | Set::cards, stylesheet, pack_types; the value, stylesheet, `has_styling` and styling data of a card |
| `AddSteps`, `RemoveSteps`, `InsertSteps`, `EraseSteps`, `GenericAdd` | GenericAddAction: its constructors note the positions (`Positions`), perform inserts or erases one step after the other |
| `PerformAddCard` ... `PerformChangePack` | perform of each class |
| `AddCardAction` ... `ChangePackAction` | their constructors |
| `Written`, `clipboard` | a card as it is written to the clipboard |
| `hist` | history variable: the sets the stacks lead through |
| `list` | ItemList: `sorted_list`, `selected_item`, `selected_item_pos`, and the rows the control shows as selected |
| `selectItem`, `selectItemPos`, `refreshList`, `focusSelectedItem` | the functions of item_list.cpp |
| `onAction`, `OnAddCard`, `OnReorderCards` | CardListBase::onAction |
| `addCard`, `doPaste`, `doCopy`, `doDelete`, `onDrag`, `onColumnClick`, `setFilter`, `selectPrevious`, `selectNext`, `onItemFocus` | the handlers of the list and the cards panel |
| `onStyleSelect`, `onUseForAll`, `onUseCustom` | style_panel.cpp |
| `addPack`, `removePack`, `changePack` | random_pack_panel.cpp |
| `out_of_range` | a vector was indexed outside of its bounds; from then on nothing is said |

Styling data is abstracted to the stylesheet it has values for. The scripts of
card values do not run here: what they change reaches the list as the same
action, but the list is not sorted again for it (section 7).

### Keywords

The database of data/keyword.cpp, the tags that expand_keywords leaves in a text,
and the edits that make either stale.

| TLA+ | code |
|---|---|
| `prepare`, `EndsFrom`, `MatchEnd`, `RegexMatch` | Keyword::prepare and the regular expression it makes, with the order in which a backtracking matcher tries |
| `Path`, `Nodes`, `closure`, `Step` | the trie: KeywordDatabase::add, closure and the loop of expand |
| `Search` (`SearchStep`, `Passed`, `Searched`), `NextKeyword`, `ExpandAll` | the two loops of KeywordDatabase::expand: over the tokens, and over the keywords of a text |
| `Candidates`, `Sooner` | the keywords to try at a node, in the order they are tried |
| `tryExpand`, `UntaggedToIndex`, `Before`, `Region` | KeywordDatabase::tryExpand, cutting the tagged and the untagged text in step |
| `Partner` | match_close_tag |
| `Simplified` | simplify_tagged, which an edit of the text ends in |
| `KindShown`, `Expanded` | `kw-0`, `kw-1` are the user's choice, `kw-a`, `kw-A` default_expand's |
| `expand_keywords` | the script function: prepares and adds the keywords if the database was cleared |
| `typeChar`, `deleteChar`, `toggleReminder`, `addKeyword`, `removeKeyword`, `editMatch`, `updateDelayed` | the text editor, TextToggleReminderAction, the keyword actions, leaving the keywords panel |
| `plain` | history variable: what the user typed |

Separators and placeholders of parameters, letter case, the text of reminders
and the statistics of use are left out. A keyword that is removed or edited
clears the database at once; the texts follow when the panel is left (`delay`),
so the properties of the text are stated for then.

### TaggedString, TextEditing, RichText

`RichText` is what a user expects of an editor: characters with formats, an
anchor and a caret, a history. `TextEditing` is TextValueEditor: a string with
tags, a selection kept twice, and actions that hold values of before.

| TLA+ | code |
|---|---|
| `match_close_tag_end`, `is_in_tag`, `index_to_cursor`, `cursor_to_index`, `untag_for_cursor`, `tagged_substr_replace`, `simplify_tagged` | the functions of util/tagged_string.cpp |
| `fixCursors`, `fixIndices`, `Fixed` | TextValueEditor::fixSelection |
| `typing_action`, `toggle_format_action`, `merge`, `Exchanged` | data/action/value.cpp |
| `addAction`, `undo`, `redo` | action_stack.cpp with this action, and the editor's onAction, which takes over its selection |
| `replaceSelection`, `backspace`, `delete`, `doDelete`, `doFormat`, `moveCursor`, `moveIndex`, `draw` | the handlers of gui/value/text.cpp |
| `combined_editor` | what the script of a combined value does with the text: split at the separators and join |
| `seen` | history variable: what the user sees, the state of `RichText` |

The refinement maps a selection to its two cursors and a string to its items
with their formats. Drop-down lists of words, spelling, searching and replacing,
auto replace and the tags `<sym>`, `<prefix>` and `<suffix>` are left out. Where
a click, an arrow up or a word boundary leads depends on the layout; it is any
index.

### SymbolParts, SymbolEditing

`SymbolParts` is the tree of parts and every action of data/action/symbol.cpp
but scaling, in the form of `SetEditing`; `SymbolEditing` is gui/symbol.

| TLA+ | code |
|---|---|
| `symbol`, `Root`, `Within`, `findParent` | Symbol, SymbolGroup, isAncestor, findParent |
| `PerformMove` ... `PerformGroup` | perform of each class |
| `MoveAction` ... `UngroupAction`, `clone`, `Removals` | their constructors, SymbolPart::clone, the search of RemoveSymbolPartsAction |
| `Selected`, `clearChildren` | SymbolPartsSelection::select |
| `move`, `rotateTo`, `shearTo`, `combine`, `duplicate`, `group`, `ungroup`, `remove` | select_editor.cpp; a drag is one step, since undo is refused during one |
| `addSymmetry`, `removeSymmetry`, `addShape` | symmetry_editor.cpp, basic_shape_editor.cpp |
| `typeName`, `drag`, `DropTarget` | part_list.cpp |
| `Kept`, `PartsOf` | shared pointers: a part is gone with the last reference |

A shape is one of its points, its combining mode and its name; a symmetry its
center. Turning and shearing are about a center that no part is at, with integer
coordinates. `Careless` switches three things a user can do that the code does
not get right (section 5). Scaling, snapping, the points of a shape, the kind and
number of copies of a symmetry, and which tool is active are left out.

## 4. The runs

Every run passes and explores the whole state space of its instance.

| Run | What it asks | Instance |
|---|---|---|
| `action_stack_history` | Without faults: is the stack the linear history of `UndoHistory`, are undo and redo inverse, is "saved" honest? | 3 addresses, so at most 3 actions in a behaviour, 2 fields, 2 values |
| `action_stack_faults` | With listeners that throw anywhere and reused addresses: is every action owned once? | 3 addresses, 1 field; addresses symmetric |
| `thumbnails` | Every interleaving of worker and main thread: dead owners, lost requests, the name list, exit, progress | 2 owners, one of which never calls done; 2 names, one not thread-safe and failing |
| `choice_calm` | Is "ok" true, in calm circumstances, but for files of an earlier session? | 2 editors, 1 choice, 3 results of which one is an image of the set, files of earlier sessions with a result of this one and with another |
| `set_saves` | No faults: are images intact, and is what is called saved on disk, through save, save as, export, close, reopen? | 2 fields, 2 images, 2 names, two zip files and a directory |
| `set_faults` | Crashes, files that cannot be opened, read or renamed, writes that fail unnoticed: does the last saved document survive, until a save with a failing write replaces it? | 1 field, 1 image, 1 zip file, 1 directory |
| `script_rounds` | Are all values current between actions, are edits and defaults kept, does every round end? | 2 cards; a game with plain, default, combined, position, summed and self-reading fields |
| `script_programs` | Does every script compute what the manual says, leave its context as it was, and read only what the analysis found? | all programs of the families in `MCScripts`, in 4 worlds each |
| `card_list` | Does undo lead back to the same sets, does styling fit, does the list show and select the right cards? | 3 cards, 2 stylesheets, 2 values, 1 pack, 2 actions on the stacks |
| `keywords` | Does the text survive, is the database current, are regions keywords, does the script come to rest? | 2 keywords of the set, 2 of the game, 3 match strings, 3 edits |
| `text_editing` | Is the editor rich text, with balanced tags, whole separators and a valid selection? | 2 texts of two parts with two formats and an atom, 2 kinds of insertion, 2 edits |
| `symbol_editing` | Does undo lead back to the same symbols, are parts a tree, is the selection free of nested parts? | a group of two shapes above a shape, 7 parts, 2 edits |

### Bounds, and why they are enough

- *Addresses* (3): merging, cutting off the redo list and the save point each
  concern the top of a stack and one more element; three actions allow a save
  point below, at and above the cursor, with one merge. What is proved (section
  6) holds for any number.
- *Owners and names* (2): requests interact by owner (abort, done) and by name
  (the name list, the cache). One owner to abort while the other's request is in
  progress, one name that is made at once and may fail. `MaxClosed` bounds the
  results of requests that are not thread-safe waiting for `done`, which are the
  only ones the name list does not bound. In `choice_calm` `MaxVersion` and
  `MaxClock` allow a thumbnail to be made, changed, made again and changed once more;
  `EarlierImages` has an image that the script gives in this session too and one
  that it does not, and the result in the middle is local, so that the first
  request is made with and without files of the disk, before and after a change.
- *Packages*: two fields, as one can be changed while the other keeps its file;
  two names, so that a dropped name is used again while another is in use; two
  images, so that a mistaken one is seen; two zip files and a directory for every
  kind of save as. `MaxImage` bounds edits that add an image; clears are bounded
  by what there is to clear, so the history is finite. `set_faults` needs one field, one
  image and a zip file: a save, what it replaces and its backup. A write can fail
  in the data file, in an image or anywhere in the archive, with any files missing and
  any of the others cut short. Its `UndoAcrossSave` is FALSE for size; what is
  proved (section 6) holds with TRUE as well.
- *Cards* (2), *values* (2) of `script_rounds`: positions need two cards to
  differ; a sum modulo 2 changes with each input. All paths from a field of this
  game to another are of one length (section 5 shows what happens otherwise). Its
  self-reading field never settles and shows that rounds end.
- *Programs*: the families combine every kind of expression with every kind of
  operand one level deep, in every place where precedence, the stack, a jump or a
  scope matters: operands, conditions, both branches, arguments, defaults,
  compositions, bodies of loops, holes of strings, assertions; and every kind of
  statement assigned and returned. `MaxLevel` is 6
  instead of 500: one recursive program runs into it.
- *Card list*: `MaxHistory` (2) lets an action be undone after another was made
  in between, and a set style change be undone over a card style change;
  `MaxCards` (3) has a card before, at and behind the selected one; one pack and
  one card in the clipboard, as both are lists treated like the cards.
- *Keywords*: the match strings overlap, one is part of another with the game's,
  one begins another's parameter, one has a parameter the game does not know; a
  keyword of the game is refused wherever it is found. Three edits make a keyword,
  change it and change the text, in any order.
- *Texts*: the formats are nested and cross separators and blocks; the separator
  is the line of a text box, `<line>\n</line>`, so it has a tag of its own; two edits are
  enough for merging, for undo over another kind of action and for redo. Moving
  stops when the edits are used up: where the cursor is no longer matters then,
  except to undo and redo, which set it themselves.
- *Symbols*: 7 parts allow the whole symbol to be copied, or a group of a group.
  Two edits are an action made for a symbol that another action changed; the
  selection goes anywhere in between. As with texts it stands still after them.

Deadlock is checked for the undo stack, the script manager, the text editor and
the symbol editor. It is switched off for the others, which really stop: after
`abortAll` the program is at its exit, a set window may be closed with nothing on
disk to open, in `ChoiceThumbnails` changes and in `Keywords` edits run out, a
script ends, and `CardList` says nothing after a vector was indexed out of its
bounds.

### Fairness

- `ThumbnailThread`: weak fairness of the worker (the scheduler runs it) and of
  what the main thread is in the middle of (`startWorker`, `wake`, `relock`).
  Strong fairness of `done` for owners that poll: they call it from an idle
  handler, and wx sends idle events whenever the event queue runs empty, again
  and again; a handler that keeps the thread busy may come in between any
  number of times, so weak fairness would ask for less than an idle loop gives.
  Owners that never poll (gui/package_update_list.cpp) have none. Requests, new
  owners and exit are the user's and have none.
- `ScriptManager`: weak fairness of `updateToUpdate`, since a round is one
  synchronous call.
- The other modules: none; only safety is stated. Everything that happens in
  them is the user's, or one synchronous call.

## 5. What the checks show

The properties are stated, with the code they are about, where they are defined,
at the end of each module. In short:

- **ActionStack.** `HistoryLinked`, `SavePointHonest`, `PerformAlternates` and the
  refinement of `UndoHistory` hold without faults. `NoDoubleFree` holds with all
  of them.
- **ThumbnailThread.** `OwnersOutliveRequests`, `NoLostRequest`,
  `NamesMatchRequests`, `NoWorkAfterExit`, `RequestsComplete` and `AbortReturns`
  hold: the unlocked look at `worker` is safe, as a worker clears the pointer in
  the section in which it finds the list empty.
- **ChoiceThumbnails.** `OkMeansUpToDate` holds in calm use: what is marked ok is
  what the script gives, or the file of an earlier session that the first request took.
- **SetDocument.** `ImagesIntact`, `CleanMeansSaved` and `ClosedMeansSaved` hold
  without faults. `SavedSurvives` holds with them: crashes and calls that fail
  with an error never cost the last saved document, a write that fails unnoticed
  costs it, and the next whole save is safe again.
- **ScriptManager.** `UpToDate`, `EditsKept`, `DefaultsKept` and `RoundsEnd` hold
  in the game of `script_rounds`.
- **Scripts.** `ResultCorrect`: the parser reports exactly the scripts that assign
  or return a statement, and parser and evaluation agree with the manual on
  value, errors, members read and assertions. `ContextRestored`: no variable,
  scope or stack entry is left behind, also after an error deep inside.
  `DependenciesCover`: the analysis misses nothing. `JoinsBalanced`: it unites
  only states of the same height, and all code that is run is `Balanced`, from which
  `ContextRestored` follows for every script (section 6).
- **CardList, SetEditing.** `HistoryCorrect`, `StylingFits`, `SelectionShown` and
  `SelectionKept` hold for every mix of actions, undo, sorting and searching.
- **Keywords.** `PlainTextKept`, `DatabaseCurrent`, `RegionsAreKeywords` and
  `Settled` hold, with keywords that overlap, are edited and are removed; the first
  two for every set of keywords (section 6).
- **TextEditing.** `TagsBalanced`, `SeparatorsKept` and `SelectionValid` hold and
  the editor implements `RichText`; the three invariants for texts of any length and
  any number of parts (section 6).
- **SymbolEditing.** `UndoRestores`, `PartsOnce` and `SelectionApart` hold.

### Where the code does not do what it says

Each of these is kept out of the passing runs by a constant that says so, or is an
exception that the property states and a stronger one, beside it in the module,
does not. With the change of the configuration given, TLC shows how it happens.

| Change | Violated | What happens |
|---|---|---|
| ActionStack_history.cfg: `AddressReuse = TRUE` | `SavePointHonest`, `ImplementsUndoHistory` | addAction deletes the redo list without resetting `save_point`; the next action can be allocated at the same address, and then an unsaved document counts as saved (action_stack.hpp:95) |
| ActionStack_history.cfg: `ListenersThrow = TRUE` | `PerformAlternates` | undo and redo perform and tell the listeners before they move the action; a listener that throws leaves it where it was, and it is performed twice the same way (action_stack.hpp:34) |
| ChoiceThumbnails_calm.cfg: `ChangeWhilePending`, `CloseWhilePending` or `FastChanges` `= TRUE` | `OkMeansUpToDate` | a stale thumbnail is marked ok, see section 3 |
| ChoiceThumbnails_calm.cfg: `OkMeansPresent` added to the invariants | `OkMeansPresent` | a file that an earlier session made from another result of the script is newer than the style package, so the first request takes it and marks it ok (choice.cpp:41, 208) |
| SetDocument_faults.cfg: `SavedSurvivesFailedWrites` added to the invariants | `SavedSurvivesFailedWrites` | on a full disk an archive that is not whole is committed without an `Error` (package.cpp:472, 478, 497); when the rename to `.bak` fails, or at the second such save, which removes the good `.bak` (494), the last whole document is gone |
| SetDocument_saves.cfg: `UndoAcrossSave = TRUE` | `ImagesIntact` | a save drops the images the document does not use at that moment; an undo brings a reference back, and from then on every save throws the "internal error" of package.cpp:287, or, if the name was used again, the field shows another image |
| SetDocument_saves.cfg: `UnpackToDirectory = TRUE` and `MaxImage = 3` | `ImagesIntact` | saving an open zip file as a directory moves the temporary files of new images there and then fails at the first file that did not change, which it looks for in a directory (package.cpp:443); the document stays what it was, the images moved cannot be read any more |
| ScriptManager_sheet.cfg: `CardFields <- ChainCardFields`, `SetFields <- NoFields`, and `Chain` for `Sheet` in the others | `UpToDate` | a field that reads both `a` and the end of a chain `a -> b -> d` is run before `d`, and is skipped when it comes again (script_manager.hpp:51 says that all necessary scripts are executed) |
| Scripts_programs.cfg: `Programs <- MCStrings` | `ResultCorrect` | after a hole that ends in a conditional the parser takes an empty text at the end of one branch for the separator of a smart string, and removes it from that branch only (parser.cpp:797) |
| Scripts_programs.cfg: `Programs <- MCCompositions` | `ResultCorrect` | `(f + g)()` is not `g(input: f())` when a default of `f` was replaced by another default: what the inner closure set counts as an argument of the call |
| Scripts_programs.cfg: `Programs <- MCBranches` | `DependenciesCover` | getBindings starts one binding too late (dependency.cpp:394): after a jump the first variable the script set has no value, and a member read through it is missed |
| Scripts_programs.cfg: `Programs <- MCAssertions` | `JoinsBalanced` | an assertion takes the comparison that comes last for all of its condition and removes it (parser.cpp:620); in `assert(a and b == c)` it belongs to one side of `and`, and when the jump over that side is taken the call of warning_if_neq has too few values and takes those of its caller |
| Keywords_edits.cfg: `Refused = {}` | `RegionsAreKeywords` | a keyword with a parameter at its end is found before the tokens of the parameter were searched, and of the tags of a keyword in there tryExpand strips only those that close (keyword.cpp:586): the one that opens stays, and is closed nowhere |
| CardList.cfg: `ReorderInRange` added to the invariants | `ReorderInRange` | the list passes positions of its own, filtered copy, or -1, as positions of the set, which gui/control/card_list.hpp:55 keeps apart (card_list.cpp:377); the assertions of data/action/set.cpp:59 do not hold |
| TextEditing.cfg: `DrawnFirst = FALSE` | `TagsBalanced` | shift and an arrow key next to a separator leave the index of the start behind that of the end while the cursors are equal (fixSelection does not look at the start again, text.hpp:126); a format chosen before the next paint doubles the text in between |
| MCTextEditing: `[text \|-> MCAtom, name \|-> "atom"]` added to `MCInsertions`, and the last conjunct of `TextsAssumption` taken out | `SelectionValid` | typing_action counts the characters of the new text, an atom is one place: after undo and redo the selection ends beyond the text. What is typed or pasted is escaped; only auto replace, which is left out, could insert an atom |
| SymbolEditing.cfg: `Careless = {"shear"}` | `UndoRestores` | perform of a shear keeps the sign of what it did, so a redo shears the other way (data/action/symbol.cpp:173) |
| SymbolEditing.cfg: `Careless = {"select"}` | `UndoRestores` | undo puts a part back into a group while both are selected; the part is then moved twice, and a change of its mode is exchanged twice and undone wrongly |
| SymbolEditing.cfg: `Careless = {"drop"}` | (the step has no value) | dragging the only part of a group to a place behind the group counts the group that goes away: the part lands one too far, or beyond the end of the list (part_list.cpp:170) |

Two constants show such behaviour in order not to forbid it: a format switched
twice at the caret with nothing typed in between stays on (`Switch` of `RichText`
allows it), and a keyword refused by its condition at one place is not tried at
another one (`Refused`).

Other things that were read in the code and are modelled as they are, or bear on
what a passing run means:

- `ReorderCardsAction::perform` returns for any two cards of the set: its
  condition on the second position is the wrong way around
  (data/action/set.cpp:62), so dragging a card never changes the order.
- The trie reports a keyword at the first place where its text may have ended, and
  the regular expression is then searched for in all of the text that is left;
  a keyword before that place which is completed later is passed over.
- The tags of a choice are looked for from one token too far (keyword.cpp:551),
  which can lose the user's choice for a keyword right behind another.
- A text in which there was a keyword keeps its tags when the last keyword is
  removed: without a trie expand leaves the text alone.
- Values of branches are united only for variables that have one in both, the
  result of `orelse` and the elements of a list are not followed, and a loop over
  an empty collection is not analysed: members reached only through those are not
  dependencies. The programs of the run reach members in the other ways.
- Grouping with fewer than two parts right in the symbol puts the new group
  nowhere, and a symmetry made so is selected without being in the symbol.
- Deleting or moving with nothing selected adds an action that does nothing and
  clears the redo list.
- Merged deletions select less, after undo, than what comes back.

## 6. What is proved

`ActionStackProofs`, for every set of addresses, fields and values:

| Theorem | Says | Assumes |
|---|---|---|
| `TypeCorrect` | `Spec => []TypeOK` | nothing |
| `OwnershipCorrect` | `Spec => []NoDoubleFree` | nothing: with throwing listeners and reused addresses |
| `HistoryCorrect` | `Spec => []HistoryLinked` | listeners do not throw |
| `AlternatesCorrect` | `Spec => PerformAlternates` | listeners do not throw |
| `SavePointCorrect` | `Spec => []SavePointHonest` | nor are addresses reused |
| `Implements` | `Spec => ImplementsUndoHistory` | nor are addresses reused |

and of the constants only `NullAssumption` and `FaultsAssumption`, which TLC
evaluates in every run of the stack.

The argument goes in three layers, each an inductive invariant:

1. `Structure`: types, `NoDoubleFree`, everything alive was handed out, and the
   history is as long as the two stacks say. `NoDoubleFree` alone is not
   inductive: a new action's address must be known not to be on a stack, which
   follows from everything on a stack being alive. It needs neither assumption,
   because each operation moves a pointer only after everything that can throw,
   and allocation returns an address that is not in use.
2. `HistoryLinked`: each action on the stacks turns one document of `hist` into
   the next. Undo and redo keep it because an action and the document exchange
   one value; addAction because the new action holds what it replaced. A
   throwing listener breaks it.
3. `Saved`: the save pointer stands for a position of the history. It equals
   the action at that position and no other, and no action once the position is
   cut off. The last half is why addresses may not be reused: a pointer to a
   deleted action must not equal a new one, which follows from it being in
   `used`. From this `atSavePoint` is the comparison of positions that
   `UndoHistory` makes, and the refinement is one lemma per action.

`AlternatesCorrect` says that listeners which do not throw see `to_undo`
alternate. It follows from which of the two stacks an action is on.

### The thumbnail thread

`ThumbnailThreadProofs`, for any number of owners and names, lists of any length,
and without any bound:

| Theorem | Says | Assumes |
|---|---|---|
| `OwnersOutliveRequestsAlways` | `Spec => []OwnersOutliveRequests` | nothing |
| `NoLostRequestAlways` | `Spec => []NoLostRequest` | nothing |
| `NamesMatchRequestsAlways` | `Spec => []NamesMatchRequests` | nothing |
| `NoWorkAfterExitAlways` | `Spec => []NoWorkAfterExit` | nothing |

One invariant, `ThreadInv`, is inductive. The four properties say where requests
are; what keeps them true is who may move them, so its heart is `Control`: where
each thread can be while the other is where it is, who has the lock, and what
each may rely on meanwhile. A worker between taking a request and closing it has
it first in the list; a main thread in the middle of `abort` still has its owner
alive; a worker told to stop waits in its loop until the main thread went on.
`abort` removes the requests of an owner from the list, for which the lemmas at
the beginning say what is left of a sequence when some positions are dropped
(`PositionsProofs`: `Rank` numbers those that stay).

Its last section proves `OkMeansUpToDateWhenCalm` of `ChoiceThumbnails`: an "ok" thumbnail is what
the script gives, or a file of an earlier session that was taken for the result the
script still has, which is not local. It holds under `Calm`, the conditions of the
run `choice_calm`, and for any `EarlierImages` and `LocalVersions`:
`ChangeWhilePending`, `CloseWhilePending` and `FastChanges` are FALSE (section 3 shows
why each is needed) and every image can be made, by the worker. Its invariant
`Trusted` adds to `ThreadInv` what there is to trust: while a request is in
progress, whatever is made for it is what the script gives now (`Current`); the
file of a thumbnail is as old as its time says or newer, never older (`Times`);
and a file good enough for the next request has the present image, or is of an
earlier session and nothing was made yet (`Files`); so that what is shown is what
`OkMeansUpToDate` allows (`Shown`).

### Packages and saving

`SetDocumentProofs`, for any fields, paths and images:

| Theorem | Says | Assumes |
|---|---|---|
| `SavedSurvivesAlways` | `Spec => []SavedSurvives`: the document last saved to a zip file is whole at its path or as its `.bak`, but for paths that are `torn` | nothing: with faults, failing writes, crashes, undo across saves |
| `ImagesIntactWhenCalm` | `Spec => []ImagesIntact` | `CalmUse` |
| `CleanMeansSavedWhenCalm` | `Spec => []CleanMeansSaved` | `CalmUse` |
| `ClosedMeansSavedWhenCalm` | `Spec => []ClosedMeansSaved` | `CalmUse` |

`CalmUse` is that of the four constants `Faults`, `MayCrash`, `UndoAcrossSave` and
`UnpackToDirectory` none is TRUE. Section 5 has what happens with the last two; with
the first two, section 3.

`SavedSurvives` is not inductive: the step that commits replaces what is at the
path, so what replaces it has to be known complete before. `DocumentInv` follows
a save back to its beginning. The archive about to be committed is complete
or known as one of a failing write, `job.cut` (`NewArchiveComplete`). It is complete since it was written from records that had the document
and all it refers to marked (`ZipAsked`) and each of these could be read: a
temporary file, or an entry that is really in the archive that is open
(`Streamed`), while a file that can be found in neither way makes the copying throw.
The old archive is removed only as a backup of one that is there
(`BackedUp`). Of faults only the failing write is mentioned, which `job.cut` and then
`torn` record: other failing calls and crashes cost nothing, and a whole save clears
`torn` whatever came before it.

The other three say more, and only of calm use: that images are *right*. `CalmInv`
says of every document of the history that each image it shows is in a file that
can be read and has what the user put there (`HistoryShown`); the name is
found again after a save because the save moves all files at once, from the
package as it was in memory to the one on disk (`ArchiveStored`, `Stored`). In a
directory they move one at a time: `Arriving` is what file *n* has or will have,
and each step moves a file from "will have" to "has" (`DirectoryStored`). A copy
leaves memory as it is, because it goes somewhere else (`CopyApart`). At the save
point the document is on the disk too (`SavePointStored`), from which the two
properties about saving follow.

A first attempt at these proofs was a finding: with two fields `ImagesIntact` could
not be shown for a zip file saved as a directory, and TLC, given two fields and
three images, showed why. `UnpackToDirectory` is the constant that says so since.

### The card list and its actions

`CardListProofs`, with the lemmas of `PositionsProofs`, for any number of cards,
stylesheets, values and pack types, any clipboard and histories of any length:

| Theorem | Says |
|---|---|
| `UndoRedoCorrect` | `Spec => []HistoryCorrect` |
| `StylingAlwaysFits` | `Spec => []StylingFits` |
| `SelectionAlwaysShown` | `Spec => []SelectionShown` |
| `SelectionAlwaysKept` | `Spec => SelectionKept` |

The assumptions are those on the constants: values are numbers and there is one
(a new card has a value), NULL is none of the other things, and `MaxCards > 1`, so
that the set that is opened has a card. TLC evaluates them in the run `card_list`.
As in that run, nothing is said after a vector was indexed out of its bounds.

An action here is a pair of functions, and it exchanges what it holds with the
set, so `Perform` gives a set and an *action*. The proof has four steps.

1. *Each action and its counterpart are inverse* (`Linked`). There is one lemma for each
   class of actions, from `ValueLinks` to `AddPackLinks`: whatever perform does with
   an action, undoing with what it left of the action gives back the set and the
   action, exactly. For adding and removing this is about positions: `Adding`
   and `Removing` show that inserting the noted items from the first to the last
   is undone by erasing them from the last to the first, at the positions they had
   *before* the removal (generic.hpp:106). `StepKeeps` collects the classes.
2. *The stacks are a row of such pairs* (`History`): there are sets D[1], D[2], ... such
   that each action on the undo stack leads from one to the one before, each on
   the redo stack to the next. The row is not a variable of the model, it is under
   the quantifier of `HistoryKept`, since `hist` has only what a user sees of a set.
   The invariant has to say for every set of the row that its styling fits and that
   no card is in it twice (`Good`), or undo would not keep `StylingFits`.
3. *New cards.* addCard and doPaste give a card that exists nowhere its contents,
   which would change the sets of the row if they had it. They do not: an unused
   card is in no set of the history and in no action (`NeverShown`), and perform reads
   only the cards of the set and of its action, so the row with the new contents
   put in (`Override`) is a row again (`LinkedOverridden`, `NewCardsKeep`).
4. *The list* (`View`). `ActionView` goes through CardListBase::onAction: after an added or
   removed card the list is made again and, when the selected card is gone, the card
   at its position or the last one is selected; a reordering exchanges two rows of
   a list that shows every card, which is why a list that hides one is out of range
   (section 5); the others make the list again. `SortedPlaces` shows that the rows of a
   stable sort are a permutation of the items, by counting those that come before.

Inserting and erasing were first written with folds over sequences. They are recursive
functions now, of which the lemma `UpTo` makes induction over the positions
possible (a smallest counterexample is a smallest element of a set). Sorting is
defined by where each row goes rather than by an algorithm.

### Scripts

`ScriptMachineProofs` proves `ContextIsRestored`: `Spec => []ContextRestored`, for any
number of scripts, variables and objects, any nesting and any limit on it. It assumes
of the constants:

| Assumption | Says |
|---|---|
| `ProgramsSound`, `WorldsSound`, `GlobalsSound` | the scripts, the members of objects and the variables outside are values (`Values`) |
| `VariablesAssumption` | `input` is a variable: a composition and a loop set it |

A value is anything that can be built, level by level, from strings, objects and the
like: lists, iterators, closures, compositions, and functions whose code is `Balanced`
and has values for constants. So the one thing asked of a script is that its code,
and that of the functions in it, keeps its stack. It is not asked of what TLC
runs: `JoinsBalanced` has every code the parser makes evaluated for it. It cannot be
dropped, since the evaluation checks nothing: the code of `assert(a and b == c)` is
not balanced, and breaks the stack of its caller (section 5).

The invariant `MachineInv` has two halves.

1. *Variables* (`Undone`). Scopes are not stored: opening one counts `level` up, and
   setting a variable that was last set at another level notes its binding in
   `shadowed`. The invariant says that for each variable the *first* note is the
   binding from before all scripts, or, if there is none, that the variable still has
   it; value and level both, as the level decides about the next note. closeScope
   goes back through the notes to a mark, and what it puts back last is the first note
   after the mark (`Closing`). When no note is left all is as before.
2. *The stack* (`Reaches`, `Outside`). Each evaluation in progress must leave its caller
   the height of the stack, the level and the number of notes from when it began.
   These are not in the model: `Reaches` says that a row of them *exists* (`Fits`),
   from the bottom to the frame in progress, where a script is as high above its
   base as `Heights` says of its `pc`, and an open scope is one level up. Each
   instruction takes and leaves what `Takes` and `Leaves` say, one lemma each, and stays
   above the base, and an error cuts the stack back to the base of the frame it
   leaves, however many frames there are.

Values are nested, so what the parts of a value are would call for induction over
data. It is avoided: every value is in some level, and what the machine takes out of
one (an element of a list, the function of a closure) is in a level below (`Parts`);
what it makes of values is in the next level after theirs (`OneLevel`, `MadeOf`). The
lemma `UpTo`, induction over the numbers up to one, is enough for both.

### Keywords

`KeywordsProofs`, for any keywords of the set and the game, any match strings, texts
of any length and any number of edits:

| Theorem | Says |
|---|---|
| `TypedTextSurvives` | `Spec => []PlainTextKept` |
| `DatabaseIsCurrent` | `Spec => []DatabaseCurrent` |

The one assumption, `KeywordsAssumption`, says of the constants what they are: finitely
many keywords, match strings and texts that are sequences of characters and
parameters. TLC evaluates it in the run `keywords`.

`PlainTextKept` is about every step, not only those after which the tags are right:
whatever the database holds, stale or not, expanding takes no character from the
text and adds none. The expansion works on two texts at once, one with tags and one
without, and finds positions in one that it cuts the other at. The argument follows
that.

1. *Taking things out.* Removing tags, removing reminders and untagging are all
   `Filter`, which distributes over concatenation (`ByAppending` is the induction for
   that) and does not depend on the order of two of them. So a property of "the text
   that is left" is one of the parts it is cut into.
2. *Converting positions.* `Count` is the number of characters before a token.
   It grows by at most one from token to token (`CountSteps`), so every number up to
   the number of characters is reached, and untagged_to_index finds a token
   (`IndexFound`). What is cut off there has as many characters as asked for
   (`CutText`). This needs the match to lie in the text and to end after it begins, or the
   two texts would be cut at places that do not belong together: `RegexMatchType`
   says so of a regular expression, and it is why the invariant has to know that a
   valid keyword's regular expression is a match string (`FoundByMatch`).
3. *One keyword* (`TryExpandGives`). The text before the keyword is copied without
   its keyword tags, the part between the two positions gets new tags, and what is
   left is the same text with and without tags. The new tags and the reminder
   contain no characters, so result and rest together have the characters there were.
4. *One keyword after the other.* Tags the search passes are taken out
   (`TakenOut`), which the characters do not notice, and `SearchKeeps` goes through the
   loop of one search, `ExpandAllKeeps` through the loop around it. Each round but the
   last leaves less text, so as many rounds as there are tokens are enough for
   nothing to be left.
5. *Edits.* Typing inserts the same character in the text and in `plain` at positions
   that belong together, and deletion likewise; simplify_tagged takes out a pair of
   tags at a time (`SimplifiedKeeps`), and toggling a reminder only renames tags.

`DatabaseCurrent` is about the order of clearing, preparing and adding. Each edit that
makes an entry of the database stale clears it in the same step; what is
built then is built from all keywords after they were prepared, and an entry
is made from a keyword as it is then (`EntriesAre`, `CurrentSearchable`, `NewCurrent`). The
mutant `removeKeywordKeepsDb` fails just there.

The loops are recursive functions over the number of rounds, which exist for any
step (`RoundsExist`); that is all the prover needs to know of recursion.

`RegionsAreKeywords` and `Settled` are not proved. They say *which* keywords are found
and tagged, and they are not true of every set of keywords: section 5 has one (`Refused`)
that they fail for. The two theorems do not depend on it.

### Text editing

`TextEditingProofs`, for texts of any length with any characters, formats, atoms and
separators, any number of edits and histories of any length:

| Theorem | Says | Assumes |
|---|---|---|
| `TagsStayBalanced` | `Spec => []TagsBalanced` | `DrawnFirst` |
| `SelectionStaysValid` | `Spec => []SelectionValid` | `DrawnFirst` |
| `SeparatorsStay` | `Spec => []SeparatorsKept` | `DrawnFirst` |

`DrawnFirst` is needed: without it the indices of the selection can be the wrong way
around when a format is chosen (section 5). Of the other constants two things are
assumed, which TLC evaluates in the run `text_editing`. `TextsAssumption`: the tags
of each text are closed, a block is closed, has a character and no block in it, and
what is typed has no blocks, being escaped. `SeparatorsAssumption`, for the separator
that a game or style writes: no bold or italic and no block is in it, and in it (and at
its end) a tag closes behind something other than an opening tag. The separators of
the data are `<line>\n</line>`, a space, a dash or a slash
(data/archenemy.mse-game/game:421). It also says that the field begins with what
its script gives, as every value of such a field does.

The invariant `Inv` says of the text and of each text on the stacks that it is
`Sound` (tags closed, blocks whole, separators as written), of each action that its selection fits the text before and the text
after it (`Turns`), along the whole stack (`Chained`), and of the selection what
`SelectionValid` says and that each index is one that belongs to its cursor position
(`Selected`). `TagsBalanced` alone is not inductive: whether an edit takes half of a
block depends on where the selection is, and where undo puts the selection depends on
the action; `SeparatorsKept` alone says nothing of the texts that undo brings back. TLC
checked `Inv` first.

1. *Blocks by reading a text once* (`Scan`). The code finds the end of a block by
   counting tags (`match_close_tag_end`), and `BlocksWhole` says that there is
   a partner for each tag: neither says what becomes of a text that is cut and put
   together. `Scan` reads a text from left to right and is outside of blocks, in one that is
   still empty, in one with a character, or broken; it composes over
   concatenation (`ScanConcat`). A text is `Whole` when it ends outside, which
   follows from `BlocksWhole` (`BlocksAreWhole`). The scan also counts items, so
   the width at a place is the cursor position there (`WidthCounts`, `CursorOf`).
2. *Simplifying* (`SimplifiedBalanced`, `SimplifiedScan`). Both passes of simplify_tagged are
   loops over the tokens with a list of tags in hand. What is written so far and
   the list, put together, have the same balance of each tag as what was read
   (`MergeKeepsLevels`, `OverlapKeepsLevels`), and scan to the same
   (`MergeKeepsScan`, `OverlapKeepsScan`). For the merge this depends on
   what add_or_cancel_tag does *not* cancel: `</sep><sep>` stays, `<sep></sep>` is
   never there, because a block has a character.
3. *Replacing* (`Replaced`). Between two places outside of blocks there are whole
   blocks and formats. The formats that are not closed there are collected and put
   around the new text (`Gathered`), so each tag keeps its balance before, in and
   behind it; of the blocks nothing is left, as each cancels itself out (`ScanTidy`).
4. *Places* (`RangeIs`, `IndexOf`, `InOrder`). The indices that belong to a
   cursor position are places outside of blocks at which as many items have gone by,
   so index_to_cursor leads back to the position, in each of the directions.
5. *fixSelection* (`FixSteps`, `FixIs`). The loop over the separators moves the end,
   never the start. After k separators both are on one side of each of the first k:
   moving the end to the other side of a separator cannot take it past one before,
   since there it was on the side of the start (`SameSideIs`). So the loop leaves no
   separator between the two (`SideBySide`), and the indices agree with the cursors
   (`IndicesAgree`).
6. *Separators* (`FramedOf`, `FramedGiven`). The script looks for the next `<sep>`, cuts
   there, and joins the parts with the separator as the game writes it. `Read` is a
   second scan: it compares each separator with that token by token and counts them, and
   a text is `Framed` when it has read one less than there are parts. A whole text is
   `Framed` exactly when the script gives it back. Both scans agree on where a
   separator is (`AllAgree`), so between two places outside of blocks
   with no separator between them (`Clear`, which `SideBySide` gives:
   `SelectedClear`) nothing that `Read` follows is taken or added (`FrameReplaced`,
   `FrameFormat`); simplifying only moves and drops formats, and cancels no pair of tags
   in a separator, because there a tag closes behind a character (`SimplifiedReading`).
7. *Steps*, one lemma each (`ReplaceKeeps`, `FormatKeeps`, `EraseKeeps`, `UndoKeeps`,
   `RedoKeeps`, `MoveKeeps`). An action holds the text before, and its positions
   fit both texts, so undo and redo find a selection within the text
   (`TurnsBack`); merging two deletions keeps the older text (`MergedAction`).

`TaggedString` and `TextEditing` had recursive operators, which became recursive
functions over positions; what such a loop comes to is in one lemma (`LoopIsThrough`).

### Only model-checked

Liveness (`RequestsComplete`, `AbortReturns`, `RoundsEnd`) is beyond this proof system,
and so is the absence of deadlock, which is about ENABLED.
`ScriptManager` computes with folds over sequences, and `SymbolParts`, the parser, the
dependency analysis and `ScriptMeaning` with recursive operators, which the prover
does not take. Where the recursion goes over positions
it can be rewritten as in `SetEditing`, `Keywords` and `TextEditing`; where it goes over
trees (expressions, groups of symbol parts: `ResultCorrect`, `DependenciesCover`,
`JoinsBalanced`, `UndoRestores`, `PartsOnce`) a theorem would need induction over data.
`UpToDate` of `ScriptManager` is about whole rounds of scripts that read each other.
Of `Keywords`, `RegionsAreKeywords` and `Settled` stay with TLC. Of `TextEditing`,
the refinement `ImplementsRichText` does.

## 7. What is not modelled, and why

- *Installer* (data/installer, gui/packages_window). What a good model would say
  is that what is going to be installed is closed under dependencies. The code
  does not promise that from one click to the next: keeping or not installing a
  package ignores the packages that need it, giving up a package counts down in
  the branch that counts up, a package can be marked for installation that there
  is no installer for, and packages that depend on each other recurse. There is
  nothing between the assignments of a single click and a property the code does
  not have. Also seen there: the installation of a package removes the old
  directory before it renames the new one into place, and an exception while the
  downloaded list is read leaves the status at DOWNLOADING, so that the window
  waits for ever (gui/packages_window.cpp:94).
- *Package manager*: a cache that only grows until it is reset, and a comparison
  of versions.
- *Update checker*: one thread that runs once. `Work` returns without clearing
  `checking_updates` when there is no stream (gui/update_checker.cpp), so that no
  later check is made; its result is published through a pointer without a lock,
  which the preferences window reads while a check made at the start may be
  under way.
- *Several windows on one set*, and *open recent*, which replaces the set without
  asking (gui/set/window.cpp:710); `onFileNew` of the symbol window does not ask
  either.
- *Random packs*: a sequential computation from a random generator with weights in
  floating point. Seen there: a pack type of the set with the name of one of the
  game's takes its place and is visited twice, and the second visit sets the count
  of its cards back to 0.
- *Reader, writer, settings, locale*: line by line conversions; what is hard about
  them is in the reflection of each class.
- *Error queue*: one list behind one mutex, each operation one critical section.
- *Built-in script functions, import and export*: conversions of strings and files
  without state.
- *Rendering, geometry, image processing, graphs, dialogs, command line*: no state
  whose order matters, or real numbers and pixels.
- In the modelled components: what section 3 excludes for each. The largest parts
  are the styles, stylesheets and extra card fields of the script manager, scaling
  and the point editor of symbols, and the drop-down lists, search and replace of
  the text editor.

Hazards that were seen, are real, and have no property: the script of the edited
value is run outside of any `try` (script/script_manager.cpp:265; what its error
does to the stack is `ListenersThrow`); the list is not sorted again after a
change made by a script (gui/control/card_list.cpp:113); a lost choice of a
reminder (data/keyword.cpp:551); a cache file read by the main thread while the
worker writes it (gui/thumbnail_thread.cpp:129); a bare pointer to a tree item in
a request (gui/package_update_list.cpp:176); `VCS::removeFile` given a name
without its directory (util/vcs.hpp:41); a scope left open when the analysis of
the outermost script fails (script/dependency.cpp:382); a style that is only
invalidated while cached orders stay (script/script_manager.cpp:322); undo of an
edit of a combined editor, which leaves its parts explicit
(script/functions/editor.cpp:90).
