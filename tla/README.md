# A verification of minishell

These modules model the parts of `minishell` (C, `src/src`, headers in
`src/incl`) in which the order of events matters: the processes and
descriptors of a pipeline, the command-line loop with its signal handlers and
heredocs, the redirections of a single command, the temporary file of the
heredocs, the search and execution of a program, the environment the builtins
change, and the way from a typed line to the commands it runs. TLC checks them
on small instances; TLAPS proves the most important properties for every value of the
constants.

## The system

minishell reads a line with readline, splits it into tokens, expands
variables, joins adjacent words, parses a list of commands, reads the heredocs
of the list from the terminal, and runs it: a builtin in the shell itself, one
external program in a child, two or more commands as a pipeline of children.
It then goes back to the prompt. There is one thread; concurrency comes from
the children, from the signal handlers, and from the processes outside.

| component | state | operations | what makes it correct |
| --- | --- | --- | --- |
| Main loop (`main/`, `utils/shell_loop_utils.c`) | `t_env`: `exit_status`, the latch `exit`, `exit_requested`, `at_prompt` | `shell_loop`, `process_command_line`, `process_tokens_and_execute`, `execute_shell` | `$?` is the status of the line just run; the shell always comes back to its prompt |
| Signal handler (`signal/`) | the installed actions, `at_prompt`, `heredoc_interrupted` | `setup_signal`, `sigint_handler`, `sigquit_handler`, `heredoc_sigint_handler` | the handlers at work are those of whoever has the terminal; no signal loses a child |
| Heredoc (`redirect/redirect_utils3.c`, `process_heredocs`) | `fd_in` of each command, `/tmp/minishell_heredoc` | `handle_heredoc`, `cleanup_heredoc`, `process_heredocs` | an interrupted heredoc cancels its line and brings the prompt back; a command reads its own text and nothing older |
| Pipe (`pipe/`) | `t_pipe`: pipe ends, backups, pids; descriptor table of each process | `setup_pipeline`, `process_pipeline`, `fork_and_execute_pipe`, `execute_parent_process`, `execute_pipe_child`, `cleanup_pipeline`, `wait_for_child` | every reader sees the end of its input, every writer a broken pipe; no descriptor, child or command list is lost; the status is the last command's |
| Redirection (`redirect/`, `utils/redir_utils.c`) | descriptors 0, 1 and their backups | `process_redirect`, `handle_input_redirect`, `handle_output_redirect`, `restore_io` | a program runs with the files it names or not at all; the shell gets its own back |
| External function (`execution/`, `utils/execute_shell_utils.c`) | the child, its wait status | `ft_fork`, `ft_execve`, `ft_wait`, `get_path` | the child is reaped exactly once, however often the wait is interrupted; the first executable file of PATH runs, and a failure says so |
| Built-in function (`builtin/`) | `env_var`, the current directory | `ft_export`, `ft_unset`, `ft_cd`, `add_shlvl`, `ft_exit`, `ft_echo`, `ft_pwd`, `ft_env` | the array is a dictionary; a builtin changes what it names and nothing else; `exit` means its number |
| Lexer, Parser, Expander (`utils/`, `expander/`) | lists of tokens and commands | `tokenize`, `merge_consecutive_tokens`, `parse_tokens`, `expand_tokens` | they end on every line, and keep words and operators apart |
| libft | none | string helpers, `ft_atoi`, `get_next_line`, `ft_printf` | out of scope but for `ft_atoi` |

Interactions: all components share `t_env`. The handlers write it between any
two steps of the loop. A child gets a copy of it, and of the descriptors and the
handlers, at `fork`. Heredocs are opened before the command list runs and
consumed by the stages. The pipeline and a heredoc each replace the signal actions
and hand them back.

The hard behaviours are listed, at their lines, under `hazards` in
`PROJECT.json`: descriptors that stay open in one process too many, stale
descriptor numbers that are closed twice, a signal between any two steps, the
latch of the status written by handlers, failures of pipe, fork, dup and open
in the middle of a set-up, children that end in any order, files that change
between a check and a use, one temporary file for all heredocs of all shells.

## Modules

| module | what it is |
| --- | --- |
| `Descriptors` | descriptor tables as functions: lowest free number, `dup`, `dup2`, `close` (the kernel's rules, external) |
| `StatusLatch` | `exit_status()` of `t_env`: the first status of a line wins; used by `Pipeline`, `Shell`, `Environment`, `Redirect`, `Execution` |
| `Pipeline` | `src/pipe`: the shell and its children, one action per step between system calls that matter |
| `Job` | what `execute_pipeline` promises: launch, exit, reap each once, finish |
| `PipelineProperties`, `MCPipeline` | properties, and the command lists for TLC |
| `Shell` | the command-line loop, heredoc dialogue and signal handlers |
| `ShellProperties`, `MCShell` | properties, and the lines for TLC |
| `Environment` | `env_var`, export, unset, cd, SHLVL, shells inside the shell |
| `Bindings` | what a user may rely on of the variables: a dictionary, and a stack of them |
| `EnvironmentProperties`, `MCEnvironment` | properties, and the command lines for TLC |
| `Syntax` | `tokenize`, `expand_tokens`, `merge_consecutive_tokens`, `check_format_command`, `parse_tokens` |
| `SyntaxProperties`, `MCSyntax` | properties, a reference reading of a line, and the lines for TLC |
| `Redirect` | a single command in the shell itself: the check of its redirections, input, output, the run, `restore_io`; composes `Descriptors` and `StatusLatch` |
| `RedirectProperties`, `MCRedirect` | properties, a reference reading of redirections, and the lines and files for TLC |
| `Heredoc` | the text of heredocs: one file, many writers and readers |
| `HeredocProperties`, `MCHeredoc` | properties, symmetry of the shells |
| `Execution` | one command: `exit` and its argument, or `get_cmd_path`, `ft_execve` and the checks after it |
| `ExecutionProperties`, `MCExecution` | properties, and the commands and directories for TLC |
| `DescriptorsProofs`, `PipelineProofs`, `ShellProofs`, `EnvironmentProofs`, `SyntaxProofs`, `RedirectProofs`, `HeredocProofs`, `ExecutionProofs` | lemmas, theorems and proofs |

Operators named `Fault...` stand before the definition they vary: the same code
with one plausible mistake. No specification uses them; `mutants` in
`PROJECT.json` says which property notices which.

### Pipeline

Process 0 is the shell, process `p` the child for command `p`. `fdtab[p]` maps
numbers to the objects they refer to (the terminal, a file, the read or write
end of pipe `q`), `ctx[p]` is that process's `t_pipe`: the *numbers* it
believes to be its pipe ends and backups. The two are kept apart because the
code closes by number, sometimes a number it has closed before.
`fork` copies table, context and status. Shell actions follow
`process_pipeline` (`SetupPipeline`, `CreatePipe`, `Fork`,
`ExecuteParentProcess`, `Cleanup`, `WaitForChild`, `Return`; `PipeFails` and
`ForkFails` are the error paths of `create_cmd_pipe` and `handle_fork_error`,
`Exit...` the cases of `exit_handler`). Stage actions follow
`execute_pipe_child`: close the backups, check the redirections, set up the input,
set up the output, execute. Programs are abstract: `yes` writes for ever, `cat` copies,
`head` takes one item, builtins write one. A pipe holds a number of items.

Kept: every error path, including those whose result the code drops (an
`InputRedirectFails` that lets the program run). SIGPIPE is ignored and stays so
across `execve`, therefore writers learn of a closed pipe from `write`.
`exit` closes 3 to 9 whatever they are. `args[0]` of a command with no word
is dereferenced by `is_builtin`: that child dies of a signal.

### Shell

`pc` walks through one turn of `shell_loop`. A line is a record: what it runs,
the code the program will exit with, how many heredocs it has. Signals arrive
between any two steps; `action` says which handler is installed, and what the
handler does to `t_env` is `Sigint` and `Sigquit`. The heredoc handler puts a
newline in the terminal's input (`TIOCSTI`), counted by `injected`; readline,
restarted after the handler, returns only through it. `wait` is retried after
a handler (`eintr`). A pipeline is one step that saves, ignores and restores
the actions.

`quiet`, `cancelled` are history variables: no signal or fault has touched the
line; Ctrl-C was typed while a heredoc of the line was being read.

### Environment

`env_var` is a sequence of entries, as the array of `NAME=value` strings;
`UpdateEnv` and `UnsetEnv` are the loops of `update_env`, `add_env` and
`ft_unsetenv`. A value is a text of a small set or, for SHLVL, a number: the
conversions by `ft_atoi`, to `int` and by `ft_itoa` are what `Int32`, `Raised` and `Number`
say. `export` and `unset` take one argument per step. `cd` is two steps,
`chdir` and the second `getcwd`, because another process may remove the directory in
between; a failed `getcwd` leaves an uninitialized buffer, of which `Garbage`
says what it may hold. `StartShell` and `ExitShell` are a minishell
run from minishell: the new one raises SHLVL in its copy, the old one waits in
`outer`. `strayed` is a history variable: the user, the inherited environment
or a removed directory has made PWD differ from the current directory. `PwdFollows`
says what PWD is while it has not strayed and, with a directory removed inside
`cd` too, what a `cd` may leave in it. Of `export NAME` for a name that has a value
`ArgumentsApplied` asks only that it has one after it (see under Findings, also seen).

### Syntax

A character stands for its class: a letter for what is neither blank, quote,
operator nor `$`. One step is one turn of a loop: over the characters of the
line (`Tokenize`), over the tokens (`DropDollar`, `ExpandToken`; `MergeToken`;
`CheckFormatCommand` and `ValidateTokens` whole, since they only look) and over
the tokens again, which `ParseWord` to `ParseAnd` turn into commands. `phase`
is the loop at work, `cur` its `current`. The infile, outfile and append of
a `t_cmd` are those of its last redirections, so a command keeps the list alone.

`dangling` says that `free_single_token` has freed the first token while the
caller still holds its address. From there on, and when a list that consisted of
one `$` is gone, what the program does is not defined by its code: phase
"undefined" ends the behaviour, and no property speaks of it except that it
comes only of lines that begin with a `$` (`HeadStays`).

`Lexemes`, `WellFormed` and `Grouped` in `SyntaxProperties` read a line by the rules of
sh, one character at a time with the quote that is open, without tokens that are
joined later. The code and that reading agree (`PlainLinesRead`) but for these
lines, each a named condition:

- `EmptyQuotes`: `""` vanishes unless a blank follows it, then it is the word `" "`.
- `QuotedOperator`: an operator straight after a closing quote is joined to the
  word: `"a"|b` is one word.
- `GluedFile`: in `>a"b"` the file is `a` and `b` an argument.
- `QuotesAndBlank`: a word is not joined to two quotes, equal or not, before a blank.
- `CommandWordFile`: `> cat` is refused, because the name of a command is a
  token of another type.
- `SecondHeredoc`: of two `<<` in one command only the last is kept; sh reads both.
- `Beyond`: `$` (values are checked for `OperatorsAreTyped` instead) and `&`:
  `a && b` passes `validate_tokens` and becomes the one command `a b`.

### Redirect

One action per step of `execute_shell`, `handle_redirect` and `restore_io`, over
several lines, so that what one line leaves in the table meets the next. `fds`
is the shell's table; a line is a record of what it runs, how many heredocs it
has and the list of its redirections. `Check` is one turn of the loop of
`process_redirect`, which opens and closes every file; the input and output
steps then open the last of each kind (`TheOne`, what `update_cmd_files` has
kept) again. `Change` lets another process alter the permissions of a file, or
of its directory, at any moment. A file is its permissions and the numbers of
the lines whose command wrote to it. A pipeline appears only with the status it
reports; `Pipeline` has its steps.

Kept: `OutputFails` undoes nothing, `FileInputFails` closes the backup it has
just made, `ft_exit` closes 3 to 9 with the backups among them, what `printf`
leaves in `buffer` is written wherever descriptor 1 points at the next prompt.
`calm`, `before`, `ran` and `refused` are history variables.

`ShLine` in `RedirectProperties` is the reference: sh tries the redirections
from left to right, each opens its file, the last one of a kind counts, and the
first that fails ends the line. The code opens files twice and in another order, and
yet ends with the same files (`LinesDoAsSh`). A heredoc together with a file
(here the heredoc always wins) is excluded by name. The word `exit` that `ft_exit` writes
counts as the output of the command on both sides: whether sh would write it is not asked.

### Heredoc

Any number of shells. `path` is the file at `/tmp/minishell_heredoc`, `text` the
cells of every file made so far, of which an unlinked one lives on while it is
open. `writer` and `reader` are open files with their offsets. A line of text is one
cell, known by the time it was written: an offset behind the end of a truncated file
leaves a `Hole`. `Create` truncates, `Type` writes, `Reopen` opens whatever is
at the path then, `Interrupt` unlinks it, `Read` is a step of the command.
`CreateFails` and `ReopenFails` are opens that the system refuses; the second
also comes of a path where nothing is any more.
`own`, `created` and `typed` are history variables: no other shell has been busy
with a heredoc since this one's began, and no open of it was refused; when it began;
what was typed into it.

### Execution

`Exit` is `ft_exit` with `handle_exit_arg`: an argument is a sign, digits and
whether anything else is in it; the sum of its characters decides what is too
long, and `Atoi` keeps the low byte, which is all that `exit` passes on. An external
command is `GetCmdPath`, one step per directory for `FindPath`, `Execve`, and
on failure `CheckDir`, `CheckStat`, `CheckAccess`: five looks at the file
system, between any two of which `Change` may put something else at a place.
`entry` is the status and latch that the child inherits, which decide what
`exit_status` still changes. `first` and `touched` are history variables: what was at
each place when the command began, and which places somebody has changed since. With them
`FirstExecutable` speaks of each place by itself, and a change elsewhere, or behind the
program that is found, excuses nothing. `FailureCode` names the cases (`Untold`)
in which a status does not say what is there: a directory that cannot be opened, and a
file in PATH that is not executable.

## Runs

| run | instance | shows |
| --- | --- | --- |
| `pipeline` | 3 commands, 7 lists, 14 descriptors, 1 Ctrl-C, 3 entry statuses | all interleavings keep pipe ends confined, restore the descriptors, leave heredocs alone, wire the stages, free the list once, report the last status, and implement `Job` |
| `pipeline_live` | 4 commands, 7 descriptors, no Ctrl-C | `EofPropagates` and `BrokenPipePropagates`: no stage or wait blocks for ever, also when numbers run out and every call fails for want of one; `DescriptorsBalanced` there |
| `shell` | 3 lines of 13 kinds, up to 2 heredocs, 3 signals, 1 failing call | status, handlers, child and terminal stay with whom they belong; the prompt comes back |
| `environment` | 4 lines of 13 kinds, 4 inherited environments, 2 directories, INT_MAX = 3, shells 2 deep | the array is a dictionary, each builtin does what it says, PWD and SHLVL are right, `Bindings` is implemented |
| `syntax` | 75 000 lines: all of up to 4 characters of 9 classes, of up to 5 or 6 of the classes that interact, and of up to 5 longer pieces | every line ends, is read as sh reads it, makes no operator of quoted text or of a variable, loses no letter; the parser stays in its list |
| `redirect` | 2 lines of 11 kinds, 2 files in 4 states each, 6 descriptors, 1 change, 1 failing call | a command runs with its files or not at all, the table is restored, the files end as with sh |
| `heredoc` | 2 shells, 2 heredocs a line, 3 lines, 3 lines of text, 1 refused open | a heredoc left alone arrives complete; nothing older than a heredoc is ever read |
| `execution` | 2 directories with 6 kinds of content each, 2 changes; over a thousand argument lists of `exit`; 4 entry statuses | at places left alone the first executable file runs, failures say 126 or 127, `exit` means its number |
| `pipeline_builtin_status`, `heredoc_texts`, `redirect_stdin`, `redirect_echo` | as above, smaller | one disagreement each, see Findings |

Of the type invariants, which are all theorems, the runs repeat those of `Syntax` and
`Execution`.

Why these bounds. A pipe end can be leaked to a neighbour or to a later stage:
three commands have a first, a middle and a last one, with both kinds of
neighbours; the fourth in `pipeline_live` lets a stage follow one that was
given up. Seven descriptors make the backups succeed and the first pipe fail, or
the reverse, depending on heredocs. One item per pipe is enough to block a
writer. One Ctrl-C suffices, since it ends every child that can be ended. Three signals
allow one to come before, during and after another's effect on the latch; two heredocs let
the second clear the flag the first has set. Four lines let a variable be
set, uncovered, moved and read; with INT_MAX = 3 the
inherited and exported numbers include INT_MAX and one that an int cannot hold.
The lexer looks at most two characters past a quote and decides by the class of
one; four characters are a quote, its match and those two, six let two quoted texts
meet between words. The value of the one variable holds a pipe and a quote: the two
characters that must not be read again.

In `redirect` the second line meets the descriptors that the first has leaked. With
six, three are free at first: a backup and a file need two, and a heredoc,
leaked backups or a leaked heredoc make the third, the second or the first call
fail. One change is enough to come between the check and the use. In
`heredoc`, three lines let two shells overlap and one start again after an
interruption; the third line of text lets a stale offset lie behind the end.
In `execution`, two places have a first and a later one; one change can fall
between the search and `execve`, the second between `execve` and the checks.
The numbers of `exit` are all of up to three digits of four, and those at the
limits of the sum of characters and of a long long.

### Fairness

`Pipeline` assumes weak fairness of the shell and of each stage: the kernel
schedules every process that can run; a read or write that blocks is a disabled
step. A program that reads the terminal gets its end of input. Nothing is
assumed of Ctrl-C. `yes` may write for ever: `EofPropagates` speaks of
pipelines without it, and `BrokenPipePropagates` is what ends it. In
`Shell` only the shell's own steps and the child's are fair; nobody has to type a
line, an answer to a heredoc or a signal, so every liveness property starts
after the typing. `Environment`, `Redirect`, `Heredoc` and `Execution` state
safety only. `Syntax` is one thread in
which nothing waits, so its next step is taken.

Deadlock is checked in every run but those of `Syntax`, whose behaviours end with
their line (`EveryLineEnds` says where they may end), and of `Redirect`, `Heredoc` and
`Execution`, whose behaviours end when the bounded number of lines is used up,
the shell has exited or the command is over. In the others, a shell that waits for the user, or has exited,
may stutter (`Idle`, `Over`); any other stop is an error.

## Theorems

Assumptions, each named and evaluated by TLC: `FdLimitAssumption`,
`CodesAssumption`, `PipelineAssumption` (2 to 64 commands, since `pids[64]` is
filled without a check), `HeredocsOpen` (`process_heredocs` has opened the
heredocs of the list before `execute_pipeline` is called), `ShellAssumption`,
`EnvironmentAssumption`, `SyntaxAssumption` (lines and values are C strings, no
command word is empty), `RedirectAssumption`, `HeredocAssumption` (types of lines,
files and bounds) and `ExecutionAssumption` (an exit status is one of 0..255; types).
`StagesRunWired` has one more, of its own: see there.

| theorem | argument |
| --- | --- |
| `PipelineProofs!TypeCorrect` | `TypeInv`: types, and that the index of the current command is a command wherever it is used |
| `WriteEndsStayConfined` | `WriteInv`: a stage holds only its own write end; the shell holds that of the current command, and only at `fork` and `parent`, and there at the very number `ctx` records. Confinement alone is not inductive: that closing *by number* closes the write end needs the last part |
| `PipelineImplementsJob` | `JobInv`: commands ahead of the loop are not forked, a requested exit has ended the loop, every forked child is on `pids` or about to be, and those before `waited` have been reaped |
| `CommandsReleasedOnce` | from `JobInv`: no turn of the loop follows an exit, so `is_exit_request`, which frees the list early, is never reached |
| `DescriptorsStayBalanced` | `BalanceInv`: a process's table is the one on entry except at the numbers its `ctx` records, and each of those is closed, a backup of the terminal or an end of the pipe it is recorded for (`Keeps`). That no close by number hits anything else is this and that the backups and the pipes never share a number |
| `HeredocsReachTheirStages` | the same relation for a stage that has not wired itself, with the table on entry, in which the heredocs are; a stage's own heredoc stays until it is copied to 0 |
| `ReadEndsStayConfined` | `PipeInv`: what a read end's holders are at each place; the previous pipe's end is in the shell at exactly one number, `ctx.prev` |
| `StagesRunWired` | `WireInv`: what is at 0 and at 1 after each step of a stage, and that its pipe's ends are still at the numbers of `ctx` until then. It assumes `FdLimit >= N + 7`: 0 to 2, a heredoc for each command, three pipe ends and the copy that a `dup` needs. With fewer, a call fails whose result the code drops, and the stage runs with another input (see `setup_pipe_input` under Findings) |
| `StatusIsOfLast` | `StatusInv`: children are reaped in the order of `pids`, the latch is open until the last one, and its code closes it |
| `ShellProofs!TypeCorrect`, `ChildIsAwaited`, `TerminalIsOwned` | `OwnInv`: the shell waits iff it has a child, and `at_prompt` holds only outside heredocs, children and pipelines |
| `InterruptedLinesNeverRun` | `CancelInv`: once cancelled, the flag is set and the loop over heredocs is on a path that does not clear it |
| `PromptIsReady` | `ActionInv`: which actions are installed and saved at each place of the loop, as long as no call has failed |
| `StatusIsOfLine` | `QuietInv`: while the line is undisturbed, the latch stays open until the command runs, and what it then holds, or what the child is about to report, is a status the line may have |
| `EnvironmentProofs!TypeCorrect`, `KeysStayUnique` | mutual: `update_env` returns an array with unique names if it is given one |
| `ShlvlStaysInRange` | `RaisedInRange`, for every INT_MAX and every inherited number |
| `PwdFollowsCwd` | inductive with the previous two and `CdInv`: between `chdir` and the end of a `cd` PWD is as before the line, and what `update_env` then gives it is the name of the directory |
| `ArgumentsAreApplied` | `ArgsInv`: after `next - 1` arguments the array is that of before with those applied, and whether one was refused is what the status says; one step of `update_env` and of `ft_unsetenv` is `UpdateEnvIs`, `UnsetEnvIs` |
| `EnvironmentImplementsBindings` | `UpdateEnvIs`, `UnsetEnvIs`: what the loops over the array do to the set of its entries |
| `ParserStays` | `TokensInv`: the list is never empty after `tokenize`, and only a word gets the type command. `ParseInv`: the list that is parsed is one `validate_tokens` accepts, so that a text follows each redirection and taking two tokens stays in the list |
| `EmptyCommandsAreQuoted` | `ParseInv` again: without an empty text, a command is empty only while it is the last one and what was parsed last is an operator, and no list that is accepted ends with one, or has a pipe after one |
| `HeadIsFreedForDollars` | `HeadInv`: until the first token is made only blanks and quotes have been passed, and while the expander is at the head that is this token, which is a `$` by itself only if the line begins with one |
| `OperatorsAreTypedByUser` | `LexInv`: between two tokens the lexer stands outside every quote, and of the tokens it has made no more are pipes, or redirections, than it has passed unquoted characters for them; later passes drop, change and merge tokens but give none an operator's type. `OrderInv`: the parser has made one command for each pipe behind it and one redirection for each operator at most |
| `NoLetterIsLost` | `KeepInv`: on a line without variables, the values of the tokens hold a letter as often as the part of the line the lexer has passed, and from then on as often as the line; a token that is no text holds no letter and joins nothing. `HeldInv`: the commands hold it as often as the tokens before `cur`. The sum over a list is a function from its places (`Running`), extended token by token. A second `<<` in a command would replace a delimiter; that there is none is `LexInv` again, where a heredoc weighs two characters |
| `PlainLinesAreRead` | `ReadInv`: between two tokens of the lexer, the tokens made so far, those that will be joined taken together, amount to the lexemes that sh's rules have made of the same part of the line, the open word included (`Reads`, `Agree`). Joining two tokens leaves what they amount to (`JoinedReads`), so after the merge there is one token for each lexeme (`Ready`), and `validate_tokens` accepts such a list exactly if it is `WellFormed` (`ValidIs`). `GroupInv`: the commands made are those sh makes of the lexemes before `cur`, and the last of them has a delimiter only if a `<<` stands behind its pipe, so that the next one is either its first or `SecondHeredoc`. Each exception of `Plain` is used where a step would fail without it |
| `SyntaxProofs!TypeCorrect` | `TextInv`: every token holds a text. That `Expanded` is a function on the places of a value, although it is defined by recursion from place to later place, is shown by building it from the end: for the least place from which there is none, there is one |
| `RedirectProofs!TypeCorrect` | `Started`: a line's number counts from 1 once it is read; a redirection taken from the list exists (`TheOneIsLast`, from `GreatestIndex`) |
| `RunsWithFiles`, `TableIsRestored` | `IInv`: at each step of the set-up, the table differs from the one before the line at 0, at 1, at the two backups and at the line's heredoc and nowhere else, and each of these holds what was saved or what was redirected. Restoring is right only because the backups are two numbers, free before the line, and neither is the heredoc's: that is what the invariant has to carry along |
| `CommandsDoAsSh` | `AsSh`: while the loop of the check is behind its k-th redirection, files and outcome are those of sh after k (`ShAfter`), and after the check those of sh after all. What `handle_input_redirect` and `handle_output_redirect` open again is then as sh left it, so it neither fails nor changes a file (`OpenedAgain`), and the three descriptors a line has in hand are enough |
| `HeredocProofs!TypeCorrect` | a shell that types has a file to write to, and no offset or file is beyond those made |
| `NothingStale` | `IInv`: every cell of the file at the path is younger than the heredoc being typed, since opening it emptied it and whoever truncates or writes it later only adds younger cells; the same then holds of the file a reader was given, and of what it has read |
| `OwnTextArrives` | `OwnInv`: as long as no other shell has been busy with the file since this heredoc began and no open of it was refused, the file at the path is what was typed, the writer stands at its end, and what the command has read is the beginning of it up to the reader's offset |
| `ExecutionProofs!TypeCorrect`, `FirstExecutableRuns`, `FailuresAreTold` | `IInv`: a place that was passed had nothing executable or has been changed, and what stands at a place nobody has changed is what stood there first; what was executed is what was found; each check that has been passed rules out what the status would otherwise have to say |
| `ExitTellsItsNumber` | `ExitInv`, and what the three folds over the digits compute: `Mod`, the value and the sum of the characters are related by induction on the number of digits, as a least counterexample |

`DescriptorsProofs` has the facts about tables the pipeline proofs rest on. That a
search from the start of the array finds the *first* match rests on the least
element of a set of numbers (`LeastElement`, from the library's well-foundedness of
`<`).

The library's induction theorems take an operator as a parameter, which the
provers at hand cannot instantiate. Where a theorem needs an induction over numbers
(the folds of `exit`, the expansion of a value, the quote that is open before a
character, sh's reading of redirections), the proof takes the least number for
which the claim fails and derives a contradiction, or builds the function up
number by number.

Only model-checked: the liveness properties
(`EofPropagates`, `BrokenPipePropagates`, `InterruptReturnsToPrompt`,
`CommandsComeBack`, `EveryLineEnds`), because liveness under fairness and ENABLED are
beyond the prover. Every other property of a passing run, invariants, action
properties and the two refinements, is a theorem.

## Findings

Four places where the code does not do what its comments say; each has a run
whose counterexample shows it.

1. A builtin that succeeds in a pipeline exits with the status of the *previous* line
   (`pipe_utils4.c:41`; `ft_pwd.c:19` documents 0).
2. All heredocs of a line share one file, so every command of
   `cat <<a | cat <<b` reads the text of the last one (`redirect_utils3.c:20`).
3. If the output cannot be opened after the input was redirected, the shell keeps
   the file as its own standard input (`redirect_utils2.c:50`, `shell_loop.c:44`).
4. `echo -n a > f` leaves `f` empty; `a` appears on the terminal with the next
   prompt (`ft_echo.c:61`, no flush before `restore_io`).

Also seen while modelling; the models do what the code does, no run is
dedicated to it:

- `setup_pipe_input` never returns 1: a stage whose input cannot be opened runs
  on the terminal (`pipe_utils2.c:103` against `:81`).
- Ctrl-C at the prompt does not set 130 if Ctrl-\ came first at
  that prompt (`signal_utils.c:38` against `:27`), and that latched 0 makes a command
  that is then not found end with 0 (`FailureCode` names the case `entry.exit`).
- If the heredoc file cannot be reopened, the prompt keeps the heredoc's
  handlers (`redirect_utils3.c:63`).
- `export NAME` overwrites an existing value with `''`, although the comment adds
  a name without a value only if it does not exist (`ft_export.c:117` against `:141`).
- `exit +`, `exit -` and `exit ""` are taken for numbers and end with 0, although `exit` is
  to be given a numeric argument (`ft_exit.c:66` against `:17`).
- A second `<<` in a command replaces the delimiter of the first, whose text is never
  read (`parse_tokens_utils.c:64`; `SecondHeredoc`).
- A directory that cannot be opened is told with 127, as a command that was not found
  (`execute_utils.c:34`); a file in PATH that is not executable is passed over, and the end is
  127, not 126 (`execute_path.c:62`; `Untold`).
- `cd` goes to the HOME the shell was started with, not to the exported one
  (`ft_cd.c:35` against `:20`).
- `> f` alone creates nothing (`shell_loop.c:42`), and a heredoc is taken as input
  whatever file comes after it (`redirect_utils1.c:66`).
- A heredoc that is not consumed, by a line that is refused, interrupted or a
  pipeline, stays open in the shell (`shell_loop_utils.c:63`).
- `exit` refuses some numbers of 17 digits and more that fit a long long, and
  accepts 10000000000000000000, which overflows it (`ft_exit.c:74`).
- Empty components of PATH, which stand for the current directory, are dropped by
  `ft_split` (`execute_path.c:54`).
- A line `$"` in an unquoted heredoc makes `expand_var_instr` go round for ever
  (`expander_utils.c:84`); the lexer keeps the two characters out of every token.

## What is left out

- The outcomes of `malloc` are all successes. `args[64]` and `pids[64]` are not
  overrun: longer lines are outside the model.
- In `Pipeline`, what is read and written has no content; the terminal and files
  never block.
- `dup2` with two valid descriptors does not fail for a single command (it may in a
  pipeline stage).
- `reset_input_state` does nothing when stdin is the terminal; `TIOCSTI` is taken to
  succeed; SIGQUIT during a pipeline is as SIGINT. `is_exit_request` is
  modelled (in `ExecuteParentProcess`) but never reached.
- The echo settings of the terminal, colours, prompts and messages; what `env`, `pwd`
  and `echo` print and the words of `-n`.
- Variable names that are identifiers only, so a name is a prefix of an entry only up to
  its `=`. Directories are named as `getcwd` names them, `Paths` says what a text
  leads to.
- `Heredoc` has no signals but the Ctrl-C that ends a heredoc (`Shell` has them all),
  and the expansion of its lines is left out; `Redirect` has the text of the
  temporary file as one object per line.
- In `Execution`, the user is not root (for whom `access` and `opendir` succeed),
  and PATH itself does not change while a command is looked for. Numbers are taken
  modulo 256 from the start, which is what two's complement gives when `ft_atoi`
  overflows.
- In `Syntax`: digits (a number before a redirection), `$?` reads as the
  constant `Status`, the
  place of the file among a command's words, and what the program does after
  the head of its list is freed.

## Not modelled

- `libft` but for `ft_atoi`: helpers on strings and lists without state; each is
  abstracted by what its callers rely on.
- `process_additional_quotes`, `cell_split_line` and the other functions that nobody calls.

## Plan

Done: all modules listed above, their runs, and the theorems of the table. What is
left to try is to widen what is modelled: the contents of pipes, and failures of
`malloc`, which the code tests for in most places.
