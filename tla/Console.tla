------------------------------ MODULE Console -------------------------------
(***************************************************************************)
(* The screen terminal (term.c) and the shell's line editor on it          *)
(* (shell.c): the prompt, the line, the history and the screen operations  *)
(* around the program that a line starts.  One thread uses them.           *)
(*                                                                         *)
(* Of the screen the row of the cursor is kept, and where cursor marks     *)
(* are; rows below are blank, rows above are not looked at again.          *)
(***************************************************************************)
EXTENDS Integers, Sequences, FiniteSets, SequencesExt, Functions

CONSTANTS rows, cols,     \* the size of the screen
          Typed,          \* the printable characters the user types
          Programs,       \* words that name a command, to what it prints
          Unknown,        \* what is printed for any other word
          PROMPT,         \* what the prompt shows
          LINE_MAX, HISTORY_MAX

BS == "bs"    \* \b
Blank == " "

Printed == STRING \ {"\n", "\r", "\t", BS}

\* What a command prints ends its last row.
Complete(out) == out \in Seq(STRING) /\ (out = <<>> \/ Last(out) = "\n")

ASSUME ConsoleAssumption ==
  /\ {rows, cols, LINE_MAX, HISTORY_MAX} \subseteq Nat \ {0}
  /\ Blank \in Typed /\ Typed \subseteq Printed
  /\ PROMPT \in Seq(Printed) \ {<<>>}
  /\ \A word \in DOMAIN Programs : Complete(Programs[word])
  /\ Complete(Unknown)

VARIABLES
  term,      \* the terminal, see Cleared
  buf,       \* the line; its length is len
  hist_pos,  \* how far back in the history the line is, or -1
  history    \* the lines entered, oldest first

console == <<term, buf, hist_pos, history>>

-----------------------------------------------------------------------------
(* term.c                                                                  *)

\* wrapped: a row has been filled since the prompt.
Cleared(visible, wrapped) ==
  [row |-> 0, col |-> 0, cells |-> [c \in 0 .. cols - 1 |-> Blank], marks |-> {},
   visible |-> visible, drawn |-> FALSE, wrapped |-> wrapped]

term_clear(t) == Cleared(t.visible, FALSE)

Here(t) == <<t.row, t.col>>

draw_cursor(t, on) ==
  IF on /\ ~t.visible THEN t
  ELSE [t EXCEPT !.marks = IF on THEN @ \cup {Here(t)} ELSE @ \ {Here(t)},
                 !.drawn = on]

Erased(t) == IF t.drawn THEN draw_cursor(t, FALSE) ELSE t

term_set_cursor_visible(t, visible) ==
  LET u == [(IF visible THEN t ELSE Erased(t)) EXCEPT !.visible = visible]
  IN  IF visible THEN draw_cursor(u, TRUE) ELSE u

\* A blank row, for which the screen scrolls up at the bottom.
newline(t) ==
  LET next == [t EXCEPT !.col = 0, !.cells = [c \in DOMAIN @ |-> Blank]]
  IN  IF t.row + 1 < rows THEN [next EXCEPT !.row = @ + 1]
      ELSE [next EXCEPT !.marks = {<<m[1] - 1, m[2]>> : m \in {x \in @ : x[1] > 0}}]

\* put_char paints the whole cell.
put_char(t, c) ==
  [t EXCEPT !.cells[t.col] = c, !.marks = @ \ {Here(t)}]

Stepped(t, c) ==
  CASE c = "\n" -> newline(t)
    [] c = "\r" -> [t EXCEPT !.col = 0]
    [] c = BS -> IF t.col > 0 THEN put_char([t EXCEPT !.col = @ - 1], Blank) ELSE t
    [] OTHER -> LET u == [put_char(t, c) EXCEPT !.col = @ + 1]
                IN  IF u.col >= cols THEN newline([u EXCEPT !.wrapped = TRUE]) ELSE u

\* A tab is as many blanks as there are to the next multiple of 4, or to the edge.
Blanks(t) ==
  LET stop == 4 - (t.col % 4)
  IN  [i \in 1 .. (IF cols - t.col < stop THEN cols - t.col ELSE stop) |-> Blank]

Plain(t, c) == draw_cursor(Stepped(Erased(t), c), TRUE)

term_print_char(t, c) ==
  IF c = "\t" THEN FoldLeft(Plain, Erased(t), Blanks(t)) ELSE Plain(t, c)

term_print(t, str) == FoldLeft(term_print_char, t, str)

-----------------------------------------------------------------------------
(* The line editor of shell_init.                                          *)

prompt(t) == term_print([t EXCEPT !.wrapped = FALSE], PROMPT)

Times(c, n) == [i \in 1..n |-> c]

\* Mutant: goes back by the length of the new line.
redraw_line_New(t, new, old_len) ==
  term_print(t, Times(BS, Len(new)) \o new)

\* The blanks are for a terminal whose \b does not erase.
redraw_line(t, new, old_len) ==
  LET extra == IF old_len > Len(new) THEN old_len - Len(new) ELSE 0
  IN  term_print(t, Times(BS, old_len) \o new \o Times(Blank, extra) \o Times(BS, extra))

ConsoleInit ==
  /\ term = prompt(Cleared(TRUE, FALSE))
  /\ buf = <<>> /\ hist_pos = -1 /\ history = <<>>

\* The line that UP and DOWN put in place; what was typed is gone.
Recall(pos) ==
  LET line == IF pos < 0 THEN <<>> ELSE history[Len(history) - pos]
  IN  /\ history # <<>>
      /\ hist_pos' = pos
      /\ buf' = line
      /\ term' = redraw_line(term, line, Len(buf))
      /\ UNCHANGED history

Up == Recall(IF hist_pos + 1 < Len(history) THEN hist_pos + 1 ELSE hist_pos)
Down == Recall(IF hist_pos >= 0 THEN hist_pos - 1 ELSE hist_pos)

CtrlL ==
  /\ term' = term_print(prompt(term_clear(term)), buf)
  /\ UNCHANGED <<buf, hist_pos, history>>

\* A new line begins on the screen t.
Anew(t) == buf' = <<>> /\ hist_pos' = -1 /\ term' = prompt(t)

CtrlC ==
  /\ Anew(term_print(term, <<"^", "C", "\n">>))
  /\ UNCHANGED history

Backspace ==
  /\ buf # <<>>
  /\ buf' = Front(buf)
  /\ term' = term_print_char(term, BS)
  /\ UNCHANGED <<hist_pos, history>>

Insert(c) ==
  /\ Len(buf) < LINE_MAX - 1
  /\ buf' = Append(buf, c)
  /\ term' = term_print_char(term, c)
  /\ UNCHANGED <<hist_pos, history>>

\* Mutant: a line is kept however often it is repeated.
Remembered_Twice(line) ==
  Append(IF Len(history) = HISTORY_MAX THEN Tail(history) ELSE history, line)

Remembered(line) ==
  IF history # <<>> /\ Last(history) = line THEN history
  ELSE Append(IF Len(history) = HISTORY_MAX THEN Tail(history) ELSE history, line)

\* process_command looks at the first word; without one there is no command.
Word(line) ==
  LET from == SelectInSeq(line, LAMBDA c : c # Blank)
      rest == SubSeq(line, from, Len(line))
      to == SelectInSeq(rest, LAMBDA c : c = Blank)
  IN  IF from = 0 THEN <<>> ELSE IF to = 0 THEN rest ELSE SubSeq(rest, 1, to - 1)

Output(word) ==
  CASE word = <<>> -> <<>>
    [] word \in DOMAIN Programs -> Programs[word]
    [] OTHER -> Unknown

\* Enter, when the command has nothing more to do than to print.
Enter(word) ==
  /\ Word(buf) = word
  /\ history' = IF buf = <<>> THEN history ELSE Remembered(buf)

Print_output ==
  /\ Enter(Word(buf))
  /\ Anew(term_print(term_print_char(term, "\n"), Output(Word(buf))))

\* Enter, when the command is a program that runs for a while: a game hides the
\* cursor.
Begin(word, hides) ==
  /\ Enter(word)
  /\ term' = LET t == term_print_char(term, "\n")
             IN  IF hides THEN term_set_cursor_visible(t, FALSE) ELSE t
  /\ UNCHANGED <<buf, hist_pos>>

\* The program has ended.
End_game == Anew(term_clear(term_set_cursor_visible(term, TRUE))) /\ UNCHANGED history
End(out) == Anew(term_print(term, out)) /\ UNCHANGED history

-----------------------------------------------------------------------------
\* The history holds what can be a line, no line twice in a row, and the line is
\* in its buffer; the cursor is on the screen, and its mark is where it is and
\* nowhere else, or hidden.
ConsoleOK ==
  /\ Len(history) <= HISTORY_MAX
  /\ \A i \in 1 .. Len(history) - 1 : history[i] # history[i + 1]
  /\ \A i \in DOMAIN history : Len(history[i]) \in 1 .. LINE_MAX - 1
  /\ Len(buf) <= LINE_MAX - 1
  /\ hist_pos \in -1 .. Len(history) - 1
  /\ term.row \in 0 .. rows - 1 /\ term.col \in 0 .. cols - 1
  /\ term.marks = IF term.visible THEN {Here(term)} ELSE {}

\* While the line is edited the row of the cursor shows the prompt and the line
\* and nothing else, with the cursor behind it, whatever has been inserted,
\* erased and recalled.  Once the line has filled a row this is over: \b does not
\* go back to the row above.
ShowsLine ==
  ~term.wrapped =>
    LET shown == PROMPT \o buf
    IN  /\ term.col = Len(shown)
        /\ \A c \in DOMAIN term.cells :
             term.cells[c] = IF c < Len(shown) THEN shown[c + 1] ELSE Blank
=============================================================================
