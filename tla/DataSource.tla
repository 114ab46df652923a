----------------------------- MODULE DataSource -----------------------------
(***************************************************************************)
(* DataReader.get_data of src/bot/price_notice_bot.py: the ordered origin  *)
(* chain journal -> URL -> file -> generated sample.  The payload itself   *)
(* is abstracted to the origin it came from; what each origin returns on   *)
(* a given call is an input of the environment (urlUp, fileOk, journalErr) *)
(* chosen by the caller with \E.                                           *)
(***************************************************************************)
EXTENDS Naturals

CONSTANTS
    JournalConfigured,   \* config.data_journal_conf is set
    UrlConfigured,       \* config.data_source_url is set
    FileConfigured       \* config.data_file_path is set

ASSUME {JournalConfigured, UrlConfigured, FileConfigured} \subseteq BOOLEAN

\* The origins a payload can come from.  read_from_journal never yields
\* data (it reads a record and returns None), so "journal" is not one.
Origins == {"url", "file", "sample"}

\* read_from_journal: builds the JournalReader on first use and reads a
\* record; neither call is inside a try, so a failing pybtrader call
\* escapes get_data as an exception.
JournalRaises(journalErr) == JournalConfigured /\ journalErr

\* read_from_url: data iff a session object exists and is still open and
\* the GET answers 200 with a non-empty body.  A closed session makes
\* session.get raise inside the try, which returns None.
ReadFromUrl(sessionOpen, urlUp) == UrlConfigured /\ sessionOpen /\ urlUp

\* read_from_file: data iff the file reads and is non-empty.
ReadFromFile(fileOk) == FileConfigured /\ fileOk

\* get_data: the first origin that yields non-empty data, in fixed order,
\* falling back to generate_sample_data.
GetData(sessionOpen, urlUp, fileOk) ==
    IF ReadFromUrl(sessionOpen, urlUp) THEN "url"
    ELSE IF ReadFromFile(fileOk) THEN "file"
    ELSE "sample"
=============================================================================
