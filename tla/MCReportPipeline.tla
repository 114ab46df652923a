--------------------------- MODULE MCReportPipeline ---------------------------
EXTENDS ReportPipeline

\* Payloads of ordinary characters and newlines (a pretty-printed JSON
\* object, or a raw multi-line body).
MCPlainData == {"x", C!NL}

\* Payloads that may also contain a '<'.
MCMarkupData == {"x", C!NL, RawLt}
=============================================================================
