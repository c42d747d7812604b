--------------------------- MODULE MCOpenAiStream ---------------------------
\* OpenAiStream with a few calls of a few fragments.
EXTENDS OpenAiStream

=============================================================================
