-------------------------- MODULE MCRepositoryIndex --------------------------
\* Two callers index a repository of two files.
EXTENDS RepositoryIndex

MCFiles == 1 .. 2

================================================================================
