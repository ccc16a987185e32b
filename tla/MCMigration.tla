----------------------------- MODULE MCMigration -----------------------------
\* Small instances of Migration.
EXTENDS Migration

\* The other four tables are copied as one of these two is.
TwoTables == <<"messages", "memories">>
MessagesOnly == {"messages"}
=============================================================================
