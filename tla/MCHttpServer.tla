---------------------------- MODULE MCHttpServer ----------------------------
EXTENDS HttpServer
MCThreads == Workers \union {Main}
=============================================================================
